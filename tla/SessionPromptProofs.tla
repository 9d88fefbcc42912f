------------------------ MODULE SessionPromptProofs -------------------------
(***************************************************************************)
(* Which session an event is in, and which session is a bounce: what       *)
(* README.md:145 says of SESSION_TIMEOUT_MIN, as the visitor sees it, for  *)
(* a server with one worker whose saves are prompt.                        *)
(*                                                                         *)
(* The trail of the worker is the events table and the part of its batch   *)
(* that has a session already.  Told says that the sessions table is what  *)
(* the trail tells; each commit adds an event to the trail and its session *)
(* to the table, and keeps the two in step.  Only a save that is over, or  *)
(* is so prompt that all of its batch is of this moment, has such a trail. *)
(***************************************************************************)
EXTENDS SessionRowsProofs

\* The names of events that leave a session a bounce.
Passive == {"hidden", "ping"}

-----------------------------------------------------------------------------
(***************************************************************************)
(* Trails: T[1], ..., T[n] are events with their sessions, in their order; *)
(* S is a table of sessions.                                               *)
(***************************************************************************)
\* Event i is the last one of its visitor before j.
Before(T, i, j) ==
  /\ i < j
  /\ \A k \in i + 1..j - 1 : T[k].visitor # T[i].visitor

\* Successive events of a visitor are in two sessions exactly if they are a
\* timeout apart.
Parted(T, n) ==
  \A i, j \in 1..n : T[i].visitor = T[j].visitor /\ Before(T, i, j) =>
    (T[i].session # T[j].session <=> T[i].created + Timeout <= T[j].created)

\* A session was updated no earlier than its events.
Covers(S, T, n) ==
  \A i \in 1..n :
    /\ T[i].session \in DOMAIN S
    /\ S[T[i].session].visitor = T[i].visitor
    /\ T[i].created <= S[T[i].session].updated

\* No session of a visitor was updated after the last event.
EndsWith(S, T, n) ==
  \A i \in 1..n : Before(T, i, n + 1) =>
    \A s \in DOMAIN S : S[s].visitor = T[i].visitor => S[s].updated <= T[i].created

\* Every session has an event.
Heard(S, T, n) == \A s \in DOMAIN S : \E i \in 1..n : T[i].session = s

ReadOn(T, n, s) ==
  \E i, j \in 1..n :
    i < j /\ T[i].session = s /\ T[j].session = s /\ T[j].name \notin Passive

Bounces(S, T, n) == \A s \in DOMAIN S : ~S[s].bounce <=> ReadOn(T, n, s)

Told(S, T, n) ==
  Covers(S, T, n) /\ EndsWith(S, T, n) /\ Heard(S, T, n) /\ Bounces(S, T, n)

\* The sessions of a visitor do not overlap.
Table(S, time) ==
  /\ \A s \in DOMAIN S :
       /\ S[s].created \in Nat /\ S[s].updated \in Nat
       /\ S[s].created <= S[s].updated /\ S[s].updated <= time
  /\ \A s, t \in DOMAIN S : s # t /\ S[s].visitor = S[t].visitor =>
       \/ S[s].updated + Timeout <= S[t].created
       \/ S[t].updated + Timeout <= S[s].created

LiveIn(S, s, v, time) ==
  s \in DOMAIN S /\ S[s].visitor = v /\ S[s].updated > time - Timeout

\* An event of v is saved, and its session id opened or extended.
Adds(S, S2, T, U, n, v, id, name, time) ==
  /\ \A i \in 1..n : U[i] = T[i]
  /\ U[n + 1].visitor = v /\ U[n + 1].session = id
  /\ U[n + 1].name = name /\ U[n + 1].created = time
  /\ DOMAIN S2 = DOMAIN S \cup {id}
  /\ \A s \in DOMAIN S : s # id => S2[s] = S[s]
  /\ S2[id].visitor = v /\ S2[id].updated = time
  /\ \/ /\ id \notin DOMAIN S
        /\ S2[id].bounce
        /\ \A s : ~LiveIn(S, s, v, time)
     \/ /\ LiveIn(S, id, v, time)
        /\ S2[id].bounce <=> S[id].bounce /\ name \in Passive

\* A visitor has one live session at most.
LEMMA OneLive ==
  ASSUME NEW S, NEW time \in Nat, Table(S, time), NEW v, NEW s, NEW t,
         LiveIn(S, s, v, time), LiveIn(S, t, v, time)
  PROVE  s = t
BY ConstantTypes DEF Table, LiveIn

LEMMA CoversAdds ==
  ASSUME NEW S, NEW S2, NEW T, NEW U, NEW n \in Nat, NEW v, NEW id, NEW name,
         NEW time \in Nat, Table(S, time), Covers(S, T, n),
         \A i \in 1..n : T[i].created \in Nat,
         Adds(S, S2, T, U, n, v, id, name, time)
  PROVE  Covers(S2, U, n + 1)
<1> SUFFICES ASSUME NEW i \in 1..n + 1
             PROVE  /\ U[i].session \in DOMAIN S2
                    /\ S2[U[i].session].visitor = U[i].visitor
                    /\ U[i].created <= S2[U[i].session].updated
  BY DEF Covers
<1>1. CASE i = n + 1
  BY <1>1 DEF Adds
<1>2. CASE i \in 1..n
  <2>1. /\ U[i] = T[i] /\ T[i].session \in DOMAIN S
        /\ S[T[i].session].visitor = T[i].visitor
        /\ T[i].created <= S[T[i].session].updated
        /\ T[i].created \in Nat
        /\ S[T[i].session].updated \in Nat /\ S[T[i].session].updated <= time
    BY <1>2 DEF Adds, Covers, Table
  <2>2. CASE T[i].session # id
    BY <2>1, <2>2 DEF Adds
  <2>3. CASE T[i].session = id
    BY <2>1, <2>3 DEF Adds, LiveIn
  <2>4. QED
    BY <2>2, <2>3
<1>3. QED
  BY <1>1, <1>2

LEMMA EndsWithAdds ==
  ASSUME NEW S, NEW S2, NEW T, NEW U, NEW n \in Nat, NEW v, NEW id, NEW name,
         NEW time \in Nat, Table(S, time), EndsWith(S, T, n),
         Adds(S, S2, T, U, n, v, id, name, time)
  PROVE  EndsWith(S2, U, n + 1)
<1> SUFFICES ASSUME NEW i \in 1..n + 1, Before(U, i, n + 2), NEW s \in DOMAIN S2,
                    S2[s].visitor = U[i].visitor
             PROVE  S2[s].updated <= U[i].created
  BY DEF EndsWith
<1>1. CASE i = n + 1
  <2>1. U[i].created = time
    BY <1>1 DEF Adds
  <2>2. CASE s = id
    BY <2>1, <2>2 DEF Adds
  <2>3. CASE s # id
    BY <2>1, <2>3 DEF Adds, Table
  <2>4. QED
    BY <2>2, <2>3
<1>2. CASE i \in 1..n
  <2>1. U[i] = T[i] /\ U[n + 1].visitor # T[i].visitor
    BY <1>2 DEF Before, Adds
  <2>2. Before(T, i, n + 1)
    <3>1. \A k \in i + 1..n : k \in 1..n /\ k \in i + 1..n + 2 - 1
      BY <1>2
    <3>2. QED
      BY <1>2, <2>1, <3>1 DEF Before, Adds
  <2>3. s # id /\ s \in DOMAIN S /\ S2[s] = S[s]
    BY <2>1 DEF Adds
  <2>4. QED
    BY <1>2, <2>1, <2>2, <2>3 DEF EndsWith
<1>3. QED
  BY <1>1, <1>2

LEMMA HeardAdds ==
  ASSUME NEW S, NEW S2, NEW T, NEW U, NEW n \in Nat, NEW v, NEW id, NEW name,
         NEW time, Heard(S, T, n), Adds(S, S2, T, U, n, v, id, name, time)
  PROVE  Heard(S2, U, n + 1)
<1> SUFFICES ASSUME NEW s \in DOMAIN S2
             PROVE  \E i \in 1..n + 1 : U[i].session = s
  BY DEF Heard
<1>1. CASE s = id
  BY <1>1 DEF Adds
<1>2. CASE s # id
  <2>1. PICK i \in 1..n : T[i].session = s
    BY <1>2 DEF Adds, Heard
  <2>2. i \in 1..n + 1 /\ U[i].session = s
    BY <2>1 DEF Adds
  <2>3. QED
    BY <2>2
<1>3. QED
  BY <1>1, <1>2

LEMMA BouncesAdds ==
  ASSUME NEW S, NEW S2, NEW T, NEW U, NEW n \in Nat, NEW v, NEW id, NEW name,
         NEW time, Covers(S, T, n), Heard(S, T, n), Bounces(S, T, n),
         Adds(S, S2, T, U, n, v, id, name, time)
  PROVE  Bounces(S2, U, n + 1)
<1> SUFFICES ASSUME NEW s \in DOMAIN S2
             PROVE  ~S2[s].bounce <=> ReadOn(U, n + 1, s)
  BY DEF Bounces
<1>1. ASSUME ReadOn(T, n, s) PROVE ReadOn(U, n + 1, s)
  <2>1. PICK i \in 1..n, j \in 1..n :
          i < j /\ T[i].session = s /\ T[j].session = s /\ T[j].name \notin Passive
    BY <1>1 DEF ReadOn
  <2>2. i \in 1..n + 1 /\ j \in 1..n + 1 /\ U[i] = T[i] /\ U[j] = T[j]
    BY DEF Adds
  <2>3. QED
    BY <2>1, <2>2 DEF ReadOn
<1>2. ASSUME ReadOn(U, n + 1, s)
      PROVE  \/ ReadOn(T, n, s)
             \/ s = id /\ name \notin Passive /\ \E i \in 1..n : T[i].session = s
  <2>1. PICK i \in 1..n + 1, j \in 1..n + 1 :
          i < j /\ U[i].session = s /\ U[j].session = s /\ U[j].name \notin Passive
    BY <1>2 DEF ReadOn
  <2>2. i \in 1..n /\ U[i] = T[i]
    BY <2>1 DEF Adds
  <2>3. CASE j = n + 1
    BY <2>1, <2>2, <2>3 DEF Adds
  <2>4. CASE j \in 1..n
    BY <2>1, <2>2, <2>4 DEF Adds, ReadOn
  <2>5. QED
    BY <2>3, <2>4
<1>3. CASE s # id
  <2>1. s \in DOMAIN S /\ S2[s] = S[s]
    BY <1>3 DEF Adds
  <2>2. QED
    BY <1>1, <1>2, <1>3, <2>1 DEF Bounces
<1>4. CASE s = id /\ id \notin DOMAIN S
  <2>1. \A i \in 1..n : T[i].session # s
    BY <1>4 DEF Covers
  <2>2. S2[s].bounce
    BY <1>4 DEF Adds, LiveIn
  <2>3. QED
    BY <1>2, <2>1, <2>2 DEF ReadOn
<1>5. CASE s = id /\ id \in DOMAIN S
  <2>1. S2[id].bounce <=> S[id].bounce /\ name \in Passive
    BY <1>5 DEF Adds
  <2>2. PICK i \in 1..n : T[i].session = s
    BY <1>5 DEF Heard
  <2>3. ASSUME name \notin Passive PROVE ReadOn(U, n + 1, s)
    <3>1. /\ i \in 1..n + 1 /\ n + 1 \in 1..n + 1 /\ i < n + 1
          /\ U[i] = T[i] /\ U[n + 1].session = s /\ U[n + 1].name = name
      BY <1>5 DEF Adds
    <3>2. QED
      BY <2>2, <2>3, <3>1 DEF ReadOn
  <2>4. ~S[id].bounce <=> ReadOn(T, n, id)
    BY <1>5 DEF Bounces
  <2>5. QED
    BY <1>1, <1>2, <1>5, <2>1, <2>3, <2>4
<1>6. QED
  BY <1>3, <1>4, <1>5

\* The session of the new event is that of the last one before it exactly if
\* that one is not a timeout ago.
LEMMA PartedAdds ==
  ASSUME NEW S, NEW S2, NEW T, NEW U, NEW n \in Nat, NEW v, NEW id, NEW name,
         NEW time \in Nat, Table(S, time), Covers(S, T, n), EndsWith(S, T, n),
         Parted(T, n), \A i \in 1..n : T[i].created \in Nat,
         Adds(S, S2, T, U, n, v, id, name, time)
  PROVE  Parted(U, n + 1)
<1> SUFFICES ASSUME NEW i \in 1..n + 1, NEW j \in 1..n + 1,
                    U[i].visitor = U[j].visitor, Before(U, i, j)
             PROVE  U[i].session # U[j].session
                      <=> U[i].created + Timeout <= U[j].created
  BY DEF Parted
<1>1. i \in 1..n /\ U[i] = T[i]
  BY DEF Before, Adds
<1>2. Before(T, i, j)
  <2>1. \A k \in i + 1..j - 1 : k \in 1..n
    BY <1>1
  <2>2. QED
    BY <1>1, <2>1 DEF Before, Adds
<1>3. CASE j \in 1..n
  BY <1>1, <1>2, <1>3 DEF Parted, Adds
<1>4. CASE j = n + 1
  <2> DEFINE s == T[i].session
  <2>1. /\ T[i].visitor = v /\ U[j].session = id /\ U[j].created = time
    BY <1>1, <1>4 DEF Adds
  <2>2. /\ s \in DOMAIN S /\ S[s].visitor = v /\ T[i].created <= S[s].updated
        /\ S[s].updated \in Nat /\ T[i].created \in Nat
    BY <1>1, <2>1 DEF Covers, Table
  <2>3. \A t \in DOMAIN S : S[t].visitor = v =>
          S[t].updated <= T[i].created /\ S[t].updated \in Nat
    BY <1>1, <1>2, <1>4, <2>1 DEF EndsWith, Table
  <2> HIDE DEF s
  <2>4. ASSUME T[i].created + Timeout <= time PROVE s # id
    BY <2>2, <2>3, <2>4, ConstantTypes DEF Adds, LiveIn
  <2>5. ASSUME ~(T[i].created + Timeout <= time) PROVE s = id
    <3>1. LiveIn(S, s, v, time)
      BY <2>2, <2>5, ConstantTypes DEF LiveIn
    <3>2. LiveIn(S, id, v, time)
      BY <3>1 DEF Adds
    <3>3. QED
      BY <3>1, <3>2, OneLive
  <2>6. QED
    BY <1>1, <2>1, <2>4, <2>5 DEF s
<1>5. QED
  BY <1>3, <1>4

-----------------------------------------------------------------------------
(***************************************************************************)
(* The trail of a worker.                                                  *)
(***************************************************************************)
\* How many events of the batch have a session.
Done(w) ==
  IF save[w].phase \in {"idle", "domains"} THEN 0
  ELSE IF save[w].phase = "copy" THEN Len(batch[w])
  ELSE save[w].next - 1

Size(w) == Len(events) + Done(w)

Trail(w) ==
  [i \in 1..Size(w) |->
    IF i <= Len(events) THEN events[i] ELSE Rows(w)[i - Len(events)]]

TrailInv(w) == Told(sessions, Trail(w), Size(w)) /\ Parted(Trail(w), Size(w))

\* The whole batch was received at this moment.
Fresh(w) == \A i \in 1..Len(batch[w]) : batch[w][i].created = now

\* Events are saved after they were received, from the first one on.
TimesInv(w) ==
  /\ \A i \in 1..Len(batch[w]) :
       /\ batch[w][i].created <= now
       /\ save[w].phase \in {"get", "create", "update", "commit"}
            => batch[w][i].created <= save[w].start
  /\ save[w].phase = "domains" => save[w].next = 1

\* What a transaction is about to write into the column bounce.
BounceInv(w) ==
  save[w].phase = "commit" =>
    (save[w].row.bounce <=>
      (save[w].session \in DOMAIN sessions =>
        sessions[save[w].session].bounce /\ Current(w).name \in Passive))

PromptInv(w) ==
  Prompt => /\ Parted(events, Len(events))
            /\ save[w].phase = "idle" \/ Fresh(w) => TrailInv(w)

LEMMA RowFields ==
  ASSUME NEW w, NEW i \in 1..Len(batch[w])
  PROVE  /\ Rows(w)[i].visitor = batch[w][i].visitor
         /\ Rows(w)[i].session = Get(save[w].eventSessions, batch[w][i].visitor)
         /\ Rows(w)[i].name = batch[w][i].name
         /\ Rows(w)[i].created = batch[w][i].created
         /\ Rows(w)[i].stored = now
BY DEF Rows

LEMMA TrailIs ==
  ASSUME TypeInv, EventsInv, NEW w \in Workers
  PROVE  /\ Len(events) \in Nat /\ Done(w) \in Nat /\ Size(w) = Len(events) + Done(w)
         /\ Done(w) <= Len(batch[w]) /\ Len(batch[w]) \in Nat
         /\ \A i \in 1..Len(events) : i \in 1..Size(w) /\ Trail(w)[i] = events[i]
         /\ \A k \in 1..Done(w) :
              /\ k \in 1..Len(batch[w])
              /\ Len(events) + k \in 1..Size(w)
              /\ Trail(w)[Len(events) + k] = Rows(w)[k]
         /\ \A i \in 1..Size(w) :
              i \in 1..Len(events) \/ \E k \in 1..Done(w) : i = Len(events) + k
<1>1. Len(events) \in Nat /\ Len(batch[w]) \in Nat
  BY DEF EventsInv, TypeInv, SavesInv
<1>2. save[w].phase # "idle" => save[w].next \in 1..Len(batch[w])
  BY DEF TypeInv, SavesInv
<1>3. Done(w) \in Nat /\ Done(w) <= Len(batch[w])
  BY <1>1, <1>2 DEF Done
<1>4. \A i \in 1..Len(events) : i \in 1..Size(w) /\ Trail(w)[i] = events[i]
  BY <1>1, <1>3 DEF Trail, Size
<1>5. ASSUME NEW k \in 1..Done(w)
      PROVE  /\ k \in 1..Len(batch[w])
             /\ Len(events) + k \in 1..Size(w)
             /\ Trail(w)[Len(events) + k] = Rows(w)[k]
  <2>1. /\ Len(events) + k \in 1..Size(w) /\ ~(Len(events) + k <= Len(events))
        /\ Len(events) + k - Len(events) = k
    BY <1>1, <1>3 DEF Size
  <2>2. QED
    BY <1>1, <1>3, <2>1 DEF Trail
<1>6. ASSUME NEW i \in 1..Size(w)
      PROVE  i \in 1..Len(events) \/ \E k \in 1..Done(w) : i = Len(events) + k
  <2>1. i > Len(events) => i - Len(events) \in 1..Done(w) /\ i = Len(events) + (i - Len(events))
    BY <1>1, <1>3 DEF Size
  <2>2. QED
    BY <1>1, <2>1
<1>7. QED
  BY <1>1, <1>3, <1>4, <1>5, <1>6 DEF Size

LEMMA TrailTimes ==
  ASSUME TypeInv, EventsInv, NEW w \in Workers
  PROVE  \A i \in 1..Size(w) : Trail(w)[i].created \in Nat
<1>1. ASSUME NEW i \in 1..Len(events) PROVE Trail(w)[i].created \in Nat
  <2>1. events[i] \in EventRow
    BY DEF EventsInv
  <2>2. QED
    BY <2>1, TrailIs DEF EventRow
<1>2. ASSUME NEW k \in 1..Done(w) PROVE Trail(w)[Len(events) + k].created \in Nat
  <2>1. k \in 1..Len(batch[w]) /\ Trail(w)[Len(events) + k] = Rows(w)[k]
    BY TrailIs
  <2>2. batch[w][k] \in Queued
    BY <2>1 DEF TypeInv, SavesInv
  <2>3. QED
    BY <2>1, <2>2, RowFields DEF Queued
<1>3. QED
  BY <1>1, <1>2, TrailIs

\* Between saves the trail is the table.
LEMMA TrailIdle ==
  ASSUME EventsInv, NEW w, Done(w) = 0
  PROVE  Trail(w) = events /\ Size(w) = Len(events)
<1>1. Len(events) \in Nat /\ events = [i \in 1..Len(events) |-> events[i]]
  BY DEF EventsInv
<1>2. Size(w) = Len(events)
  BY <1>1 DEF Size
<1>3. Trail(w) = [i \in 1..Len(events) |-> events[i]]
  BY <1>1, <1>2 DEF Trail
<1>4. QED
  BY <1>1, <1>2, <1>3

LEMMA TrailIdleNext ==
  ASSUME EventsInv', NEW w, Done(w)' = 0
  PROVE  Trail(w)' = events' /\ Size(w)' = Len(events')
<1>1. Len(events') \in Nat /\ events' = [i \in 1..Len(events') |-> events'[i]]
  BY DEF EventsInv
<1>2. Size(w)' = Len(events')
  BY <1>1 DEF Size
<1>3. Trail(w)' = [i \in 1..Len(events') |-> events'[i]]
  BY <1>1, <1>2 DEF Trail
<1>4. QED
  BY <1>1, <1>2, <1>3

\* A step that commits nothing.
LEMMA TrailStays ==
  ASSUME NEW w \in Workers, EventsInv, EventsInv', sessions' = sessions, events' = events,
         \/ Done(w) = 0 /\ Done(w)' = 0
         \/ Rows(w)' = Rows(w) /\ Done(w)' = Done(w),
         TrailInv(w)
  PROVE  TrailInv(w)'
<1>1. Trail(w)' = Trail(w) /\ Size(w)' = Size(w)
  <2>1. CASE Done(w) = 0 /\ Done(w)' = 0
    BY <2>1, TrailIdle, TrailIdleNext
  <2>2. CASE Rows(w)' = Rows(w) /\ Done(w)' = Done(w)
    <3>1. Size(w)' = Size(w)
      BY <2>2 DEF Size
    <3>2. QED
      BY <2>2, <3>1 DEF Trail
  <2>3. QED
    BY <2>1, <2>2
<1>2. QED
  BY <1>1 DEF TrailInv

-----------------------------------------------------------------------------
(***************************************************************************)
(* A commit adds an event to the trail.                                    *)
(***************************************************************************)
LEMMA SessionsTable ==
  ASSUME TypeInv, RowsInv
  PROVE  Table(sessions, now)
<1>1. \A s \in DOMAIN sessions : sessions[s].created \in Nat /\ sessions[s].updated \in Nat
  BY DEF TypeInv, TablesInv, SessionRow
<1>2. QED
  BY <1>1 DEF Table, RowsInv, OneVisitAtATime

\* The transaction of a fresh batch began at this moment.
LEMMA FreshStart ==
  ASSUME TypeInv, NEW w \in Workers, FoundInv(w), TimesInv(w), Fresh(w),
         save[w].phase = "commit"
  PROVE  save[w].start = now
<1>1. /\ save[w].next \in 1..Len(batch[w]) /\ save[w].start \in Nat /\ now \in Nat
  BY ConstantTypes DEF TypeInv, SavesInv, SaveState, BoundsInv
<1>2. now <= save[w].start /\ save[w].start <= now
  BY <1>1 DEF FoundInv, TimesInv, Fresh
<1>3. QED
  BY <1>1, <1>2

\* An event of the batch that has a session already keeps it.
LEMMA RowsSettled ==
  ASSUME TypeInv, EventsInv, KeptInv, NEW w \in Workers, RowsInv, FoundInv(w),
         TimesInv(w), Fresh(w), TrailInv(w), save[w].phase = "commit",
         NEW k \in 1..Done(w), batch[w][k].visitor = Current(w).visitor
  PROVE  save[w].session = Get(save[w].eventSessions, Current(w).visitor)
<1> DEFINE v == Current(w).visitor
           id == save[w].session
           s == Get(save[w].eventSessions, v)
<1>1. k \in 1..Len(batch[w]) /\ Len(events) + k \in 1..Size(w)
      /\ Trail(w)[Len(events) + k] = Rows(w)[k]
  BY TrailIs
<1>2. Rows(w)[k].visitor = v /\ Rows(w)[k].session = s /\ Rows(w)[k].created = now
  BY <1>1, RowFields DEF Fresh
<1>3. s \in DOMAIN sessions /\ sessions[s].visitor = v /\ now <= sessions[s].updated
  BY <1>1, <1>2 DEF TrailInv, Told, Covers
<1>4. save[w].start = now /\ now \in Nat
  BY FreshStart, ConstantTypes DEF TypeInv, BoundsInv
<1>5. sessions[s].updated \in Nat
  BY <1>3 DEF TypeInv, TablesInv, SessionRow
<1>6. LiveIn(sessions, s, v, now)
  BY <1>3, <1>4, <1>5, ConstantTypes DEF LiveIn
<1>7. save[w].row.visitor = v
  BY DEF KeptInv, WorkerInv, Writes
<1> HIDE DEF v, id, s
<1>8. LiveIn(sessions, id, v, now)
  <2>1. ~Opens(w)
    BY <1>3, <1>4, <1>6, <1>7 DEF Opens, Live, LiveIn
  <2>2. Extends(w)
    BY <2>1 DEF FoundInv
  <2>3. QED
    BY <1>4, <1>7, <2>2 DEF Extends, Live, LiveIn, id
<1>9. id = s
  BY <1>4, <1>6, <1>8, SessionsTable, OneLive
<1>10. QED
  BY <1>9 DEF id, s, v

LEMMA CommitTrail ==
  ASSUME TypeInv, EventsInv, KeptInv, NEW w \in Workers, RowsInv, FoundInv(w),
         TimesInv(w), BounceInv(w), Fresh(w), TrailInv(w), Commit(w)
  PROVE  TrailInv(w)'
<1> DEFINE v == Current(w).visitor
           name == Current(w).name
           id == save[w].session
           n == Size(w)
           next == save[w].next
           T == Trail(w)
<1>1. /\ save[w].phase = "commit" /\ next \in 1..Len(batch[w]) /\ Len(batch[w]) \in Nat
      /\ Len(events) \in Nat /\ now \in Nat
  BY ConstantTypes DEF Commit, Phase, TypeInv, SavesInv, EventsInv, BoundsInv
<1>2. /\ UNCHANGED <<now, events, batch>>
      /\ save'[w].eventSessions = Put(save[w].eventSessions, v, id)
      /\ save'[w].eventDomains = save[w].eventDomains
      /\ \/ save'[w].phase = "begin" /\ save'[w].next = next + 1
         \/ save'[w].phase = "copy" /\ next = Len(batch[w])
  BY AfterCommitIs
<1>3. /\ DOMAIN sessions' = DOMAIN sessions \cup {id}
      /\ \A s \in DOMAIN sessions : s # id => sessions'[s] = sessions[s]
      /\ sessions'[id] = save[w].row
  <2>1. id \in DOMAIN sessions'
    BY CommitDoes
  <2>2. QED
    BY <2>1, CommitDoes
<1>4. Done(w) = next - 1 /\ Done(w)' = next /\ n = Len(events) + (next - 1)
      /\ Size(w)' = n + 1 /\ n \in Nat
  BY <1>1, <1>2 DEF Done, Size
<1>5. \A k \in 1..Len(batch[w]) :
        batch[w][k].visitor # v \/ k \in 1..Done(w) =>
          Rows(w)'[k] = Rows(w)[k]
  <2> SUFFICES ASSUME NEW k \in 1..Len(batch[w]),
                      batch[w][k].visitor # v \/ k \in 1..Done(w)
               PROVE  Rows(w)'[k] = Rows(w)[k]
    OBVIOUS
  <2>1. Get(save'[w].eventSessions, batch[w][k].visitor)
          = Get(save[w].eventSessions, batch[w][k].visitor)
    <3>1. CASE batch[w][k].visitor # v
      BY <1>2, <3>1 DEF Get, Put
    <3>2. CASE batch[w][k].visitor = v
      <4>1. id = Get(save[w].eventSessions, v)
        BY <1>1, <3>2, RowsSettled
      <4>2. Get(save'[w].eventSessions, v) = id
        BY <1>2 DEF Get, Put
      <4>3. QED
        BY <3>2, <4>1, <4>2
    <3>3. QED
      BY <3>1, <3>2
  <2>2. QED
    BY <1>2, <2>1 DEF Rows
<1>6. PICK U : U = Trail(w)'
  OBVIOUS
<1>7. /\ \A i \in 1..n : U[i] = T[i]
      /\ U[n + 1] = Rows(w)'[next]
  <2>1. U = [i \in 1..n + 1 |->
              IF i <= Len(events) THEN events[i] ELSE Rows(w)'[i - Len(events)]]
    BY <1>2, <1>4, <1>6 DEF Trail
  <2>2. T = [i \in 1..n |->
              IF i <= Len(events) THEN events[i] ELSE Rows(w)[i - Len(events)]]
    BY DEF Trail
  <2>3. ASSUME NEW i \in 1..n PROVE U[i] = T[i]
    <3>1. CASE i <= Len(events)
      BY <1>4, <2>1, <2>2, <3>1
    <3>2. CASE ~(i <= Len(events))
      <4>1. i - Len(events) \in 1..Done(w) /\ i - Len(events) \in 1..Len(batch[w])
        BY <1>1, <1>4, <3>2
      <4>2. Rows(w)'[i - Len(events)] = Rows(w)[i - Len(events)]
        BY <1>5, <4>1
      <4>3. QED
        BY <1>4, <2>1, <2>2, <3>2, <4>2
    <3>3. QED
      BY <3>1, <3>2
  <2>4. U[n + 1] = Rows(w)'[next]
    <3>1. PICK i : i = n + 1
      OBVIOUS
    <3>2. i \in 1..n + 1 /\ ~(i <= Len(events))
      BY <1>1, <1>4, <3>1
    <3>3. PICK k : k = i - Len(events)
      OBVIOUS
    <3>4. k = next
      BY <1>1, <1>4, <3>1, <3>3
    <3>5. U[i] = Rows(w)'[k]
      BY <2>1, <3>2, <3>3
    <3>6. QED
      BY Zenon, <3>1, <3>4, <3>5
  <2>5. QED
    BY <2>3, <2>4
<1>8. /\ Rows(w)'[next].visitor = v /\ Rows(w)'[next].session = id
      /\ Rows(w)'[next].name = name /\ Rows(w)'[next].created = now
  <2>1. Get(save'[w].eventSessions, v) = id
    BY <1>2 DEF Get, Put
  <2>2. batch'[w][next] = Current(w) /\ next \in 1..Len(batch'[w])
    BY <1>1, <1>2 DEF Current
  <2>3. Current(w).created = now
    BY <1>1 DEF Fresh, Current
  <2>4. QED
    BY <2>1, <2>2, <2>3 DEF Rows
<1>9. /\ sessions'[id].visitor = v /\ sessions'[id].updated = now
      /\ \/ /\ id \notin DOMAIN sessions /\ sessions'[id].bounce
            /\ \A s : ~LiveIn(sessions, s, v, now)
         \/ /\ LiveIn(sessions, id, v, now)
            /\ sessions'[id].bounce <=> sessions[id].bounce /\ name \in Passive
  <2>1. save[w].start = now
    BY <1>1, FreshStart
  <2>2. save[w].row.visitor = v /\ save[w].row.updated = now
    BY <1>1, <2>1 DEF KeptInv, WorkerInv, Writes, FoundInv
  <2>3. CASE Opens(w)
    BY <1>1, <1>3, <2>1, <2>2, <2>3 DEF Opens, Live, LiveIn, BounceInv
  <2>4. CASE Extends(w)
    BY <1>1, <1>3, <2>1, <2>2, <2>4 DEF Extends, Live, LiveIn, BounceInv
  <2>5. QED
    BY <1>1, <1>3, <2>2, <2>3, <2>4 DEF FoundInv
<1>10. /\ Table(sessions, now) /\ Told(sessions, T, n) /\ Parted(T, n)
       /\ \A i \in 1..n : T[i].created \in Nat
  BY SessionsTable, TrailTimes DEF TrailInv
<1>11. PICK S2 : S2 = sessions'
  OBVIOUS
<1> HIDE DEF v, name, id, n, next, T
<1>12. Adds(sessions, S2, T, U, n, v, id, name, now)
  BY <1>3, <1>7, <1>8, <1>9, <1>11 DEF Adds
<1>13. Told(S2, U, n + 1) /\ Parted(U, n + 1)
  BY <1>1, <1>4, <1>10, <1>12, CoversAdds, EndsWithAdds, HeardAdds, BouncesAdds,
     PartedAdds DEF Told
<1>14. QED
  BY <1>4, <1>6, <1>11, <1>13 DEF TrailInv

-----------------------------------------------------------------------------
(***************************************************************************)
(* The steps.                                                              *)
(***************************************************************************)
\* COPY stores the trail.
LEMMA CopyTrail ==
  ASSUME TypeInv, EventsInv, KeptInv, NEW w \in Workers, PromptInv(w),
         CreateEvents(w), Prompt, Prompt'
  PROVE  Parted(events', Len(events')) /\ TrailInv(w)'
<1> DEFINE n == Len(events)
           m == Len(batch[w])
<1>1. /\ EventsInv' /\ Len(events') = n + m
      /\ \A i \in 1..n : events'[i] = events[i]
      /\ \A k \in 1..m : events'[n + k] = Rows(w)[k]
  BY CopyIs DEF CreateEvents
<1>2. /\ save[w].phase = "copy" /\ Done(w) = m /\ Done(w)' = 0 /\ sessions' = sessions
      /\ n \in Nat /\ m \in Nat
  BY DEF CreateEvents, CopyRows, Phase, Done, TypeInv, SavesInv, EventsInv, Idle
<1>3. Fresh(w)
  <2> SUFFICES ASSUME NEW k \in 1..m PROVE batch[w][k].created = now
    BY DEF Fresh
  <2>1. n + k \in 1..Len(events') /\ events'[n + k] = Rows(w)[k]
    BY <1>1, <1>2
  <2>2. Rows(w)[k].stored = Rows(w)[k].created
    BY <2>1 DEF Prompt
  <2>3. QED
    BY <2>2, RowFields
<1>4. TrailInv(w)
  BY <1>3 DEF PromptInv
<1>5. events' = Trail(w) /\ Len(events') = Size(w)
  <2>1. Size(w) = Len(events')
    BY <1>1, <1>2 DEF Size
  <2>2. \A i \in 1..Size(w) : events'[i] = Trail(w)[i]
    <3>1. ASSUME NEW i \in 1..n PROVE events'[i] = Trail(w)[i]
      BY <1>1, TrailIs
    <3>2. ASSUME NEW k \in 1..Done(w) PROVE events'[n + k] = Trail(w)[n + k]
      BY <1>1, <1>2, TrailIs
    <3>3. QED
      BY <3>1, <3>2, TrailIs
  <2>3. events' = [i \in 1..Size(w) |-> events'[i]]
    BY <1>1, <2>1 DEF EventsInv
  <2>4. Trail(w) = [i \in 1..Size(w) |-> Trail(w)[i]]
    BY DEF Trail
  <2>5. QED
    BY Zenon, <2>1, <2>2, <2>3, <2>4
<1>6. Trail(w)' = events' /\ Size(w)' = Len(events')
  BY <1>1, <1>2, TrailIdleNext
<1>7. QED
  BY <1>2, <1>4, <1>5, <1>6 DEF TrailInv

\* What was not prompt once is never prompt again.
LEMMA PromptBefore ==
  ASSUME TypeInv, EventsInv, KeptInv, [Next]_vars, Prompt'
  PROVE  Prompt /\ \A w \in Workers : ~Fault(w)
<1>1. faults \in Nat /\ faults' = 0
  BY ConstantTypes DEF TypeInv, BoundsInv, Prompt
<1>2. \A w \in Workers : ~Fault(w)
  BY <1>1 DEF Fault, StatementFails, CommitUnacknowledged, CopyUnacknowledged, Crash,
     ReturnError
<1>3. faults = 0
  <2>1. ASSUME NEW w \in Workers, SaveStep(w) PROVE faults' = faults
    BY <2>1 DEF SaveStep, StartSave, UpsertDomain, BeginTx, GetSession, CreateSession,
       UpdateSession, WriteSession, Commit, CreateEvents, bounds
  <2>2. ASSUME NEW w \in Workers, NEW e \in Events, ReceiveEvent(w, e)
        PROVE  faults' = faults
    BY <2>2 DEF ReceiveEvent
  <2>3. CASE Tick \/ UNCHANGED vars
    BY <1>1, <2>3 DEF Tick, vars, bounds
  <2>4. QED
    BY <1>1, <1>2, <2>1, <2>2, <2>3 DEF Next
<1>4. Len(events) \in Nat /\ Len(events) <= Len(events') /\ Len(events') \in Nat
      /\ \A i \in 1..Len(events) : events'[i] = events[i]
  <2>1. Len(events) \in Nat
    BY DEF EventsInv
  <2>2. CASE events' = events
    BY <2>1, <2>2
  <2>3. ASSUME NEW w \in Workers, CreateEvents(w)
        PROVE  /\ Len(events') = Len(events) + Len(batch[w])
               /\ \A i \in 1..Len(events) : events'[i] = events[i]
               /\ Len(batch[w]) \in Nat
    BY <2>3, CopyIs DEF CreateEvents, TypeInv, SavesInv
  <2>4. ASSUME NEW w \in Workers, SaveStep(w) PROVE events' = events \/ CreateEvents(w)
    BY <2>4 DEF SaveStep, StartSave, UpsertDomain, BeginTx, GetSession, CreateSession,
       UpdateSession, WriteSession, Commit, tables
  <2>5. ASSUME NEW w \in Workers, NEW e \in Events, ReceiveEvent(w, e)
        PROVE  events' = events
    BY <2>5 DEF ReceiveEvent, tables
  <2>6. CASE Tick \/ UNCHANGED vars
    BY <2>2, <2>6 DEF Tick, vars, tables
  <2>7. QED
    BY <1>2, <2>1, <2>2, <2>3, <2>4, <2>5, <2>6 DEF Next
<1>5. \A i \in 1..Len(events) : events[i].stored = events[i].created
  BY <1>4 DEF Prompt
<1>6. QED
  BY <1>2, <1>3, <1>5 DEF Prompt

LEMMA TimesStep ==
  ASSUME TypeInv, NEW w \in Workers, Workers = {w}, TimesInv(w), [Next]_vars
  PROVE  TimesInv(w)'
<1>1. /\ now \in Nat /\ save[w].start \in Nat /\ Len(batch[w]) \in Nat
      /\ save \in [Workers -> SaveState] /\ batch \in [Workers -> Seq(Queued)]
  BY ConstantTypes DEF TypeInv, BoundsInv, SavesInv, SaveState
<1>2. \A i \in 1..Len(batch[w]) : batch[w][i].created \in Nat
  <2>1. \A i \in 1..Len(batch[w]) : batch[w][i] \in Queued
    BY <1>1
  <2>2. QED
    BY <2>1 DEF Queued
<1>3. CASE StartSave(w)
  BY <1>1, <1>3 DEF StartSave, Idle, TimesInv
<1>4. CASE \E d \in Domains : UpsertDomain(w, d)
  BY <1>1, <1>4 DEF UpsertDomain, Phase, SaveState, TimesInv
<1>5. CASE BeginTx(w)
  BY <1>1, <1>5, BeginTxDoes DEF TimesInv
<1>6. CASE GetSession(w)
  BY <1>6, GetSessionDoes DEF TimesInv
<1>7. CASE CreateSession(w)
  BY <1>7, CreateSessionDoes DEF TimesInv
<1>8. CASE UpdateSession(w)
  BY <1>8, UpdateSessionDoes DEF TimesInv
<1>9. CASE Commit(w) \/ CommitUnacknowledged(w)
  BY <1>9, CommitDoes DEF TimesInv
<1>10. CASE StatementFails(w) \/ CopyUnacknowledged(w)
  BY <1>1, <1>10 DEF StatementFails, CopyUnacknowledged, ReturnError, Idle, TimesInv
<1>11. CASE CreateEvents(w) \/ Crash(w)
  <2>1. batch'[w] = <<>> /\ save'[w] = Idle
    BY <1>1, <1>11 DEF CreateEvents, Crash
  <2>2. QED
    BY <2>1 DEF TimesInv, Idle
<1>12. ASSUME NEW e \in Events, ReceiveEvent(w, e) PROVE TimesInv(w)'
  <2>1. save'[w].phase = "idle" /\ now' = now
    BY <1>12 DEF ReceiveEvent, Phase
  <2>2. PICK q : q.created = now /\ batch'[w] = Append(batch[w], q)
    BY <1>1, <1>12 DEF ReceiveEvent
  <2>3. \A i \in 1..Len(batch'[w]) : batch'[w][i].created <= now
    BY <1>1, <2>2 DEF TimesInv
  <2>4. QED
    BY <2>1, <2>3 DEF TimesInv
<1>13. CASE Tick \/ UNCHANGED vars
  BY <1>1, <1>2, <1>13 DEF Tick, vars, TimesInv
<1>14. QED
  BY Zenon, <1>3, <1>4, <1>5, <1>6, <1>7, <1>8, <1>9, <1>10, <1>11, <1>12, <1>13
     DEF Next, SaveStep, Fault

LEMMA BounceStep ==
  ASSUME TypeInv, NEW w \in Workers, Workers = {w}, BounceInv(w), [Next]_vars
  PROVE  BounceInv(w)'
<1>1. ASSUME save'[w].phase # "commit" PROVE BounceInv(w)'
  BY <1>1 DEF BounceInv
<1>2. CASE CreateSession(w)
  <2>1. save'[w].row.bounce /\ save'[w].session \notin DOMAIN sessions'
    BY <1>2, CreateSessionWithin DEF Within, NewSession
  <2>2. QED
    BY <2>1 DEF BounceInv
<1>3. CASE UpdateSession(w)
  <2> DEFINE old == sessions[save[w].session]
  <2>1. /\ Within(w) /\ save'[w].session = save[w].session /\ old \in SessionRow
        /\ save'[w].row = UpdatedRow(old, save[w].start, Current(w).name)
    BY <1>3, UpdateSessionWithin
  <2>2. sessions' = sessions /\ Current(w)' = Current(w)
        /\ save[w].session \in DOMAIN sessions
    BY <1>3, <2>1, WithinCurrent, UpdateSessionDoes DEF Within
  <2> HIDE DEF old
  <2>3. save'[w].row.bounce <=> old.bounce /\ Current(w).name \in Passive
    BY <2>1 DEF UpdatedRow, SessionRow, Passive
  <2>4. QED
    BY <2>1, <2>2, <2>3 DEF BounceInv, old
<1>4. CASE BeginTx(w) \/ GetSession(w) \/ Commit(w) \/ CommitUnacknowledged(w)
  BY <1>1, <1>4, BeginTxDoes, GetSessionDoes, CommitDoes
<1>5. CASE \/ StartSave(w)
           \/ \E d \in Domains : UpsertDomain(w, d)
           \/ StatementFails(w)
           \/ CreateEvents(w)
           \/ CopyUnacknowledged(w)
           \/ Crash(w)
  BY <1>1, <1>5, RowlessSteps
<1>6. CASE \/ \E u \in Workers, e \in Events : ReceiveEvent(u, e)
           \/ Tick
           \/ UNCHANGED vars
  <2>1. save' = save /\ sessions' = sessions
        /\ (save[w].phase # "idle" => batch'[w] = batch[w])
    BY <1>6, StillSteps
  <2>2. QED
    BY <2>1 DEF BounceInv, Current
<1>7. QED
  BY Zenon, <1>2, <1>3, <1>4, <1>5, <1>6 DEF Next, SaveStep, Fault

LEMMA PromptStep ==
  ASSUME TypeInv, EventsInv, EventsInv', KeptInv, VisitInv, NEW w \in Workers,
         Workers = {w}, TimesInv(w), BounceInv(w), PromptInv(w), [Next]_vars
  PROVE  PromptInv(w)'
<1> SUFFICES ASSUME Prompt'
             PROVE  /\ Parted(events, Len(events))'
                    /\ save'[w].phase = "idle" \/ Fresh(w)' => TrailInv(w)'
  BY DEF PromptInv
<1>1. Prompt /\ ~Fault(w)
  BY PromptBefore
<1>2. /\ Parted(events, Len(events))
      /\ save[w].phase = "idle" \/ Fresh(w) => TrailInv(w)
  BY <1>1 DEF PromptInv
<1>3. ASSUME events' = events PROVE Parted(events, Len(events))'
  BY <1>2, <1>3
\* Nothing is committed.
<1>4. ASSUME sessions' = sessions, events' = events,
             save[w].phase = "idle" \/ Fresh(w),
             \/ Done(w) = 0 /\ Done(w)' = 0
             \/ Rows(w)' = Rows(w) /\ Done(w)' = Done(w)
      PROVE  TrailInv(w)'
  BY <1>2, <1>4, TrailStays
<1>5. CASE StartSave(w)
  <2>1. sessions' = sessions /\ events' = events /\ save[w].phase = "idle"
    BY <1>5 DEF StartSave, Phase, tables
  <2>2. save'[w].phase = "domains"
    BY <1>5 DEF StartSave, Idle, TypeInv, SavesInv
  <2>3. Done(w) = 0 /\ Done(w)' = 0
    BY <2>1, <2>2 DEF Done
  <2>4. QED
    BY <1>3, <1>4, <2>1, <2>3
<1>6. CASE \E d \in Domains : UpsertDomain(w, d)
  <2>1. /\ UNCHANGED <<sessions, events, batch, now>> /\ save[w].phase = "domains"
        /\ save'[w].phase = "domains"
    <3>1. PICK d \in Domains : UpsertDomain(w, d)
      BY <1>6
    <3>2. save \in [Workers -> SaveState]
      BY DEF TypeInv, SavesInv
    <3>3. QED
      BY <3>1, <3>2 DEF UpsertDomain, Phase, SaveState
  <2>2. Done(w) = 0 /\ Done(w)' = 0
    BY <2>1 DEF Done
  <2>3. Fresh(w)' => Fresh(w)
    BY <2>1 DEF Fresh
  <2>4. QED
    BY <1>3, <1>4, <2>1, <2>2, <2>3
<1>7. CASE BeginTx(w) \/ GetSession(w) \/ CreateSession(w) \/ UpdateSession(w)
  <2>1. /\ Within(w)
        /\ save[w].phase \in {"domains", "begin", "get", "create", "update"}
        /\ save'[w].phase \in {"get", "create", "update", "commit"}
    BY <1>7, BeginTxWithin, GetSessionWithin, CreateSessionWithin, UpdateSessionWithin
  <2>2. UNCHANGED <<sessions, events, batch, now>>
        /\ save'[w].eventDomains = save[w].eventDomains
        /\ save'[w].eventSessions = save[w].eventSessions
        /\ save'[w].next = save[w].next
    BY <2>1 DEF Within
  <2>3. Rows(w)' = Rows(w)
    BY <2>2 DEF Rows
  <2>4. Done(w)' = Done(w)
    <3>1. Done(w)' = save[w].next - 1
      BY <2>1, <2>2 DEF Done
    <3>2. CASE save[w].phase = "domains"
      <4>1. Done(w) = 0 /\ save[w].next = 1
        BY <3>2 DEF Done, TimesInv
      <4>2. QED
        BY <3>1, <4>1
    <3>3. CASE save[w].phase # "domains"
      BY <2>1, <3>1, <3>3 DEF Done
    <3>4. QED
      BY <3>2, <3>3
  <2>5. Fresh(w)' => Fresh(w)
    BY <2>2 DEF Fresh
  <2>6. QED
    BY <1>3, <1>4, <2>1, <2>2, <2>3, <2>4, <2>5
<1>8. CASE Commit(w)
  <2>1. UNCHANGED <<now, events, batch>> /\ save'[w].phase # "idle"
    BY <1>8, AfterCommitIs
  <2>2. Fresh(w)' => Fresh(w)
    BY <2>1 DEF Fresh
  <2>3. Fresh(w) => TrailInv(w)'
    BY <1>2, <1>8, CommitTrail DEF VisitInv
  <2>4. QED
    BY <1>3, <2>1, <2>2, <2>3
<1>9. CASE CreateEvents(w)
  BY <1>1, <1>9, CopyTrail
<1>10. ASSUME NEW e \in Events, ReceiveEvent(w, e)
       PROVE  Parted(events, Len(events))' /\ TrailInv(w)'
  <2>1. UNCHANGED <<sessions, events, save>> /\ save[w].phase = "idle"
    BY <1>10 DEF ReceiveEvent, Phase, tables
  <2>2. Done(w) = 0 /\ Done(w)' = 0
    BY <2>1 DEF Done
  <2>3. QED
    BY <1>3, <1>4, <2>1, <2>2
<1>11. CASE Tick
  <2>1. UNCHANGED <<sessions, events, save, batch>> /\ now' = now + 1 /\ now \in Nat
    BY <1>11, ConstantTypes DEF Tick, tables, TypeInv, BoundsInv
  <2>2. CASE save[w].phase = "idle"
    <3>1. Done(w) = 0 /\ Done(w)' = 0
      BY <2>1, <2>2 DEF Done
    <3>2. QED
      BY <1>3, <1>4, <2>1, <2>2, <3>1
  <2>3. CASE save[w].phase # "idle"
    <3>1. 1 \in 1..Len(batch[w])
      BY <2>3 DEF TypeInv, SavesInv
    <3>2. batch[w][1] \in Queued
      BY <3>1 DEF TypeInv, SavesInv
    <3>3. batch[w][1].created \in Nat /\ batch[w][1].created <= now
      BY <3>1, <3>2 DEF TimesInv, Queued
    <3>4. ~Fresh(w)'
      BY <2>1, <3>1, <3>3 DEF Fresh
    <3>5. QED
      BY <1>3, <2>1, <2>3, <3>4
  <2>4. QED
    BY <2>2, <2>3
<1>12. CASE UNCHANGED vars
  <2>1. UNCHANGED <<sessions, events, save, batch, now>>
    BY <1>12 DEF vars
  <2>2. Rows(w)' = Rows(w) /\ Done(w)' = Done(w) /\ (Fresh(w)' => Fresh(w))
    BY <2>1 DEF Rows, Done, Fresh
  <2>3. QED
    BY <1>3, <1>4, <2>1, <2>2
<1>13. SaveStep(w) \/ (\E e \in Events : ReceiveEvent(w, e)) \/ Tick \/ UNCHANGED vars
  BY <1>1 DEF Next
<1>14. QED
  BY Zenon, <1>5, <1>6, <1>7, <1>8, <1>9, <1>10, <1>11, <1>12, <1>13 DEF SaveStep

SoleWorkerInv(w) ==
  /\ EventsInv /\ KeptInv /\ VisitInv
  /\ TimesInv(w) /\ BounceInv(w) /\ PromptInv(w)

LEMMA SoleWorkerInit ==
  ASSUME NEW w \in Workers, Init
  PROVE  SoleWorkerInv(w)
<1>1. EventsInv /\ KeptInv /\ VisitInv
  BY KeptInit, VisitInit
<1>2. /\ batch[w] = <<>> /\ save[w] = Idle /\ events = <<>> /\ sessions = <<>>
  BY DEF Init
<1>3. TimesInv(w) /\ BounceInv(w)
  BY <1>2 DEF TimesInv, BounceInv, Idle
<1>4. Trail(w) = events /\ Size(w) = Len(events) /\ Len(events) = 0
  BY <1>1, <1>2, TrailIdle DEF Done, Idle
<1>5. Parted(events, 0)
  BY DEF Parted
<1>6. Told(sessions, events, 0)
  BY <1>2 DEF Told, Covers, EndsWith, Heard, Bounces
<1>7. QED
  BY <1>1, <1>3, <1>4, <1>5, <1>6 DEF SoleWorkerInv, PromptInv, TrailInv

LEMMA SoleWorkerStep ==
  ASSUME NEW w, Workers = {w}, TypeInv, TypeInv', SoleWorkerInv(w), [Next]_vars
  PROVE  SoleWorkerInv(w)'
<1>1. w \in Workers /\ OneWorker /\ EventsInv /\ KeptInv /\ VisitInv
      /\ TimesInv(w) /\ BounceInv(w) /\ PromptInv(w)
  BY DEF OneWorker, SoleWorkerInv
<1>2. EventsInv' /\ KeptInv'
  BY Zenon, <1>1, EventsStep, KeptStep
<1>3. VisitInv'
  BY Zenon, <1>1, VisitStep
<1>4. TimesInv(w)' /\ BounceInv(w)' /\ PromptInv(w)'
  BY Zenon, <1>1, <1>2, TimesStep, BounceStep, PromptStep
<1>5. QED
  BY <1>2, <1>3, <1>4 DEF SoleWorkerInv

\* Two rows of a visitor that follow each other.
LEMMA SuccessiveIs ==
  ASSUME NEW i, NEW j, Successive(i, j)
  PROVE  events[i].visitor = events[j].visitor /\ Before(events, i, j)
BY DEF Successive, Before

\* IdleVisitorGetsNewSession: with one worker whose saves are prompt, an event
\* that comes when the visitor was idle for the timeout is in a new session.
THEOREM SessionIdleVisitorGetsNewSession ==
  ASSUME NEW w, Workers = {w}
  PROVE  Spec => []IdleVisitorGetsNewSession
<1>1. SoleWorkerInv(w) => IdleVisitorGetsNewSession
  BY SuccessiveIs DEF SoleWorkerInv, PromptInv, Parted, IdleVisitorGetsNewSession
<1>2. Init => SoleWorkerInv(w)
  BY SoleWorkerInit
<1>3. TypeInv /\ TypeInv' /\ SoleWorkerInv(w) /\ [Next]_vars => SoleWorkerInv(w)'
  BY SoleWorkerStep
<1>4. QED
  BY <1>1, <1>2, <1>3, TypeInit, TypeStep, PTL DEF Spec

\* ActiveVisitorKeepsSession: and one that comes sooner is in the same session.
THEOREM SessionActiveVisitorKeepsSession ==
  ASSUME NEW w, Workers = {w}
  PROVE  Spec => []ActiveVisitorKeepsSession
<1>1. EventsInv /\ SoleWorkerInv(w) => ActiveVisitorKeepsSession
  <2> SUFFICES ASSUME EventsInv, SoleWorkerInv(w), Prompt,
                      NEW i \in 1..Len(events), NEW j \in 1..Len(events),
                      Successive(i, j), events[j].created < events[i].created + Timeout
               PROVE  events[i].session = events[j].session
    BY DEF ActiveVisitorKeepsSession
  <2>1. events[i] \in EventRow /\ events[j] \in EventRow
    BY DEF EventsInv
  <2>2. ~(events[i].created + Timeout <= events[j].created)
    BY <2>1, ConstantTypes DEF EventRow
  <2>3. QED
    BY <2>2, SuccessiveIs DEF SoleWorkerInv, PromptInv, Parted
<1>2. Init => SoleWorkerInv(w)
  BY SoleWorkerInit
<1>3. TypeInv /\ TypeInv' /\ SoleWorkerInv(w) /\ [Next]_vars => SoleWorkerInv(w)'
  BY SoleWorkerStep
<1>4. SoleWorkerInv(w) => EventsInv
  BY DEF SoleWorkerInv
<1>5. QED
  BY <1>1, <1>2, <1>3, <1>4, TypeInit, TypeStep, PTL DEF Spec

\* BounceUntilReadOn: after prompt saves a session is a bounce exactly until
\* an event after its first one is neither hidden nor ping.
THEOREM SessionBounceUntilReadOn ==
  ASSUME NEW w, Workers = {w}
  PROVE  Spec => []BounceUntilReadOn
<1>1. SoleWorkerInv(w) => BounceUntilReadOn
  <2> SUFFICES ASSUME SoleWorkerInv(w), Prompt, \A u \in Workers : Phase(u, "idle"),
                      NEW s \in DOMAIN sessions
               PROVE  ~sessions[s].bounce <=>
                        \E i, j \in 1..Len(events) :
                          /\ i < j
                          /\ events[i].session = s
                          /\ events[j].session = s
                          /\ events[j].name \notin {"hidden", "ping"}
    BY DEF BounceUntilReadOn
  <2>1. EventsInv /\ TrailInv(w) /\ Done(w) = 0
    BY DEF SoleWorkerInv, PromptInv, Phase, Done
  <2>2. Told(sessions, events, Len(events))
    BY <2>1, TrailIdle DEF TrailInv
  <2>3. ~sessions[s].bounce <=> ReadOn(events, Len(events), s)
    BY <2>2 DEF Told, Bounces
  <2>4. QED
    BY <2>3 DEF ReadOn, Passive
<1>2. Init => SoleWorkerInv(w)
  BY SoleWorkerInit
<1>3. TypeInv /\ TypeInv' /\ SoleWorkerInv(w) /\ [Next]_vars => SoleWorkerInv(w)'
  BY SoleWorkerStep
<1>4. QED
  BY <1>1, <1>2, <1>3, TypeInit, TypeStep, PTL DEF Spec
=============================================================================
