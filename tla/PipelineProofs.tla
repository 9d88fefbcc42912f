--------------------------- MODULE PipelineProofs ---------------------------
(***************************************************************************)
(* What is proved of Pipeline for every value of its constants: its types, *)
(* that the metrics account for every event, that a queued event is never  *)
(* forgotten and never stored twice without an error, and that the         *)
(* pipeline implements EventLog.                                           *)
(***************************************************************************)
EXTENDS Pipeline, SequenceTheorems, FiniteSetTheorems, TLAPS

(***************************************************************************)
(* Types.                                                                  *)
(***************************************************************************)

\* A step of the pipeline keeps the types of its variables.
LEMMA TypeStep == TypeOK /\ [Next]_vars => TypeOK'
<1> SUFFICES ASSUME TypeOK, [Next]_vars
             PROVE  TypeOK'
  OBVIOUS
<1> USE PipelineAssumption DEF TypeOK, Stages, ErrorKinds, requestVars,
        workerVars, Step
<1>1. ASSUME NEW e \in Events, RefuseRequest(e)
      PROVE  TypeOK'
  BY <1>1 DEF RefuseRequest
<1>2. ASSUME NEW e \in Events, RecordEvent(e)
      PROVE  TypeOK'
  BY <1>2 DEF RecordEvent
<1>3. ASSUME NEW e \in Events, ParseFails(e)
      PROVE  TypeOK'
  BY <1>3 DEF ParseFails, CountError
<1>4. ASSUME NEW e \in Events, ParseEvent(e)
      PROVE  TypeOK'
  BY <1>4 DEF ParseEvent
<1>5. ASSUME NEW e \in Events, CreateVisitID(e)
      PROVE  TypeOK'
  BY <1>5 DEF CreateVisitID
<1>51. ASSUME NEW e \in Events, CountIngested(e)
      PROVE  TypeOK'
  BY <1>51 DEF CountIngested
<1>6. ASSUME NEW e \in Events, QueueEvent(e)
      PROVE  TypeOK'
  <2>1. /\ Append(queue, e) \in Seq(Events)
        /\ Len(Append(queue, e)) = Len(queue) + 1
        /\ Append(log, e) \in Seq(Events)
    BY AppendProperties
  <2>2. QED
    BY <1>6, <2>1 DEF QueueEvent, QueueHasRoom
<1>7. ASSUME NEW e \in Events, QueueFull(e)
      PROVE  TypeOK'
  BY <1>7 DEF QueueFull
<1>71. ASSUME NEW e \in Events, CountDrop(e)
      PROVE  TypeOK'
  BY <1>71 DEF CountDrop, CountError
<1>8. CASE ReceiveEvent
  <2>1. /\ Tail(queue) \in Seq(Events)
        /\ Len(Tail(queue)) <= QueueSize
        /\ Append(toProcess, Head(queue)) \in Seq(Events)
    BY <1>8 DEF ReceiveEvent
  <2>2. QED
    BY <1>8, <2>1 DEF ReceiveEvent, AddToBatch
<1>9. CASE HandleTick
  BY <1>9 DEF HandleTick
<1>10. CASE SaveSucceeds
  BY <1>10 DEF SaveSucceeds
<1>11. CASE SaveFails
  BY <1>11 DEF SaveFails
<1>12. CASE SaveUnacknowledged
  BY <1>12 DEF SaveUnacknowledged
<1>121. CASE CountSaveError
  BY <1>121 DEF CountSaveError
<1>13. CASE HandleQuit
  BY <1>13 DEF HandleQuit
<1>14. CASE TickerFires
  BY <1>14 DEF TickerFires
<1>15. CASE Shutdown
  BY <1>15 DEF Shutdown
<1>16. CASE UNCHANGED vars
  BY <1>16 DEF vars
<1>17. QED
  BY <1>1, <1>2, <1>3, <1>4, <1>5, <1>51, <1>6, <1>7, <1>71, <1>8, <1>9,
     <1>10, <1>11, <1>12, <1>121, <1>13, <1>14, <1>15, <1>16
     DEF Next, Request, SaveEvent, Worker, Save

\* Type correctness: in particular the channel never holds more events than
\* its capacity, however many goroutines send to it.
THEOREM PipelineTypeOK == Spec => []TypeOK
<1>1. ASSUME Init
      PROVE  TypeOK
  <2>1. <<>> \in Seq(Events) /\ Len(<<>>) = 0
    BY EmptySeq
  <2>2. queue \in Seq(Events) /\ Len(queue) <= QueueSize
    BY <1>1, <2>1, PipelineAssumption DEF Init
  <2>3. req \in [Events -> Stages] /\ eventErrors \in [ErrorKinds -> Nat]
    BY <1>1 DEF Init, Stages, ErrorKinds
  <2>4. QED
    BY <1>1, <2>1, <2>2, <2>3 DEF Init, TypeOK
<1>2. QED
  BY <1>1, TypeStep, PTL DEF Spec
-----------------------------------------------------------------------------
(***************************************************************************)
(* Sequences.                                                              *)
(***************************************************************************)

\* Appending an element adds it to the members, and keeps a sequence without
\* repetition so if the element is new.
LEMMA MembersAppend ==
  ASSUME NEW S, NEW s \in Seq(S), NEW x \in S
  PROVE  /\ Members(Append(s, x)) = Members(s) \cup {x}
         /\ NoRepetition(s) /\ x \notin Members(s)
              => NoRepetition(Append(s, x))
<1> DEFINE t == Append(s, x)
<1>1. /\ Len(s) \in Nat
      /\ Len(t) = Len(s) + 1
      /\ \A i \in 1..Len(s) : t[i] = s[i]
      /\ t[Len(s) + 1] = x
  BY AppendProperties, LenProperties
<1> HIDE DEF t
<1>2. Members(t) = Members(s) \cup {x}
  BY <1>1 DEF Members
<1>3. ASSUME NoRepetition(s), x \notin Members(s)
      PROVE  NoRepetition(t)
  BY <1>1, <1>3 DEF Members, NoRepetition
<1>4. QED
  BY <1>2, <1>3 DEF t

\* The members of a concatenation are those of its parts.
LEMMA MembersConcat ==
  ASSUME NEW S, NEW s \in Seq(S), NEW t \in Seq(S)
  PROVE  Members(s \o t) = Members(s) \cup Members(t)
<1>1. /\ Len(s) \in Nat
      /\ Len(t) \in Nat
      /\ Len(s \o t) = Len(s) + Len(t)
      /\ \A i \in 1..Len(s) + Len(t) :
           (s \o t)[i] = IF i <= Len(s) THEN s[i] ELSE t[i - Len(s)]
  BY ConcatProperties, LenProperties
<1>2. ASSUME NEW x \in Members(s) PROVE x \in Members(s \o t)
  BY <1>1, <1>2 DEF Members
<1>3. ASSUME NEW x \in Members(t) PROVE x \in Members(s \o t)
  <2>1. PICK j \in 1..Len(t) : x = t[j]
    BY <1>3 DEF Members
  <2>2. j + Len(s) \in 1..Len(s \o t) /\ (s \o t)[j + Len(s)] = x
    BY <1>1, <2>1
  <2>3. QED
    BY <2>2 DEF Members
<1>4. ASSUME NEW x \in Members(s \o t) PROVE x \in Members(s) \cup Members(t)
  BY <1>1, <1>4 DEF Members
<1>5. QED
  BY <1>2, <1>3, <1>4

\* Moving the head of one sequence to the end of the other leaves their
\* concatenation as it was.
LEMMA MoveHead ==
  ASSUME NEW S, NEW s \in Seq(S), NEW t \in Seq(S), t # <<>>
  PROVE  Append(s, Head(t)) \o Tail(t) = s \o t
<1>1. Head(t) \in S /\ Tail(t) \in Seq(S)
  BY HeadTailProperties
<1>2. <<Head(t)>> \in Seq(S) /\ <<Head(t)>> \o Tail(t) = t
  <2>1. Len(t) \in Nat /\ Len(t) > 0 /\ Len(Tail(t)) = Len(t) - 1
    BY HeadTailProperties, LenProperties, EmptySeq
  <2>2. /\ <<Head(t)>> \in Seq(S)
        /\ Len(<<Head(t)>>) = 1
        /\ <<Head(t)>>[1] = t[1]
    BY <1>1
  <2>3. \A i \in 1..Len(Tail(t)) : Tail(t)[i] = t[i + 1]
    BY HeadTailProperties
  <2> DEFINE u == <<Head(t)>> \o Tail(t)
  <2>4. /\ u \in Seq(S)
        /\ Len(u) = 1 + Len(Tail(t))
        /\ \A i \in 1..1 + Len(Tail(t)) :
             u[i] = IF i <= 1 THEN <<Head(t)>>[i] ELSE Tail(t)[i - 1]
    BY <1>1, <2>2, ConcatProperties
  <2> HIDE DEF u
  <2>5. \A i \in 1..Len(u) : u[i] = t[i]
    BY <2>1, <2>2, <2>3, <2>4
  <2>6. u = t
    BY <2>1, <2>4, <2>5, SeqEqual
  <2>7. QED
    BY <2>2, <2>6 DEF u
<1>3. Append(s, Head(t)) = s \o <<Head(t)>>
  BY <1>1, AppendIsConcat
<1>4. QED
  BY <1>1, <1>2, <1>3, ConcatAssociative
-----------------------------------------------------------------------------
(***************************************************************************)
(* What each step does to the events that wait and to the rows.            *)
(***************************************************************************)

\* Where the queued events are: in the table, or not known to be there.
All == events \o Unsaved

\* Nothing is lost before the worker returns.
NothingLostYet == worker # "stopped" => lost = <<>>

\* The unsaved events are a sequence of events, and so are all of them.
LEMMA HeldType ==
  ASSUME TypeOK
  PROVE  /\ Waiting \in Seq(Events)
         /\ Unsaved \in Seq(Events)
         /\ All \in Seq(Events)
         /\ Len(All) = Len(events) + Len(Unsaved)
         /\ Len(log) \in Nat /\ Len(events) \in Nat /\ Len(toProcess) \in Nat
         /\ Len(queue) \in Nat /\ Len(Unsaved) \in Nat
         /\ Members(All) = Members(events) \cup Members(Unsaved)
         /\ Members(Unsaved)
              = Members(lost) \cup Members(toProcess) \cup Members(queue)
         /\ Members(All) = Members(Held) \cup Members(lost)
<1>1. Waiting \in Seq(Events)
  BY ConcatProperties DEF TypeOK, Waiting
<1>2. Members(Waiting) = Members(toProcess) \cup Members(queue)
  BY MembersConcat DEF TypeOK, Waiting
<1> HIDE DEF Waiting
<1>3. Unsaved \in Seq(Events)
  BY <1>1, ConcatProperties DEF TypeOK, Unsaved
<1>4. Members(Unsaved) = Members(lost) \cup Members(Waiting)
  BY <1>1, MembersConcat DEF TypeOK, Unsaved
<1>5. Members(Held) = Members(events) \cup Members(Waiting)
  BY <1>1, MembersConcat DEF TypeOK, Held
<1> HIDE DEF Unsaved
<1>6. All \in Seq(Events) /\ Len(All) = Len(events) + Len(Unsaved)
  BY <1>3, ConcatProperties DEF TypeOK, All
<1>7. Members(All) = Members(events) \cup Members(Unsaved)
  BY <1>3, MembersConcat DEF TypeOK, All
<1>8. QED
  BY <1>1, <1>2, <1>3, <1>4, <1>5, <1>6, <1>7, LenProperties DEF TypeOK

\* While the worker runs, the unsaved events are those of batch and channel.
LEMMA UnsavedWhileRunning ==
  ASSUME TypeOK, NothingLostYet, worker # "stopped"
  PROVE  /\ lost = <<>>
         /\ Unsaved = toProcess \o queue
         /\ Len(Unsaved) = Len(toProcess) + Len(queue)
<1>1. lost = <<>>
  BY DEF NothingLostYet
<1>2. Waiting \in Seq(Events) /\ Len(Waiting) = Len(toProcess) + Len(queue)
  BY ConcatProperties DEF TypeOK, Waiting
<1>3. <<>> \o Waiting = Waiting
  BY <1>2, ConcatEmptySeq
<1>4. QED
  BY <1>1, <1>2, <1>3 DEF Unsaved, Waiting

\* QueueEvent appends its event to the log and to the events that wait.
LEMMA QueueEventHeld ==
  ASSUME TypeOK, NEW e \in Events, QueueEvent(e)
  PROVE  /\ Unsaved' = Append(Unsaved, e)
         /\ log' = Append(log, e)
         /\ events' = events
         /\ e \notin InStage("queued")
         /\ InStage("queued")' = InStage("queued") \cup {e}
<1>1. Unsaved' = lost \o (toProcess \o Append(queue, e))
  BY DEF QueueEvent, workerVars, Unsaved, Waiting
<1>2. /\ toProcess \in Seq(Events) /\ queue \in Seq(Events)
      /\ lost \in Seq(Events) /\ <<e>> \in Seq(Events)
      /\ Waiting \in Seq(Events) /\ Unsaved \in Seq(Events)
  BY HeldType DEF TypeOK
<1>3. Append(queue, e) = queue \o <<e>>
  BY <1>2, AppendIsConcat
<1>4. Append(Unsaved, e) = Unsaved \o <<e>>
  BY <1>2, AppendIsConcat
<1>5. toProcess \o (queue \o <<e>>) = Waiting \o <<e>>
  BY <1>2, ConcatAssociative DEF Waiting
<1>6. Unsaved' = Append(Unsaved, e)
  <2>1. lost \o (Waiting \o <<e>>) = (lost \o Waiting) \o <<e>>
    BY <1>2, ConcatAssociative
  <2>2. QED
    BY <1>1, <1>3, <1>4, <1>5, <2>1 DEF Unsaved
<1>7. log' = Append(log, e) /\ events' = events
  BY DEF QueueEvent, workerVars
<1>8. /\ e \notin InStage("queued")
      /\ InStage("queued")' = InStage("queued") \cup {e}
  BY DEF TypeOK, InStage, QueueEvent, Step
<1>9. QED
  BY <1>6, <1>7, <1>8

\* Receiving moves an event from the channel to the batch.
LEMMA ReceiveEventHeld ==
  ASSUME TypeOK, NothingLostYet, ReceiveEvent
  PROVE  /\ Unsaved' = Unsaved
         /\ UNCHANGED <<events, log>>
         /\ InStage("queued")' = InStage("queued")
         /\ Len(toProcess') > 0
<1>1. Unsaved' = lost \o (Append(toProcess, Head(queue)) \o Tail(queue))
  BY DEF ReceiveEvent, AddToBatch, Unsaved, Waiting
<1>2. queue # <<>> /\ Head(queue) \in Events
  BY HeadTailProperties DEF TypeOK, ReceiveEvent
<1>3. Append(toProcess, Head(queue)) \o Tail(queue) = toProcess \o queue
  BY <1>2, MoveHead DEF TypeOK
<1>4. UNCHANGED <<events, log>> /\ InStage("queued")' = InStage("queued")
  BY DEF ReceiveEvent, requestVars, InStage
<1>5. Len(Append(toProcess, Head(queue))) = Len(toProcess) + 1
  BY <1>2, AppendProperties DEF TypeOK
<1>6. Len(toProcess') > 0
  BY <1>5, HeldType DEF ReceiveEvent, AddToBatch
<1>7. QED
  BY <1>1, <1>3, <1>4, <1>6 DEF Unsaved, Waiting

\* A save moves the batch from the unsaved events to the rows.
LEMMA SaveSucceedsHeld ==
  ASSUME TypeOK, NothingLostYet, SaveSucceeds
  PROVE  /\ Unsaved = toProcess \o queue
         /\ Len(Unsaved) = Len(toProcess) + Len(queue)
         /\ Unsaved' = queue
         /\ events' = events \o toProcess
         /\ Len(events') = Len(events) + Len(toProcess)
         /\ Members(events') = Members(events) \cup Members(toProcess)
         /\ log' = log
         /\ InStage("queued")' = InStage("queued")
<1>0. /\ lost = <<>>
      /\ Unsaved = toProcess \o queue
      /\ Len(Unsaved) = Len(toProcess) + Len(queue)
  BY UnsavedWhileRunning DEF SaveSucceeds
<1>1. Unsaved' = <<>> \o (<<>> \o queue)
  BY <1>0 DEF SaveSucceeds, Unsaved, Waiting
<1>2. <<>> \o queue = queue
  BY ConcatEmptySeq DEF TypeOK
<1>3. /\ Len(events \o toProcess) = Len(events) + Len(toProcess)
      /\ Members(events \o toProcess) = Members(events) \cup Members(toProcess)
  BY ConcatProperties, MembersConcat DEF TypeOK
<1>4. QED
  BY <1>0, <1>1, <1>2, <1>3 DEF SaveSucceeds, requestVars, InStage, Members

\* A save whose answer got lost copies the batch to the rows.
LEMMA SaveUnacknowledgedHeld ==
  ASSUME TypeOK, NothingLostYet, SaveUnacknowledged
  PROVE  /\ Unsaved = toProcess \o queue
         /\ Len(Unsaved) = Len(toProcess) + Len(queue)
         /\ Unsaved' = Unsaved
         /\ events' = events \o toProcess
         /\ Len(events') = Len(events) + Len(toProcess)
         /\ Members(events') = Members(events) \cup Members(toProcess)
         /\ log' = log
         /\ InStage("queued")' = InStage("queued")
<1>1. /\ Len(events \o toProcess) = Len(events) + Len(toProcess)
      /\ Members(events \o toProcess) = Members(events) \cup Members(toProcess)
  BY ConcatProperties, MembersConcat DEF TypeOK
<1>2. /\ Unsaved = toProcess \o queue
      /\ Len(Unsaved) = Len(toProcess) + Len(queue)
  BY UnsavedWhileRunning DEF SaveUnacknowledged
<1>3. Unsaved' = Unsaved
  BY DEF SaveUnacknowledged, Unsaved, Waiting
<1>4. QED
  BY <1>1, <1>2, <1>3 DEF SaveUnacknowledged, requestVars, InStage, Members

\* When the worker returns, its batch changes from one that waits to one that
\* is lost.
LEMMA HandleQuitHeld ==
  ASSUME TypeOK, NothingLostYet, HandleQuit
  PROVE  /\ Unsaved' = Unsaved
         /\ UNCHANGED <<events, log>>
         /\ InStage("queued")' = InStage("queued")
<1>1. Unsaved = toProcess \o queue
  BY UnsavedWhileRunning DEF HandleQuit
<1>2. Unsaved' = toProcess \o (<<>> \o queue)
  BY DEF HandleQuit, Unsaved, Waiting
<1>3. <<>> \o queue = queue
  BY ConcatEmptySeq DEF TypeOK
<1>4. QED
  BY <1>1, <1>2, <1>3 DEF HandleQuit, requestVars, InStage

\* The steps that touch neither channel, batch nor table.
Aside ==
  \/ \E e \in Events :
       \/ Request(e) \/ ParseFails(e) \/ ParseEvent(e) \/ CreateVisitID(e)
       \/ CountIngested(e) \/ QueueFull(e) \/ CountDrop(e)
  \/ HandleTick \/ SaveFails \/ CountSaveError \/ TickerFires \/ Shutdown
  \/ UNCHANGED vars

\* Every step is one that writes to channel, batch or table, or one aside.
LEMMA StepCases ==
  [Next]_vars => \/ \E e \in Events : QueueEvent(e)
                 \/ ReceiveEvent
                 \/ SaveSucceeds
                 \/ SaveUnacknowledged
                 \/ HandleQuit
                 \/ Aside
BY DEF Next, SaveEvent, Worker, Save, Aside

\* A step aside holds the same events, and neither queues one nor takes one
\* back.
LEMMA AsideHeld ==
  ASSUME TypeOK, Aside
  PROVE  /\ UNCHANGED <<events, toProcess, queue, log, lost>>
         /\ Unsaved' = Unsaved
         /\ InStage("queued")' = InStage("queued")
<1> USE DEF Aside, Request, RefuseRequest, RecordEvent, ParseFails,
            ParseEvent, CreateVisitID, CountIngested, QueueFull, CountDrop,
            HandleTick, SaveFails, CountSaveError, TickerFires, Shutdown, vars, requestVars, workerVars
<1>1. UNCHANGED <<events, toProcess, queue, log, lost>>
  OBVIOUS
<1>2. \/ UNCHANGED req
      \/ \E e \in Events, from, to \in Stages \ {"queued"} : Step(e, from, to)
  BY DEF Stages
<1>3. InStage("queued")' = InStage("queued")
  BY <1>2 DEF Step, InStage, TypeOK
<1>4. QED
  BY <1>1, <1>3 DEF Unsaved, Waiting

\* A batch that is being saved is not empty.
SavingSomething == worker = "saving" => Len(toProcess) > 0

WorkerInv == NothingLostYet /\ SavingSomething

LEMMA WorkerStep ==
  TypeOK /\ WorkerInv /\ [Next]_vars => WorkerInv'
<1> SUFFICES ASSUME TypeOK, NothingLostYet, SavingSomething, [Next]_vars
             PROVE  WorkerInv'
  BY DEF WorkerInv
<1>1. CASE ReceiveEvent
  <2>1. Len(toProcess') > 0
    BY <1>1, ReceiveEventHeld
  <2>2. lost' = <<>>
    BY <1>1 DEF ReceiveEvent, NothingLostYet
  <2>3. QED
    BY <2>1, <2>2 DEF WorkerInv, NothingLostYet, SavingSomething
<1>2. CASE HandleTick
  <2>1. toProcess' = toProcess /\ lost' = <<>>
    BY <1>2 DEF HandleTick, NothingLostYet
  <2>2. worker' = "saving" => toProcess # <<>>
    BY <1>2 DEF HandleTick
  <2>3. toProcess # <<>> => Len(toProcess) > 0
    BY HeldType, EmptySeq DEF TypeOK
  <2>4. QED
    BY <2>1, <2>2, <2>3 DEF WorkerInv, NothingLostYet, SavingSomething
<1>3. CASE Save \/ CountSaveError
  BY <1>3 DEF Save, SaveSucceeds, SaveFails, SaveUnacknowledged, CountSaveError,
     WorkerInv, NothingLostYet, SavingSomething
<1>4. CASE HandleQuit
  BY <1>4 DEF HandleQuit, WorkerInv, NothingLostYet, SavingSomething
<1>5. CASE UNCHANGED <<worker, toProcess, lost>>
  BY <1>5 DEF WorkerInv, NothingLostYet, SavingSomething
<1>6. QED
  BY <1>1, <1>2, <1>3, <1>4, <1>5
     DEF Next, Request, SaveEvent, Worker, RefuseRequest, RecordEvent,
         ParseFails, ParseEvent, CreateVisitID, CountIngested, QueueEvent,
         QueueFull, CountDrop, TickerFires, Shutdown, vars, workerVars
-----------------------------------------------------------------------------
(***************************************************************************)
(* The log.  ExactlyOnce is not inductive: that an event which waits is    *)
(* not in the table too is kept by a save only because the events that     *)
(* wait are the last ones of the log, behind those that were saved.        *)
(***************************************************************************)

\* The events that wait are the end of the log.
UnsavedIsSuffix ==
  /\ Len(Unsaved) <= Len(log)
  /\ \A i \in 1..Len(Unsaved) : Unsaved[i] = log[Saved + i]

\* The rows are the rest of the log, unless rows were written twice.
RowsArePrefix ==
  /\ Len(events) >= Saved
  /\ Len(events) = Saved => \A i \in 1..Saved : events[i] = log[i]

LogInv ==
  /\ NoRepetition(log)
  /\ Members(log) = InStage("queued")
  /\ Members(All) = InStage("queued")
  /\ UnsavedIsSuffix
  /\ RowsArePrefix
  /\ WorkerInv

\* HeldType of the state after a step.
LEMMA HeldMembersPrime ==
  ASSUME TypeOK'
  PROVE  Members(All)' = Members(events') \cup Members(Unsaved')
<1>1. /\ toProcess' \in Seq(Events) /\ queue' \in Seq(Events)
      /\ events' \in Seq(Events) /\ lost' \in Seq(Events)
  BY DEF TypeOK
<1>2. Waiting' \in Seq(Events)
  BY <1>1, ConcatProperties DEF Waiting
<1>3. Unsaved' \in Seq(Events)
  BY <1>1, <1>2, ConcatProperties DEF Unsaved
<1>4. Members(events' \o Unsaved') = Members(events') \cup Members(Unsaved')
  BY <1>1, <1>3, MembersConcat
<1>5. QED
  BY <1>4 DEF Members, All

\* No step of LogInv's first three conjuncts needs more than what is queued.
LEMMA MembersStep ==
  ASSUME TypeOK, TypeOK', LogInv, [Next]_vars
  PROVE  /\ NoRepetition(log')
         /\ Members(log') = InStage("queued")'
         /\ Members(All)' = InStage("queued")'
<1>0. NothingLostYet
  BY DEF LogInv, WorkerInv
<1>1. ASSUME NEW e \in Events, QueueEvent(e)
      PROVE  /\ NoRepetition(log')
             /\ Members(log') = InStage("queued")'
             /\ Members(All)' = InStage("queued")'
  <2>1. /\ Unsaved' = Append(Unsaved, e)
        /\ log' = Append(log, e)
        /\ events' = events
        /\ e \notin InStage("queued")
        /\ InStage("queued")' = InStage("queued") \cup {e}
    BY <1>1, QueueEventHeld
  <2>2. /\ Members(log') = Members(log) \cup {e}
        /\ NoRepetition(log) /\ e \notin Members(log) => NoRepetition(log')
    BY <2>1, MembersAppend DEF TypeOK
  <2>3. Members(Unsaved)' = Members(Unsaved) \cup {e}
    <3>1. Unsaved \in Seq(Events)
      BY HeldType
    <3>2. Members(Append(Unsaved, e)) = Members(Unsaved) \cup {e}
      BY <3>1, MembersAppend
    <3>3. QED
      BY <2>1, <3>2 DEF Members
  <2>4. Members(All)' = Members(events') \cup Members(Unsaved')
    BY HeldMembersPrime
  <2>5. /\ Members(events') = Members(events)
        /\ Members(Unsaved') = Members(Unsaved) \cup {e}
    BY <2>1, <2>3 DEF Members
  <2>6. QED
    BY <2>1, <2>2, <2>3, <2>4, <2>5, HeldType DEF LogInv
<1>2. CASE SaveSucceeds \/ SaveUnacknowledged
  <2>1. /\ log' = log
        /\ InStage("queued")' = InStage("queued")
        /\ Members(events') = Members(events) \cup Members(toProcess)
        /\ Unsaved' = queue \/ Unsaved' = Unsaved
        /\ lost = <<>>
    BY <1>0, <1>2, SaveSucceedsHeld, SaveUnacknowledgedHeld, UnsavedWhileRunning
       DEF SaveSucceeds, SaveUnacknowledged
  <2>2. Members(All)' = Members(events') \cup Members(Unsaved')
    BY HeldMembersPrime
  <2>3. Members(Unsaved') = Members(queue) \/ Members(Unsaved') = Members(Unsaved)
    BY <2>1
  <2>4. Members(lost) = {}
    BY <2>1, EmptySeq DEF Members
  <2>5. QED
    BY <2>1, <2>2, <2>3, <2>4, HeldType DEF LogInv
<1>3. CASE ReceiveEvent \/ HandleQuit \/ Aside
  <2>1. UNCHANGED <<Unsaved, events, log>> /\ InStage("queued")' = InStage("queued")
    BY <1>0, <1>3, ReceiveEventHeld, HandleQuitHeld, AsideHeld
  <2>2. Members(All)' = Members(All)
    BY <2>1 DEF All, Members
  <2>3. QED
    BY <2>1, <2>2 DEF LogInv
<1>4. QED
  BY <1>1, <1>2, <1>3, StepCases

LEMMA SuffixStep ==
  ASSUME TypeOK, TypeOK', LogInv, [Next]_vars
  PROVE  UnsavedIsSuffix' /\ RowsArePrefix'
<1>0. /\ Len(log) \in Nat /\ Len(events) \in Nat
      /\ Len(toProcess) \in Nat /\ Len(queue) \in Nat
      /\ Len(Unsaved) \in Nat
      /\ Unsaved \in Seq(Events)
      /\ NothingLostYet /\ SavingSomething
  BY HeldType DEF LogInv, WorkerInv
<1>1. ASSUME NEW e \in Events, QueueEvent(e)
      PROVE  UnsavedIsSuffix' /\ RowsArePrefix'
  <2>1. /\ Unsaved' = Append(Unsaved, e)
        /\ log' = Append(log, e)
        /\ events' = events
    BY <1>1, QueueEventHeld
  <2>2. /\ Len(log') = Len(log) + 1
        /\ \A i \in 1..Len(log) : log'[i] = log[i]
        /\ log'[Len(log) + 1] = e
    BY <2>1, AppendProperties DEF TypeOK
  <2>3. /\ Len(Unsaved') = Len(Unsaved) + 1
        /\ \A i \in 1..Len(Unsaved) : Unsaved'[i] = Unsaved[i]
        /\ Unsaved'[Len(Unsaved) + 1] = e
    BY <1>0, <2>1, AppendProperties
  <2>4. Saved' = Saved
    BY <1>0, <2>2, <2>3 DEF Saved
  <2>5. UnsavedIsSuffix'
    <3>1. Len(Unsaved') <= Len(log')
      BY <1>0, <2>2, <2>3 DEF LogInv, UnsavedIsSuffix
    <3>2. ASSUME NEW i \in 1..Len(Unsaved')
          PROVE  Unsaved'[i] = log'[Saved' + i]
      <4>1. CASE i \in 1..Len(Unsaved)
        <5>1. Saved + i \in 1..Len(log) /\ Unsaved[i] = log[Saved + i]
          BY <1>0, <4>1 DEF LogInv, UnsavedIsSuffix, Saved
        <5>2. QED
          BY <2>2, <2>3, <2>4, <4>1, <5>1
      <4>2. CASE i = Len(Unsaved) + 1
        <5>1. Saved' + i = Len(log) + 1
          BY <1>0, <2>4, <4>2 DEF Saved
        <5>2. QED
          BY <2>2, <2>3, <4>2, <5>1
      <4>3. QED
        BY <1>0, <2>3, <3>2, <4>1, <4>2
    <3>3. QED
      BY <3>1, <3>2 DEF UnsavedIsSuffix
  <2>6. RowsArePrefix'
    BY <1>0, <2>1, <2>2, <2>4 DEF LogInv, RowsArePrefix, UnsavedIsSuffix, Saved
  <2>7. QED
    BY <2>5, <2>6
<1>2. CASE SaveSucceeds
  <2>1. /\ Unsaved = toProcess \o queue
        /\ Len(Unsaved) = Len(toProcess) + Len(queue)
        /\ Unsaved' = queue
        /\ events' = events \o toProcess
        /\ Len(events') = Len(events) + Len(toProcess)
        /\ log' = log
    BY <1>0, <1>2, SaveSucceedsHeld
  <2>2. Saved' = Saved + Len(toProcess)
    BY <1>0, <2>1 DEF Saved
  <2>3. \A i \in 1..Len(Unsaved) :
          Unsaved[i] = IF i <= Len(toProcess) THEN toProcess[i]
                       ELSE queue[i - Len(toProcess)]
    BY <1>0, <2>1, ConcatProperties DEF TypeOK
  <2>4. \A i \in 1..Len(events') :
          events'[i] = IF i <= Len(events) THEN events[i]
                       ELSE toProcess[i - Len(events)]
    BY <1>0, <2>1, ConcatProperties DEF TypeOK
  <2>5. \A i \in 1..Len(queue) : queue[i] = log[Saved + Len(toProcess) + i]
    <3>1. SUFFICES ASSUME NEW i \in 1..Len(queue)
                   PROVE  queue[i] = log[Saved + Len(toProcess) + i]
      OBVIOUS
    <3>2. i + Len(toProcess) \in 1..Len(Unsaved)
      BY <1>0, <2>1
    <3>3. Unsaved[i + Len(toProcess)] = log[Saved + (i + Len(toProcess))]
      BY <3>2 DEF LogInv, UnsavedIsSuffix
    <3>4. Unsaved[i + Len(toProcess)] = queue[i]
      BY <1>0, <2>3, <3>2
    <3>5. Saved \in Int
      BY <1>0 DEF Saved
    <3>6. Saved + (i + Len(toProcess)) = Saved + Len(toProcess) + i
      BY <1>0, <3>5
    <3>7. QED
      BY <3>3, <3>4, <3>6
  <2>6. UnsavedIsSuffix'
    BY <1>0, <2>1, <2>2, <2>5 DEF LogInv, UnsavedIsSuffix, Saved
  <2>7. RowsArePrefix'
    <3>1. Len(events') >= Saved'
      <4>1. Len(events) >= Saved /\ Saved \in Int
        BY <1>0 DEF LogInv, RowsArePrefix, Saved
      <4>2. QED
        BY <1>0, <2>1, <2>2, <4>1
    <3>2. ASSUME Len(events') = Saved', NEW i \in 1..Saved'
          PROVE  events'[i] = log'[i]
      <4>1. Len(events) = Saved /\ Saved \in Nat
        <5>1. Saved \in Nat
          BY <1>0, <2>1 DEF LogInv, UnsavedIsSuffix, Saved
        <5>2. QED
          BY <1>0, <2>1, <2>2, <3>2, <5>1
      <4>2. CASE i <= Saved
        <5>1. i \in 1..Saved
          BY <1>0, <4>1, <4>2, <2>2
        <5>2. events[i] = log[i]
          BY <4>1, <5>1 DEF LogInv, RowsArePrefix
        <5>3. QED
          BY <1>0, <2>1, <2>2, <2>4, <3>2, <4>1, <4>2, <5>2
      <4>3. CASE i > Saved
        <5>1. /\ i - Saved \in 1..Len(toProcess)
              /\ i - Saved \in 1..Len(Unsaved)
              /\ Saved + (i - Saved) = i
          BY <1>0, <2>1, <2>2, <4>1, <4>3
        <5>2. Unsaved[i - Saved] = log[Saved + (i - Saved)]
          BY <5>1 DEF LogInv, UnsavedIsSuffix
        <5>3. Unsaved[i - Saved] = toProcess[i - Saved]
          BY <1>0, <2>3, <5>1
        <5>4. events'[i] = toProcess[i - Saved]
          BY <1>0, <2>2, <2>4, <3>2, <4>1, <4>3
        <5>5. QED
          BY <2>1, <5>1, <5>2, <5>3, <5>4
      <4>4. QED
        BY <2>2, <4>1, <4>2, <4>3, <1>0
    <3>3. QED
      BY <3>1, <3>2 DEF RowsArePrefix
  <2>8. QED
    BY <2>6, <2>7
<1>3. CASE SaveUnacknowledged
  <2>1. /\ UNCHANGED <<Unsaved, log>>
        /\ Len(events') = Len(events) + Len(toProcess)
        /\ Len(toProcess) > 0
    BY <1>0, <1>3, SaveUnacknowledgedHeld DEF SavingSomething, SaveUnacknowledged
  <2>2. Saved' = Saved /\ UnsavedIsSuffix'
    BY <2>1 DEF LogInv, UnsavedIsSuffix, Saved
  <2>3. Len(events') > Saved'
    BY <1>0, <2>1, <2>2 DEF LogInv, RowsArePrefix, Saved
  <2>4. QED
    BY <1>0, <2>1, <2>2, <2>3 DEF RowsArePrefix, Saved
<1>4. CASE ReceiveEvent \/ HandleQuit \/ Aside
  <2>1. UNCHANGED <<Unsaved, events, log>>
    BY <1>0, <1>4, ReceiveEventHeld, HandleQuitHeld, AsideHeld
  <2>2. QED
    BY <2>1 DEF LogInv, UnsavedIsSuffix, RowsArePrefix, Saved
<1>5. QED
  BY <1>1, <1>2, <1>3, <1>4, StepCases

LEMMA InitEmpty ==
  Init => /\ Unsaved = <<>> /\ All = <<>> /\ log = <<>> /\ events = <<>>
          /\ InStage("queued") = {}
BY ConcatEmptySeq, EmptySeq DEF Init, Unsaved, Waiting, All, InStage

LEMMA LogInvInit == Init => LogInv
<1> SUFFICES ASSUME Init PROVE LogInv
  OBVIOUS
<1>1. Unsaved = <<>> /\ All = <<>> /\ log = <<>> /\ events = <<>>
  BY InitEmpty
<1>2. InStage("queued") = {} /\ Len(<<>>) = 0
  BY InitEmpty, EmptySeq
<1>3. NoRepetition(<<>>) /\ Members(<<>>) = {}
  BY <1>2 DEF NoRepetition, Members
<1>4. Members(log) = {} /\ Members(All) = {} /\ NoRepetition(log)
  BY <1>1, <1>3 DEF Members, NoRepetition
<1>5. UnsavedIsSuffix /\ RowsArePrefix
  BY <1>1, <1>2 DEF UnsavedIsSuffix, RowsArePrefix, Saved
<1>6. QED
  BY <1>2, <1>4, <1>5 DEF LogInv, WorkerInv, NothingLostYet, SavingSomething, Init

LEMMA LogInvStep == TypeOK /\ LogInv /\ [Next]_vars => LogInv'
<1> SUFFICES ASSUME TypeOK, LogInv, [Next]_vars PROVE LogInv'
  OBVIOUS
<1>1. TypeOK'
  BY TypeStep
<1>2. /\ NoRepetition(log')
      /\ Members(log') = InStage("queued")'
      /\ Members(All)' = InStage("queued")'
  BY <1>1, MembersStep
<1>3. UnsavedIsSuffix' /\ RowsArePrefix'
  BY <1>1, SuffixStep
<1>4. WorkerInv'
  BY WorkerStep DEF LogInv
<1>5. NoRepetition(log)' /\ Members(log)' = InStage("queued")'
  BY <1>2 DEF NoRepetition, Members
<1>6. QED
  BY <1>2, <1>3, <1>4, <1>5 DEF LogInv

LEMMA LogInvAlways == Spec => []LogInv
BY PipelineTypeOK, LogInvInit, LogInvStep, PTL DEF Spec
-----------------------------------------------------------------------------
(***************************************************************************)
(* The theorems.                                                           *)
(***************************************************************************)

\* However often saves fail and are retried, the events in channel, batch,
\* table and in the batch that a worker which returned has lost are those that
\* were queued; none is to be saved twice, and without a lost answer each is
\* there once.
THEOREM PipelineExactlyOnce == Spec => []ExactlyOnce
<1>1. TypeOK /\ LogInv => ExactlyOnce
  <2> SUFFICES ASSUME TypeOK, LogInv PROVE ExactlyOnce
    OBVIOUS
  <2>0. /\ Len(log) \in Nat /\ Len(events) \in Nat
        /\ Unsaved \in Seq(Events)
        /\ Len(Unsaved) \in Nat
        /\ Len(All) = Len(events) + Len(Unsaved)
        /\ Members(All) = Members(Held) \cup Members(lost)
    BY HeldType
  <2>1. NoRepetition(Unsaved)
    <3>1. SUFFICES ASSUME NEW i \in 1..Len(Unsaved), NEW j \in 1..Len(Unsaved),
                          Unsaved[i] = Unsaved[j]
                   PROVE  i = j
      BY DEF NoRepetition
    <3>2. Saved + i \in 1..Len(log) /\ Saved + j \in 1..Len(log)
      BY <2>0 DEF LogInv, UnsavedIsSuffix, Saved
    <3>3. log[Saved + i] = log[Saved + j]
      BY <3>1 DEF LogInv, UnsavedIsSuffix
    <3>4. Saved + i = Saved + j
      BY <3>2, <3>3 DEF LogInv, NoRepetition
    <3>5. QED
      BY <2>0, <3>4 DEF Saved
  <2>2. ASSUME Len(events) = Saved
        PROVE  NoRepetition(All)
    <3>1. Len(All) = Len(log)
      BY <2>0, <2>2 DEF Saved
    <3>2. ASSUME NEW i \in 1..Len(log) PROVE All[i] = log[i]
      <4>1. All[i] = IF i <= Len(events) THEN events[i]
                      ELSE Unsaved[i - Len(events)]
        BY <2>0, <3>1, <3>2, ConcatProperties DEF TypeOK, All
      <4>2. CASE i <= Len(events)
        <5>1. i \in 1..Saved
          BY <2>0, <2>2, <4>2
        <5>2. events[i] = log[i]
          BY <2>2, <5>1 DEF LogInv, RowsArePrefix
        <5>3. QED
          BY <4>1, <4>2, <5>2
      <4>3. CASE i > Len(events)
        <5>1. /\ i - Len(events) \in 1..Len(Unsaved)
              /\ Saved + (i - Len(events)) = i
          BY <2>0, <2>2, <4>3 DEF Saved
        <5>2. Unsaved[i - Len(events)] = log[Saved + (i - Len(events))]
          BY <5>1 DEF LogInv, UnsavedIsSuffix
        <5>3. QED
          BY <2>0, <4>1, <4>3, <5>1, <5>2
      <4>4. QED
        BY <2>0, <4>2, <4>3
    <3>3. QED
      BY <3>1, <3>2 DEF LogInv, NoRepetition
  <2>3. QED
    BY <2>0, <2>1, <2>2 DEF LogInv, ExactlyOnce, All
<1>2. QED
  BY <1>1, PipelineTypeOK, LogInvAlways, PTL

\* Whatever the database does, no step takes an event away from channel, batch
\* and table, save the return of the worker, which takes what was in its batch.
THEOREM PipelineNothingForgotten == Spec => NothingForgotten
<1>1. ASSUME TypeOK, TypeOK', LogInv, LogInv', [Next]_vars
      PROVE  Members(Held) \ Members(Held')
               \subseteq (IF WorkerReturns THEN Members(toProcess) ELSE {})
  <2>1. /\ Members(All) = Members(Held) \cup Members(lost)
        /\ Members(All) = InStage("queued")
    BY <1>1, HeldType DEF LogInv
  <2>2. /\ Members(Held') = Members(events') \cup Members(toProcess') \cup Members(queue')
        /\ Members(lost') \cup Members(Held') = InStage("queued")'
    <3>1. /\ toProcess' \in Seq(Events) /\ queue' \in Seq(Events)
          /\ events' \in Seq(Events) /\ lost' \in Seq(Events)
      BY <1>1 DEF TypeOK
    <3>2. /\ Waiting' \in Seq(Events)
          /\ Members(Waiting') = Members(toProcess') \cup Members(queue')
      BY <3>1, ConcatProperties, MembersConcat DEF Waiting
    <3>3. /\ Unsaved' \in Seq(Events)
          /\ Members(Unsaved') = Members(lost') \cup Members(Waiting')
      BY <3>1, <3>2, ConcatProperties, MembersConcat DEF Unsaved
    <3>4. Members(Held') = Members(events') \cup Members(Waiting')
      BY <3>1, <3>2, MembersConcat DEF Held
    <3>5. Members(All') = Members(events') \cup Members(Unsaved')
      BY <3>1, <3>3, MembersConcat DEF All
    <3>6. Members(All)' = Members(All')
      BY DEF Members
    <3>7. Members(All)' = InStage("queued")'
      BY <1>1 DEF LogInv
    <3>8. QED
      BY <3>2, <3>3, <3>4, <3>5, <3>6, <3>7
  <2>3. InStage("queued") \subseteq InStage("queued")'
    BY <1>1, StepCases, QueueEventHeld, ReceiveEventHeld, SaveSucceedsHeld,
       SaveUnacknowledgedHeld, HandleQuitHeld, AsideHeld DEF LogInv, WorkerInv
  <2>4. CASE lost' = lost
    <3>1. worker # "stopped" => lost = <<>>
      BY <1>1 DEF LogInv, WorkerInv, NothingLostYet
    <3>2. CASE lost = <<>>
      <4>1. Members(lost') = {}
        BY <2>4, <3>2, EmptySeq DEF Members
      <4>2. QED
        BY <2>1, <2>2, <2>3, <4>1
    <3>3. CASE worker = "stopped"
      <4>1. /\ toProcess' = toProcess /\ events' = events
            /\ queue' = queue \/ \E e \in Events : queue' = Append(queue, e)
        BY <1>1, <3>3
           DEF Next, Request, SaveEvent, Worker, Save, RefuseRequest,
               RecordEvent, ParseFails, ParseEvent, CreateVisitID,
               CountIngested, QueueEvent, QueueFull, CountDrop, ReceiveEvent,
               HandleTick, SaveSucceeds, SaveFails, SaveUnacknowledged,
               CountSaveError, HandleQuit, TickerFires, Shutdown, vars,
               workerVars
      <4>2. Members(queue) \subseteq Members(queue')
        <5>1. ASSUME NEW e \in Events
              PROVE  Members(queue) \subseteq Members(Append(queue, e))
          BY <1>1, MembersAppend DEF TypeOK
        <5>2. QED
          BY <4>1, <5>1
      <4>3. Members(Held) = Members(events) \cup Members(toProcess) \cup Members(queue)
        <5>1. Waiting \in Seq(Events)
          BY <1>1, HeldType
        <5>2. Members(Waiting) = Members(toProcess) \cup Members(queue)
          BY <1>1, MembersConcat DEF TypeOK, Waiting
        <5>3. Members(Held) = Members(events) \cup Members(Waiting)
          BY <1>1, <5>1, MembersConcat DEF TypeOK, Held
        <5>4. QED
          BY <5>2, <5>3
      <4>4. QED
        BY <2>2, <4>1, <4>2, <4>3
    <3>4. QED
      BY <3>1, <3>2, <3>3
  <2>5. CASE HandleQuit
    <3>1. WorkerReturns /\ lost' = toProcess
      BY <2>5 DEF HandleQuit, WorkerReturns
    <3>2. QED
      BY <2>1, <2>2, <2>3, <3>1
  <2>6. QED
    BY <1>1, <2>4, <2>5
       DEF Next, Request, SaveEvent, Worker, Save, RefuseRequest,
           RecordEvent, ParseFails, ParseEvent, CreateVisitID, CountIngested,
           QueueEvent, QueueFull, CountDrop, ReceiveEvent, HandleTick,
           SaveSucceeds, SaveFails, SaveUnacknowledged, CountSaveError,
           TickerFires, Shutdown, vars, workerVars
<1>2. QED
  BY <1>1, PipelineTypeOK, LogInvAlways, PTL DEF Spec, NothingForgotten

\* The pipeline implements EventLog: events reach the table in the order they
\* were queued and none is skipped; one is written again only after an answer
\* got lost.
THEOREM PipelineRefinesEventLog == Spec => RefinesEventLog
<1>1. ASSUME Init PROVE Log!Init
  BY <1>1, InitEmpty, EmptySeq DEF Log!Init, Saved
<1>2. ASSUME TypeOK, TypeOK', LogInv, [Next]_vars
      PROVE  [Log!Next]_(Log!vars)
  <2>0. /\ Len(log) \in Nat /\ Len(events) \in Nat
        /\ Len(toProcess) \in Nat /\ Len(queue) \in Nat
        /\ Unsaved \in Seq(Events) /\ Len(Unsaved) \in Nat
        /\ NothingLostYet
    BY <1>2, HeldType DEF LogInv, WorkerInv
  <2>1. ASSUME NEW e \in Events, QueueEvent(e)
        PROVE  Log!Accept(e)
    <3>1. /\ Unsaved' = Append(Unsaved, e)
          /\ log' = Append(log, e)
          /\ events' = events
          /\ e \notin InStage("queued")
      BY <1>2, <2>1, QueueEventHeld
    <3>2. e \notin Log!Logged
      BY <1>2, <3>1 DEF LogInv, Members, Log!Logged
    <3>3. Len(log') = Len(log) + 1 /\ Len(Unsaved') = Len(Unsaved) + 1
      <4>1. log \in Seq(Events)
        BY <1>2 DEF TypeOK
      <4>2. /\ Len(Append(log, e)) = Len(log) + 1
            /\ Len(Append(Unsaved, e)) = Len(Unsaved) + 1
        BY <4>1, <2>0, AppendProperties
      <4>3. QED
        BY <3>1, <4>2
    <3>4. Saved' = Saved
      BY <2>0, <3>3 DEF Saved
    <3>5. QED
      BY <3>1, <3>2, <3>4 DEF Log!Accept
  <2>2. CASE SaveSucceeds \/ SaveUnacknowledged
    <3> DEFINE n == Len(toProcess)
    <3>0. /\ Unsaved = toProcess \o queue
          /\ Len(Unsaved) = Len(toProcess) + Len(queue)
      BY <1>2, <2>0, <2>2, SaveSucceedsHeld, SaveUnacknowledgedHeld
    <3>1. /\ Saved \in Nat
          /\ n \in 1..Len(log) - Saved
          /\ Saved + n <= Len(log)
      <4>1. n > 0
        BY <1>2, <2>2
           DEF LogInv, WorkerInv, SavingSomething, SaveSucceeds, SaveUnacknowledged
      <4>2. QED
        BY <1>2, <2>0, <3>0, <4>1 DEF LogInv, UnsavedIsSuffix, Saved
    <3>2. toProcess = SubSeq(log, Saved + 1, Saved + n)
      <4> DEFINE part == SubSeq(log, Saved + 1, Saved + n)
      <4>1. \A i \in 1..n : toProcess[i] = log[Saved + i]
        <5>1. SUFFICES ASSUME NEW i \in 1..n PROVE toProcess[i] = log[Saved + i]
          OBVIOUS
        <5>2. i \in 1..Len(Unsaved) /\ i <= n
          BY <2>0, <3>0
        <5>3. Unsaved[i] = toProcess[i]
          BY <1>2, <2>0, <3>0, <5>2, ConcatProperties DEF TypeOK
        <5>4. QED
          BY <1>2, <5>2, <5>3 DEF LogInv, UnsavedIsSuffix
      <4>2. /\ part \in Seq(Events)
            /\ Len(part) = n
            /\ \A i \in 1..n : part[i] = log[Saved + i]
        <5>1. /\ Saved + 1 \in Int /\ Saved + n \in Int
              /\ \A i \in Saved + 1..Saved + n : log[i] \in Events
          BY <1>2, <2>0, <3>1 DEF TypeOK
        <5>2. /\ part \in Seq(Events)
              /\ Len(part) = IF Saved + 1 <= Saved + n
                             THEN (Saved + n) - (Saved + 1) + 1 ELSE 0
              /\ \A i \in 1..(Saved + n) - (Saved + 1) + 1 :
                   part[i] = log[(Saved + 1) + i - 1]
          BY <5>1, SubSeqProperties
        <5>3. (Saved + n) - (Saved + 1) + 1 = n /\ Saved + 1 <= Saved + n
          BY <2>0, <3>1
        <5>4. \A i \in 1..n : (Saved + 1) + i - 1 = Saved + i
          BY <2>0, <3>1
        <5>5. QED
          BY <5>2, <5>3, <5>4
      <4>3. toProcess \in Seq(Events)
        BY <1>2 DEF TypeOK
      <4> HIDE DEF part
      <4>4. toProcess = part
        BY <4>1, <4>2, <4>3, SeqEqual
      <4>5. QED
        BY <4>4 DEF part
    <3>3. events' = events \o toProcess /\ log' = log
      BY <1>2, <2>0, <2>2, SaveSucceedsHeld, SaveUnacknowledgedHeld
    <3>4. Log!Write(n)
      BY <3>2, <3>3 DEF Log!Write
    <3>5. CASE SaveSucceeds
      <4>1. Unsaved' = queue
        BY <1>2, <2>0, <3>5, SaveSucceedsHeld
      <4>2. Saved' = Saved + n
        BY <2>0, <3>0, <3>3, <4>1 DEF Saved
      <4>3. QED
        BY <3>1, <3>3, <3>4, <4>2 DEF Log!Persist, Log!Next
    <3>6. CASE SaveUnacknowledged
      <4>1. Unsaved' = Unsaved
        BY <1>2, <2>0, <3>6, SaveUnacknowledgedHeld
      <4>2. Saved' = Saved
        BY <3>3, <4>1 DEF Saved
      <4>3. QED
        BY <3>1, <3>3, <3>4, <4>2 DEF Log!PersistUnacknowledged, Log!Next
    <3>7. QED
      BY <2>2, <3>5, <3>6
  <2>3. CASE ReceiveEvent \/ HandleQuit \/ Aside
    BY <1>2, <2>0, <2>3, ReceiveEventHeld, HandleQuitHeld, AsideHeld DEF Log!vars, Saved
  <2>4. QED
    BY <1>2, <2>1, <2>2, <2>3, StepCases DEF Log!Next
<1>3. QED
  BY <1>1, <1>2, PipelineTypeOK, LogInvAlways, PTL
     DEF Spec, RefinesEventLog, Log!Spec
-----------------------------------------------------------------------------
(***************************************************************************)
(* What the metrics tell.                                                  *)
(***************************************************************************)

\* A goroutine that goes from one stage to another changes the number of
\* events in the stage it reaches, and in no stage but these two.
LEMMA StageCount ==
  ASSUME TypeOK, NEW e \in Events, NEW from \in Stages, NEW to \in Stages,
         from # to, Step(e, from, to)
  PROVE  /\ Cardinality(InStage(to)') = Cardinality(InStage(to)) + 1
         /\ Cardinality(InStage(from)') = Cardinality(InStage(from)) - 1
         /\ \A s \in Stages \ {from, to} : InStage(s)' = InStage(s)
<1>1. /\ InStage(to)' = InStage(to) \cup {e}
      /\ e \notin InStage(to)
      /\ InStage(from)' = InStage(from) \ {e}
      /\ e \in InStage(from)
      /\ \A s \in Stages \ {from, to} : InStage(s)' = InStage(s)
  BY DEF TypeOK, Step, InStage
<1>2. IsFiniteSet(InStage(to)) /\ IsFiniteSet(InStage(from))
  BY FS_Subset, PipelineAssumption DEF InStage
<1>3. Cardinality(InStage(from) \ {e}) = Cardinality(InStage(from)) - 1
  BY <1>1, <1>2, FS_RemoveElement
<1>4. QED
  BY <1>1, <1>2, <1>3, FS_AddElement

\* The induction is about the stages alone: what is in channel, batch, table and
\* lost batch is tied to the stages by LogInv.
StagesCounted ==
  /\ Cardinality(InStage("dropped"))
       = eventErrors["parse"] + eventErrors["enqueue"]
  /\ ingested = Cardinality(InStage("enqueue")) + Cardinality(InStage("full"))
                  + eventErrors["enqueue"] + Cardinality(InStage("queued"))

LEMMA StagesCountedStep ==
  TypeOK /\ StagesCounted /\ [Next]_vars => StagesCounted'
<1> SUFFICES ASSUME TypeOK, StagesCounted, [Next]_vars
             PROVE  StagesCounted'
  OBVIOUS
<1>0. /\ eventErrors \in [ErrorKinds -> Nat]
      /\ ingested \in Nat
      /\ \A s \in Stages : Cardinality(InStage(s)) \in Nat
  <2>1. ASSUME NEW s \in Stages PROVE Cardinality(InStage(s)) \in Nat
    <3>1. IsFiniteSet(InStage(s))
      BY FS_Subset, PipelineAssumption DEF InStage
    <3>2. QED
      BY <3>1, FS_CardinalityType
  <2>2. QED
    BY <2>1 DEF TypeOK
<1>00. /\ Cardinality(InStage("queued")) \in Nat
       /\ Cardinality(InStage("enqueue")) \in Nat
       /\ Cardinality(InStage("full")) \in Nat
       /\ Cardinality(InStage("dropped")) \in Nat
       /\ eventErrors["parse"] \in Nat /\ eventErrors["enqueue"] \in Nat
  BY <1>0 DEF Stages, ErrorKinds
<1> DEFINE Unchanged(s) == InStage(s)' = InStage(s)
<1>1. ASSUME NEW e \in Events, ParseFails(e)
      PROVE  StagesCounted'
  <2>1. Step(e, "parse", "dropped")
    BY <1>1 DEF ParseFails
  <2>2. /\ Cardinality(InStage("dropped")') = Cardinality(InStage("dropped")) + 1
        /\ Unchanged("queued") /\ Unchanged("enqueue") /\ Unchanged("full")
    BY <2>1, StageCount DEF Stages
  <2>3. /\ eventErrors'["parse"] = eventErrors["parse"] + 1
        /\ eventErrors'["enqueue"] = eventErrors["enqueue"]
        /\ ingested' = ingested
    BY <1>0, <1>1 DEF ParseFails, CountError, ErrorKinds
  <2>4. QED
    BY <1>00, <2>2, <2>3 DEF StagesCounted
<1>2. ASSUME NEW e \in Events, CountIngested(e)
      PROVE  StagesCounted'
  <2>1. Step(e, "count", "enqueue")
    BY <1>2 DEF CountIngested
  <2>2. /\ Cardinality(InStage("enqueue")') = Cardinality(InStage("enqueue")) + 1
        /\ Unchanged("queued") /\ Unchanged("dropped") /\ Unchanged("full")
    BY <2>1, StageCount DEF Stages
  <2>3. eventErrors' = eventErrors /\ ingested' = ingested + 1
    BY <1>2 DEF CountIngested
  <2>4. QED
    BY <1>00, <2>2, <2>3 DEF StagesCounted
<1>3. ASSUME NEW e \in Events, QueueEvent(e)
      PROVE  StagesCounted'
  <2>1. Step(e, "enqueue", "queued")
    BY <1>3 DEF QueueEvent
  <2>2. /\ Cardinality(InStage("queued")') = Cardinality(InStage("queued")) + 1
        /\ Cardinality(InStage("enqueue")') = Cardinality(InStage("enqueue")) - 1
        /\ Unchanged("dropped") /\ Unchanged("full")
    BY <2>1, StageCount DEF Stages
  <2>3. eventErrors' = eventErrors /\ ingested' = ingested
    BY <1>3 DEF QueueEvent
  <2>4. QED
    BY <1>00, <2>2, <2>3 DEF StagesCounted
<1>4. ASSUME NEW e \in Events, QueueFull(e)
      PROVE  StagesCounted'
  <2>1. Step(e, "enqueue", "full")
    BY <1>4 DEF QueueFull
  <2>2. /\ Cardinality(InStage("full")') = Cardinality(InStage("full")) + 1
        /\ Cardinality(InStage("enqueue")') = Cardinality(InStage("enqueue")) - 1
        /\ Unchanged("dropped") /\ Unchanged("queued")
    BY <2>1, StageCount DEF Stages
  <2>3. eventErrors' = eventErrors /\ ingested' = ingested
    BY <1>4 DEF QueueFull
  <2>4. QED
    BY <1>00, <2>2, <2>3 DEF StagesCounted
<1>5. ASSUME NEW e \in Events, CountDrop(e)
      PROVE  StagesCounted'
  <2>1. Step(e, "full", "dropped")
    BY <1>5 DEF CountDrop
  <2>2. /\ Cardinality(InStage("dropped")') = Cardinality(InStage("dropped")) + 1
        /\ Cardinality(InStage("full")') = Cardinality(InStage("full")) - 1
        /\ Unchanged("enqueue") /\ Unchanged("queued")
    BY <2>1, StageCount DEF Stages
  <2>3. /\ eventErrors'["parse"] = eventErrors["parse"]
        /\ eventErrors'["enqueue"] = eventErrors["enqueue"] + 1
        /\ ingested' = ingested
    BY <1>0, <1>5 DEF CountDrop, CountError, ErrorKinds
  <2>4. Cardinality(InStage("dropped")') = eventErrors'["parse"] + eventErrors'["enqueue"]
    BY <1>00, <2>2, <2>3 DEF StagesCounted
  <2>5. ingested' = Cardinality(InStage("enqueue")') + Cardinality(InStage("full")')
                      + eventErrors'["enqueue"] + Cardinality(InStage("queued")')
    BY <1>00, <2>2, <2>3 DEF StagesCounted
  <2>6. QED
    BY <2>4, <2>5 DEF StagesCounted
<1>6. CASE \E e \in Events :
             RefuseRequest(e) \/ RecordEvent(e) \/ ParseEvent(e) \/ CreateVisitID(e)
  <2>1. /\ Unchanged("queued") /\ Unchanged("dropped")
        /\ Unchanged("enqueue") /\ Unchanged("full")
    BY <1>6, StageCount
       DEF RefuseRequest, RecordEvent, ParseEvent, CreateVisitID, Stages
  <2>2. UNCHANGED <<eventErrors, ingested>>
    BY <1>6 DEF RefuseRequest, RecordEvent, ParseEvent, CreateVisitID
  <2>3. QED
    BY <2>1, <2>2 DEF StagesCounted
<1>7. CASE Worker \/ TickerFires \/ Shutdown \/ UNCHANGED vars
  <2>1. UNCHANGED <<req, ingested>>
    BY <1>7 DEF Worker, ReceiveEvent, HandleTick, Save, SaveSucceeds,
       SaveFails, SaveUnacknowledged, CountSaveError, HandleQuit, TickerFires,
       Shutdown, vars, requestVars
  <2>2. /\ eventErrors'["parse"] = eventErrors["parse"]
        /\ eventErrors'["enqueue"] = eventErrors["enqueue"]
    BY <1>0, <1>7 DEF Worker, ReceiveEvent, HandleTick, Save, SaveSucceeds,
       SaveFails, SaveUnacknowledged, CountSaveError, HandleQuit, TickerFires,
       Shutdown, vars, ErrorKinds
  <2>3. QED
    BY <2>1, <2>2 DEF StagesCounted, InStage
<1>8. QED
  BY <1>1, <1>2, <1>3, <1>4, <1>5, <1>6, <1>7 DEF Next, Request, SaveEvent

\* Every request that was answered 202 is accounted for by the metrics at any
\* moment, between the steps of its goroutine too, for any number of requests.
THEOREM PipelineAccounting == Spec => []Accounting
<1>1. Init => StagesCounted
  <2>1. Init => /\ InStage("queued") = {} /\ InStage("dropped") = {}
                /\ InStage("enqueue") = {} /\ InStage("full") = {}
    BY DEF Init, InStage
  <2>2. Cardinality({}) = 0
    BY FS_EmptySet
  <2>3. Init => /\ eventErrors["parse"] = 0 /\ eventErrors["enqueue"] = 0
                /\ ingested = 0
    BY DEF Init, ErrorKinds
  <2>4. QED
    BY <2>1, <2>2, <2>3 DEF StagesCounted
<1>2. TypeOK /\ LogInv /\ StagesCounted => Accounting
  BY HeldType DEF LogInv, StagesCounted, Accounting
<1>3. QED
  BY <1>1, <1>2, StagesCountedStep, PipelineTypeOK, LogInvAlways, PTL DEF Spec

\* The save errors never become fewer.
LEMMA SaveErrorsStep ==
  ASSUME TypeOK, [Next]_vars
  PROVE  /\ eventErrors["save"] > 0 => eventErrors'["save"] > 0
         /\ CountSaveError => eventErrors'["save"] > 0
<1> USE PipelineAssumption DEF TypeOK, ErrorKinds, CountError
<1>1. CASE \E e \in Events : Request(e) \/ SaveEvent(e)
  BY <1>1 DEF Request, RefuseRequest, RecordEvent, SaveEvent, ParseFails,
     ParseEvent, CreateVisitID, CountIngested, QueueEvent, QueueFull, CountDrop,
     CountSaveError, workerVars
<1>2. CASE CountSaveError
  BY <1>2 DEF CountSaveError
<1>3. CASE UNCHANGED eventErrors /\ ~CountSaveError
  BY <1>3
<1>4. QED
  BY <1>1, <1>2, <1>3 DEF Next, Worker, Save, ReceiveEvent, HandleTick,
     SaveSucceeds, SaveFails, SaveUnacknowledged, HandleQuit, TickerFires,
     Shutdown, vars

\* When the worker waits for an event a full batch tells of a failed save.
THEOREM PipelineFullBatchOnlyAfterError == Spec => []FullBatchOnlyAfterError
<1>1. Init => FullBatchOnlyAfterError
  BY EmptySeq, PipelineAssumption DEF Init, FullBatchOnlyAfterError
<1>2. ASSUME TypeOK, FullBatchOnlyAfterError, [Next]_vars
      PROVE  FullBatchOnlyAfterError'
  <2>1. CASE CountSaveError
    BY <1>2, <2>1, SaveErrorsStep DEF FullBatchOnlyAfterError
  <2>2. CASE UNCHANGED toProcess /\ (worker = "select" \/ worker' # "select")
    BY <1>2, <2>2, SaveErrorsStep DEF FullBatchOnlyAfterError
  <2>3. CASE ReceiveEvent
    BY <2>3, <1>2 DEF ReceiveEvent, BatchFull, FullBatchOnlyAfterError
  <2>4. CASE SaveSucceeds
    BY <2>4, EmptySeq, PipelineAssumption DEF SaveSucceeds, FullBatchOnlyAfterError
  <2>5. CASE HandleQuit
    BY <2>5 DEF HandleQuit, FullBatchOnlyAfterError
  <2>6. QED
    BY <1>2, <2>1, <2>2, <2>3, <2>4, <2>5
       DEF Next, Request, RefuseRequest, RecordEvent, SaveEvent, ParseFails,
           ParseEvent, CreateVisitID, CountIngested, QueueEvent, QueueFull,
           CountDrop, Worker, Save, SaveFails, SaveUnacknowledged, HandleTick,
           TickerFires, Shutdown, vars, workerVars
<1>3. QED
  BY <1>1, <1>2, PipelineTypeOK, PTL DEF Spec

\* Rows written beyond the saved prefix tell of a lost answer.
RepeatsCounted ==
  Len(events) > Saved => worker = "failed" \/ eventErrors["save"] > 0

LEMMA RepeatsCountedStep ==
  TypeOK /\ LogInv /\ RepeatsCounted /\ [Next]_vars => RepeatsCounted'
<1> SUFFICES ASSUME TypeOK, LogInv, RepeatsCounted, [Next]_vars
             PROVE  RepeatsCounted'
  OBVIOUS
<1>0. /\ Len(log) \in Nat /\ Len(events) \in Nat
      /\ Len(toProcess) \in Nat /\ Len(queue) \in Nat
      /\ Unsaved \in Seq(Events) /\ log \in Seq(Events)
      /\ Len(Unsaved) \in Nat
      /\ NothingLostYet
  BY HeldType DEF TypeOK, LogInv, WorkerInv
<1>1. ASSUME NEW e \in Events, QueueEvent(e)
      PROVE  RepeatsCounted'
  <2>1. /\ Unsaved' = Append(Unsaved, e)
        /\ log' = Append(log, e)
        /\ events' = events
    BY <1>1, QueueEventHeld
  <2>2. /\ Len(Append(log, e)) = Len(log) + 1
        /\ Len(Append(Unsaved, e)) = Len(Unsaved) + 1
    BY <1>0, AppendProperties
  <2>3. Saved' = Saved
    BY <1>0, <2>1, <2>2 DEF Saved
  <2>4. worker' = worker
    BY <1>1 DEF QueueEvent, workerVars
  <2>5. QED
    BY <2>1, <2>3, <2>4, SaveErrorsStep DEF RepeatsCounted
<1>2. CASE SaveSucceeds
  <2>1. /\ Unsaved' = queue
        /\ Len(Unsaved) = Len(toProcess) + Len(queue)
        /\ Len(events') = Len(events) + Len(toProcess)
        /\ log' = log
    BY <1>0, <1>2, SaveSucceedsHeld
  <2>2. Saved' = Saved + Len(toProcess) /\ Saved \in Int
    BY <1>0, <2>1 DEF Saved
  <2>3. Len(events') > Saved' => Len(events) > Saved
    BY <1>0, <2>1, <2>2
  <2>4. worker # "failed"
    BY <1>2 DEF SaveSucceeds
  <2>5. QED
    BY <2>3, <2>4, SaveErrorsStep DEF RepeatsCounted
<1>3. CASE SaveUnacknowledged
  BY <1>3 DEF SaveUnacknowledged, RepeatsCounted
<1>4. CASE ReceiveEvent \/ HandleQuit \/ Aside
  <2>1. UNCHANGED <<Unsaved, events, log>>
    BY <1>0, <1>4, ReceiveEventHeld, HandleQuitHeld, AsideHeld
  <2>2. worker = "failed" => worker' = "failed" \/ CountSaveError
    BY <1>4 DEF Aside, Request, RefuseRequest, RecordEvent, ParseFails,
       ParseEvent, CreateVisitID, CountIngested, QueueFull, CountDrop,
       ReceiveEvent, HandleTick, SaveFails, HandleQuit, TickerFires, Shutdown,
       vars, workerVars
  <2>3. QED
    BY <2>1, <2>2, SaveErrorsStep DEF RepeatsCounted, Saved
<1>5. QED
  BY <1>1, <1>2, <1>3, <1>4, StepCases

\* An event is stored twice, or stored and still to be saved, only after an
\* error that the metrics show.
THEOREM PipelineDuplicatesOnlyAfterError == Spec => []DuplicatesOnlyAfterError
<1>1. Init => RepeatsCounted
  BY InitEmpty, EmptySeq DEF RepeatsCounted, Saved
<1>2. TypeOK /\ LogInv /\ ExactlyOnce /\ RepeatsCounted
        => DuplicatesOnlyAfterError
  <2> SUFFICES ASSUME TypeOK, LogInv, ExactlyOnce, RepeatsCounted
               PROVE  DuplicatesOnlyAfterError
    OBVIOUS
  <2>1. Len(events) >= Saved /\ Len(events) \in Nat /\ Saved \in Int
    BY HeldType DEF LogInv, RowsArePrefix, Saved
  <2>2. Len(events) = Saved \/ Len(events) > Saved
    BY <2>1
  <2>3. QED
    BY <2>2 DEF ExactlyOnce, RepeatsCounted, DuplicatesOnlyAfterError, All
<1>3. QED
  BY <1>1, <1>2, RepeatsCountedStep, PipelineTypeOK, LogInvAlways,
     PipelineExactlyOnce, PTL DEF Spec
=============================================================================
