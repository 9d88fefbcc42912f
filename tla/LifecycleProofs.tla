-------------------------- MODULE LifecycleProofs ---------------------------
(***************************************************************************)
(* The safety of start and shutdown, for any number of attempts, requests  *)
(* and signals.  StepsInOrder with TypeOK is the inductive invariant for   *)
(* RequestsServedFirst and GracefulExit, which do not say where the        *)
(* goroutines are; SchemaFirst is added to it, because the goroutines that *)
(* Run has started remain when main has ended.                             *)
(*                                                                         *)
(* The counters are dealt with first, so that the proof of an action needs *)
(* no arithmetic.                                                          *)
(*                                                                         *)
(* WaitInv says for how long the failed attempts have slept at each moment *)
(* of the start, in powers of two that wrap around in the code.  The       *)
(* library knows nothing of powers but the size of a set of subsets, and   *)
(* that is all the proof needs.                                            *)
(***************************************************************************)
EXTENDS Lifecycle, FiniteSetTheorems, TLAPS

Inv == TypeOK /\ StepsInOrder /\ SchemaFirst

\* The actions that count something.
Counting ==
  \/ SignalKills \/ Signal \/ ReceiveSignal \/ DeferredShutdown
  \/ AcquireSucceeds \/ AcquireFails \/ BackoffOver \/ RequestArrives
  \/ RequestAnswered

counters == <<tries, slept, sent, quit, inFlight>>

LEMMA OthersDoNotCount ==
  [Next]_vars => Counting \/ UNCHANGED counters
BY Zenon DEF Counting, counters, vars, startVars, mainVars, apiVars, Next,
   Start, Migration, Main, Stopper, Load, StartStep, AcceptConfig,
   RejectConfig, Migrate, MigrateFails, Construct, ConstructFails,
   ConstructPanics, Run, AdminFails,
   Panic, WorkerPanics, PrunerPanics, TimeoutExpires, ShutdownCompleted,
   ShutdownTimedOut, WorkerStarts, StopListening, ApiStops, StopWorker,
   PoolCloseStarts, PoolCloses, ApiStarts, ApiStartFails, SaveStarts, AcquireConn, ReleaseConn, SaveEnds,
   HandleQuit

\* The retries of setupDB end at the attempt of the configuration.
LEMMA TriesStep ==
  TypeOK /\ StartOrder /\ AcquireFails
    => tries' \in 0..(PgConnAttempts + 1) /\ UNCHANGED <<slept, sent, quit, inFlight>>
<1> SUFFICES ASSUME TypeOK, StartOrder, AcquireFails
             PROVE  /\ tries' \in 0..(PgConnAttempts + 1)
                    /\ UNCHANGED <<slept, sent, quit, inFlight>>
  OBVIOUS
<1>1. main = "connect" /\ tries' = tries + 1 /\ UNCHANGED <<slept, sent, quit, inFlight>>
  BY Zenon DEF AcquireFails, StartStep
<1>2. tries <= PgConnAttempts
  BY <1>1, Zenon DEF StartOrder
<1>3. tries \in 0..(PgConnAttempts + 1)
  BY Zenon DEF TypeOK, CountersOK
<1>4. QED
  BY <1>1, <1>2, <1>3, LifecycleAssumption

\* 2^n is the number of subsets of 1..n, and 1..m has no fewer.
LEMMA TwoPowers ==
  ASSUME NEW n \in Nat, NEW m \in Nat, n <= m
  PROVE  2^n \in Nat /\ 2^n <= 2^m
<1>1. \A k \in Nat : /\ IsFiniteSet(SUBSET (1..k)) /\ Cardinality(SUBSET (1..k)) = 2^k
                     /\ 2^k \in Nat
  <2> SUFFICES ASSUME NEW k \in Nat
               PROVE  /\ IsFiniteSet(SUBSET (1..k)) /\ Cardinality(SUBSET (1..k)) = 2^k
                      /\ 2^k \in Nat
    OBVIOUS
  <2>1. IsFiniteSet(1..k) /\ Cardinality(1..k) = k
    BY FS_Interval
  <2>2. IsFiniteSet(SUBSET (1..k)) /\ Cardinality(SUBSET (1..k)) = 2^k
    BY <2>1, FS_SUBSET
  <2>3. QED
    BY <2>2, FS_CardinalityType
<1>2. SUBSET (1..n) \subseteq SUBSET (1..m)
  OBVIOUS
<1>3. Cardinality(SUBSET (1..n)) <= Cardinality(SUBSET (1..m))
  BY <1>1, <1>2, FS_Subset
<1>4. QED
  BY <1>1, <1>3

\* A delay is a number of units, also when it wrapped around.
LEMMA DelaysNat ==
  ASSUME NEW attempt \in Nat, NEW delay \in Delays(attempt)
  PROVE  delay \in Nat
<1>1. \A d \in Nat : Jittered(d) \subseteq Nat
  BY DEF Jittered
<1>2. CASE attempt = 0
  <2>1. Delays(attempt) \subseteq Nat
    BY <1>1, <1>2, LifecycleAssumption DEF Delays, MaxDelay
  <2>2. QED
    BY <2>1
<1>3. CASE attempt # 0
  <2>1. PICK p : p = 2^(attempt - 1)
    OBVIOUS
  <2>2. p \in Nat
    <3>1. attempt - 1 \in Nat
      BY <1>3
    <3>2. QED
      BY <2>1, <3>1, TwoPowers
  <2>3. Delays(attempt) = IF p > MaxDuration THEN 0..(21 * 10)
                          ELSE Jittered(IF p > 10 THEN 10 ELSE p)
    BY Zenon, <1>3, <2>1 DEF Delays, MaxDelay
  <2>4. Delays(attempt) \subseteq Nat
    BY <1>1, <2>2, <2>3
  <2>5. QED
    BY <2>4
<1>4. QED
  BY <1>2, <1>3

LEMMA CountersStep == TypeOK /\ StartOrder /\ [Next]_vars => CountersOK'
<1> SUFFICES ASSUME TypeOK, StartOrder, [Next]_vars
             PROVE  CountersOK'
  OBVIOUS
<1>0. CountersOK
  BY Zenon DEF TypeOK
<1>1. CASE SignalKills
  <2>1. sent < MaxSignals /\ sent' = sent + 1 /\ UNCHANGED <<tries, slept, quit, inFlight>>
    BY <1>1, Zenon DEF SignalKills, startVars, apiVars
  <2>2. QED
    BY <1>0, <2>1, LifecycleAssumption DEF CountersOK
<1>2. CASE Signal
  <2>1. /\ sent < MaxSignals /\ sent' = sent + 1 /\ quit' = 1
        /\ UNCHANGED <<tries, slept, inFlight>>
    BY <1>2, Zenon DEF Signal, startVars, apiVars
  <2>2. QED
    BY <1>0, <2>1, LifecycleAssumption DEF CountersOK
<1>3. CASE ReceiveSignal \/ DeferredShutdown
  <2>1. quit' \in {0, 1} /\ UNCHANGED <<tries, slept, sent, inFlight>>
    BY <1>3, Zenon DEF ReceiveSignal, DeferredShutdown, startVars, apiVars
  <2>2. QED
    BY <1>0, <2>1 DEF CountersOK
<1>4. CASE AcquireSucceeds \/ AcquireFails
  <2>1. CASE AcquireSucceeds
    <3>1. tries' = 0 /\ slept' = 0 /\ UNCHANGED <<sent, quit, inFlight>>
      BY Zenon, <2>1 DEF AcquireSucceeds, StartStep
    <3>2. QED
      BY <1>0, <3>1, LifecycleAssumption DEF CountersOK
  <2>2. CASE AcquireFails
    BY <1>0, <2>2, TriesStep DEF CountersOK
  <2>3. QED
    BY <1>4, <2>1, <2>2
<1>5. CASE RequestArrives
  <2>1. inFlight < MaxRequests /\ inFlight' = inFlight + 1
        /\ UNCHANGED <<tries, slept, sent, quit>>
    BY <1>5, Zenon DEF RequestArrives, mainVars
  <2>2. QED
    BY <1>0, <2>1, LifecycleAssumption DEF CountersOK
<1>6. CASE RequestAnswered
  <2>1. inFlight > 0 /\ inFlight' = inFlight - 1 /\ UNCHANGED <<tries, slept, sent, quit>>
    BY <1>6, Zenon DEF RequestAnswered, mainVars
  <2>2. QED
    BY <1>0, <2>1, LifecycleAssumption DEF CountersOK
<1>7. CASE BackoffOver
  <2>1. PICK delay \in Delays(tries - 1) : slept' = slept + delay
    BY <1>7 DEF BackoffOver
  <2>0. tries - 1 \in Nat
    BY <1>0, <1>7 DEF BackoffOver, StartStep, StartOrder, CountersOK
  <2>2. slept' \in Nat
    BY <1>0, <2>0, <2>1, DelaysNat DEF CountersOK
  <2>3. UNCHANGED <<tries, sent, quit, inFlight>>
    BY <1>7, Zenon DEF BackoffOver, StartStep
  <2>4. QED
    BY <1>0, <2>2, <2>3 DEF CountersOK
<1>8. CASE UNCHANGED counters
  BY <1>0, <1>8 DEF CountersOK, counters
<1>9. QED
  BY <1>1, <1>2, <1>3, <1>4, <1>5, <1>6, <1>7, <1>8, OthersDoNotCount DEF Counting

\* An attempt that fails and is not the last leaves one to be made.
LEMMA AnotherTry ==
  TypeOK /\ AcquireFails /\ main' = "backoff"
    => tries' <= PgConnAttempts /\ tries' > 0
<1> SUFFICES ASSUME TypeOK, AcquireFails, main' = "backoff"
             PROVE  tries' <= PgConnAttempts /\ tries' > 0
  OBVIOUS
<1>1. ~(tries >= PgConnAttempts) /\ tries' = tries + 1
  BY Zenon DEF AcquireFails, StartStep
<1>2. tries \in 0..(PgConnAttempts + 1)
  BY Zenon DEF TypeOK, CountersOK
<1>3. QED
  BY <1>1, <1>2, LifecycleAssumption

LEMMA FirstTry == Init => tries <= PgConnAttempts
BY LifecycleAssumption DEF Init

LEMMA AnsweredInFlight == TypeOK /\ RequestAnswered => inFlight # 0
BY LifecycleAssumption DEF TypeOK, CountersOK, RequestAnswered

LEMMA InvInit == Init => Inv
<1>1. Init => CountersOK
  BY LifecycleAssumption DEF Init, CountersOK
<1>2. Init => StatesOK /\ StartOrder /\ StopOrder /\ SchemaFirst
  BY Zenon, FirstTry DEF Init, StatesOK, StartOrder, StopOrder, SchemaFirst, Starting, Running, Ended
<1>3. QED
  BY <1>1, <1>2 DEF Inv, TypeOK, StepsInOrder

LEMMA StutterParts ==
  UNCHANGED vars =>
    /\ main' = main /\ schema' = schema /\ stopper' = stopper
    /\ expired' = expired /\ api' = api /\ inFlight' = inFlight
    /\ workerQuit' = workerQuit /\ worker' = worker /\ conn' = conn
    /\ pool' = pool /\ tries' = tries /\ source' = source
BY Zenon DEF vars

LEMMA StutterStates == StatesOK /\ UNCHANGED vars => StatesOK'
BY DEF StatesOK, vars, Starting, Running, Ended

LEMMA InvStep == Inv /\ [Next]_vars => Inv'
<1> SUFFICES ASSUME Inv, [Next]_vars
             PROVE  Inv'
  OBVIOUS
<1>0. CountersOK'
  BY CountersStep DEF Inv, StepsInOrder
<1> USE DEF Inv, TypeOK, StatesOK, StepsInOrder, StartOrder, StopOrder,
        SchemaFirst, Starting, Running, Ended, Exited, StartStep, startVars, mainVars,
        apiVars, workerVars
<1>1. CASE SignalKills
  BY Zenon, <1>0, <1>1 DEF SignalKills
<1>2. CASE Signal
  <2>1. StatesOK'
    BY Zenon, <1>2 DEF Signal
  <2>2. StartOrder' /\ SchemaFirst'
    BY Zenon, <1>2 DEF Signal
  <2>3. StopOrder'
    BY Zenon, <1>2 DEF Signal
  <2>4. QED
    BY Zenon, <1>0, <2>1, <2>2, <2>3
<1>3. CASE AdminFails
  <2>1. StatesOK'
    BY Zenon, <1>3 DEF AdminFails
  <2>2. StartOrder' /\ SchemaFirst'
    BY Zenon, <1>3 DEF AdminFails
  <2>3. StopOrder'
    BY Zenon, <1>3 DEF AdminFails
  <2>4. QED
    BY Zenon, <1>0, <2>1, <2>2, <2>3
<1>4. CASE TimeoutExpires
  <2>1. StatesOK'
    BY Zenon, <1>4 DEF TimeoutExpires
  <2>2. StartOrder' /\ SchemaFirst'
    BY Zenon, <1>4 DEF TimeoutExpires
  <2>3. StopOrder'
    BY Zenon, <1>4 DEF TimeoutExpires
  <2>4. QED
    BY Zenon, <1>0, <2>1, <2>2, <2>3
<1>5. CASE Start
  <2>1. CASE AcceptConfig
    BY Zenon, <1>0, <2>1 DEF AcceptConfig
  <2>2. CASE AcquireSucceeds
    BY Zenon, <1>0, <2>2 DEF AcquireSucceeds
  <2>3. CASE AcquireFails
    BY Zenon, <1>0, <2>3, AnotherTry DEF AcquireFails
  <2>4. CASE BackoffOver
    BY Zenon, <1>0, <2>4 DEF BackoffOver
  <2>5. CASE Construct
    BY Zenon, <1>0, <2>5 DEF Construct
  <2>6. CASE RejectConfig \/ ConstructFails \/ ConstructPanics
    <3>1. main \in Starting /\ main' \in {"exit 1", "exit 2"}
      BY Zenon, <2>6 DEF RejectConfig, ConstructFails, ConstructPanics
    <3>2. UNCHANGED <<startVars, stopper, expired, api, inFlight, workerQuit,
                      worker, conn, pool>>
      BY Zenon, <2>6 DEF RejectConfig, ConstructFails, ConstructPanics
    <3>3. QED
      BY Zenon, <1>0, <3>1, <3>2
  <2>7. CASE Run
    BY Zenon, <1>0, <2>7 DEF Run
  <2>8. QED
    BY <1>5, <2>1, <2>2, <2>3, <2>4, <2>5, <2>6, <2>7 DEF Start
<1>6. CASE Main
  <2>1. CASE ReceiveSignal
    BY Zenon, <1>0, <2>1 DEF ReceiveSignal
  <2>2. CASE ShutdownCompleted
    BY Zenon, <1>0, <2>2 DEF ShutdownCompleted
  <2>3. CASE ShutdownTimedOut
    BY Zenon, <1>0, <2>3 DEF ShutdownTimedOut
  <2>4. CASE DeferredShutdown
    BY Zenon, <1>0, <2>4 DEF DeferredShutdown
  <2>5. QED
    BY <1>6, <2>1, <2>2, <2>3, <2>4 DEF Main
<1>7. CASE Stopper
  <2>1. CASE StopListening
    BY Zenon, <1>0, <2>1 DEF StopListening
  <2>2. CASE ApiStops
    BY Zenon, <1>0, <2>2 DEF ApiStops
  <2>3. CASE StopWorker
    BY Zenon, <1>0, <2>3 DEF StopWorker
  <2>4. CASE PoolCloseStarts
    BY Zenon, <1>0, <2>4 DEF PoolCloseStarts
  <2>5. CASE PoolCloses
    BY Zenon, <1>0, <2>5 DEF PoolCloses
  <2>6. QED
    BY <1>7, <2>1, <2>2, <2>3, <2>4, <2>5 DEF Stopper
<1>8. CASE Load
  <2>1. CASE ApiStarts
    BY Zenon, <1>0, <2>1 DEF ApiStarts
  <2>2. CASE ApiStartFails
    BY Zenon, <1>0, <2>2 DEF ApiStartFails
  <2>3. CASE RequestArrives
    BY Zenon, <1>0, <2>3 DEF RequestArrives
  <2>4. CASE RequestAnswered
    <3>1. StatesOK'
      BY Zenon, <2>4, AnsweredInFlight DEF RequestAnswered
    <3>2. StartOrder' /\ SchemaFirst'
      BY Zenon, <2>4, AnsweredInFlight DEF RequestAnswered
    <3>3. StopOrder'
      BY Zenon, <2>4, AnsweredInFlight DEF RequestAnswered
    <3>4. QED
      BY Zenon, <1>0, <3>1, <3>2, <3>3
  <2>5. CASE SaveStarts
    BY Zenon, <1>0, <2>5 DEF SaveStarts
  <2>6. CASE AcquireConn
    BY Zenon, <1>0, <2>6 DEF AcquireConn
  <2>7. CASE ReleaseConn
    BY Zenon, <1>0, <2>7 DEF ReleaseConn
  <2>8. CASE SaveEnds
    BY Zenon, <1>0, <2>8 DEF SaveEnds
  <2>9. CASE HandleQuit
    BY Zenon, <1>0, <2>9 DEF HandleQuit
  <2>10. CASE WorkerStarts
    BY Zenon, <1>0, <2>10 DEF WorkerStarts
  <2>11. QED
    BY <1>8, <2>1, <2>2, <2>3, <2>4, <2>5, <2>6, <2>7, <2>8, <2>9, <2>10
       DEF Load
<1>9. CASE UNCHANGED vars
  <2>0. /\ main' = main /\ schema' = schema /\ stopper' = stopper
        /\ expired' = expired /\ api' = api /\ inFlight' = inFlight
        /\ workerQuit' = workerQuit /\ worker' = worker /\ conn' = conn
        /\ pool' = pool /\ tries' = tries /\ source' = source
    BY Zenon, <1>9, StutterParts
  <2>1. StatesOK'
    BY Zenon, <1>9, StutterStates
  <2>2. StartOrder' /\ SchemaFirst'
    BY Zenon, <2>0
  <2>3. StopOrder'
    BY Zenon, <2>0
  <2>4. QED
    BY Zenon, <1>0, <2>1, <2>2, <2>3
<1>10. CASE WorkerPanics \/ PrunerPanics
  <2>1. Panic
    BY <1>10 DEF WorkerPanics, PrunerPanics
  <2>2. StatesOK'
    BY Zenon, <2>1 DEF Panic
  <2>3. StartOrder' /\ SchemaFirst'
    BY Zenon, <2>1 DEF Panic
  <2>4. StopOrder'
    BY Zenon, <2>1 DEF Panic
  <2>5. QED
    BY Zenon, <1>0, <2>2, <2>3, <2>4
<1>11. CASE Migration
  <2>1. CASE Migrate
    BY Zenon, <1>0, <2>1 DEF Migrate
  <2>2. CASE MigrateFails
    BY Zenon, <1>0, <2>2 DEF MigrateFails
  <2>3. QED
    BY <1>11, <2>1, <2>2 DEF Migration
<1>12. QED
  BY <1>1, <1>2, <1>3, <1>4, <1>5, <1>6, <1>7, <1>8, <1>9, <1>10, <1>11 DEF Next

LEMMA InvAlways == Spec => []Inv
BY InvInit, InvStep, PTL DEF Spec

\* The types of the variables, whatever is configured.
THEOREM LifecycleTypeOK == Spec => []TypeOK
BY InvAlways, PTL DEF Inv

\* Start and shutdown take their steps in their order.
THEOREM LifecycleStepsInOrder == Spec => [](TypeOK /\ StepsInOrder)
BY InvAlways, PTL DEF Inv

\* No request is taken and no event saved before the migrations.
THEOREM LifecycleSchemaFirst == Spec => []SchemaFirst
BY InvAlways, PTL DEF Inv

\* Within the two seconds, requests in flight keep worker and pool.
THEOREM LifecycleRequestsServedFirst == Spec => []RequestsServedFirst
<1>1. TypeOK /\ StepsInOrder => RequestsServedFirst
  BY DEF TypeOK, StatesOK, StepsInOrder, StopOrder, RequestsServedFirst
<1>2. QED
  BY <1>1, LifecycleStepsInOrder, PTL

\* Exit status 0 means that no statement was cut off.
THEOREM LifecycleGracefulExit == Spec => []GracefulExit
<1>1. TypeOK /\ StepsInOrder => GracefulExit
  BY DEF TypeOK, StatesOK, StepsInOrder, StopOrder, GracefulExit
<1>2. QED
  BY <1>1, LifecycleStepsInOrder, PTL

-----------------------------------------------------------------------------
(***************************************************************************)
(* The pauses between the attempts to connect.                             *)
(***************************************************************************)
\* An attempt whose delay does not wrap around adds to the pauses what it is
\* worth.
LEMMA PausesNext ==
  ASSUME NEW m \in Nat \ {0}, 2^(m - 1) <= MaxDuration, NEW delay \in Delays(m)
  PROVE  19 * Pauses(m + 1) <= 19 * Pauses(m) + delay
<1>1. PICK p : p = 2^(m - 1)
  OBVIOUS
<1>2. /\ m - 1 \in Nat /\ m # 0 /\ m \in Nat
      /\ m >= 5 => 4 <= m - 1
      /\ m + 1 \in Nat /\ (m <= 4 \/ m >= 5)
  OBVIOUS
<1>3. p \in Nat /\ p <= MaxDuration /\ MaxDuration \in Nat
  <2>1. 2^(m - 1) \in Nat
    BY <1>2, TwoPowers
  <2>2. QED
    BY Zenon, <1>1, <2>1, LifecycleAssumption
<1>4. /\ delay \in Nat
      /\ p <= 10 => delay >= 19 * p
      /\ p > 10 => delay >= 190
  <2>1. Delays(m) = Jittered(IF p > 10 THEN 10 ELSE p)
    <3>1. ~(p > MaxDuration)
      BY <1>3
    <3>2. QED
      BY Zenon, <1>1, <1>2, <3>1 DEF Delays, MaxDelay
  <2>2. delay \in (19 * (IF p > 10 THEN 10 ELSE p))..(21 * (IF p > 10 THEN 10 ELSE p))
    BY Zenon, <2>1 DEF Jittered
  <2>3. QED
    BY <1>3, <2>2
<1>5. CASE m <= 4
  <2>1. m \in {1, 2, 3, 4}
    BY <1>5, <1>2
  <2>2. CASE m = 1
    <3>1. p = 1 /\ Pauses(1) = 0 /\ Pauses(2) = 1
      BY <1>1, <2>2 DEF Pauses
    <3>2. QED
      BY <1>4, <2>2, <3>1
  <2>3. CASE m = 2
    <3>1. p = 2 /\ Pauses(2) = 1 /\ Pauses(3) = 3
      BY <1>1, <2>3 DEF Pauses
    <3>2. QED
      BY <1>4, <2>3, <3>1
  <2>4. CASE m = 3
    <3>1. p = 4 /\ Pauses(3) = 3 /\ Pauses(4) = 7
      BY <1>1, <2>4 DEF Pauses
    <3>2. QED
      BY <1>4, <2>4, <3>1
  <2>5. CASE m = 4
    <3>1. p = 8 /\ Pauses(4) = 7 /\ Pauses(5) = 15
      BY <1>1, <2>5 DEF Pauses
    <3>2. QED
      BY <1>4, <2>5, <3>1
  <2>6. QED
    BY <2>1, <2>2, <2>3, <2>4, <2>5
<1>6. CASE m >= 5
  <2>1. 2^4 <= p
    <3>1. 4 \in Nat /\ 4 <= m - 1
      BY <1>2, <1>6
    <3>2. 2^4 <= 2^(m - 1)
      BY Zenon, <1>2, <3>1, TwoPowers
    <3>3. QED
      BY Zenon, <1>1, <3>2
  <2>2. delay >= 190
    <3>1. 2^4 = 16
      OBVIOUS
    <3>2. 16 <= p
      BY Zenon, <2>1, <3>1
    <3>3. QED
      BY <1>3, <1>4, <3>2
  <2>3. m + 1 # 0 /\ ~(m + 1 <= 5) /\ m # 0
    BY <1>2, <1>6
  <2>4. Pauses(m + 1) = 15 + 10 * (m + 1 - 5)
    <3>1. PICK i : i = m + 1
      OBVIOUS
    <3>2. i # 0 /\ ~(i <= 5)
      BY Zenon, <2>3, <3>1
    <3>3. Pauses(i) = 15 + 10 * (i - 5)
      BY Zenon, <3>2 DEF Pauses
    <3>4. QED
      BY <3>1, <3>3
  <2>5. Pauses(m) = 15 + 10 * (m - 5)
    <3>1. CASE m = 5
      BY <3>1 DEF Pauses
    <3>2. CASE m # 5
      <4>1. ~(m <= 5)
        BY <1>2, <1>6, <3>2
      <4>2. QED
        BY Zenon, <4>1, <2>3 DEF Pauses
    <3>3. QED
      BY <3>1, <3>2
  <2>6. PICK a, b : a = Pauses(m) /\ b = Pauses(m + 1)
    OBVIOUS
  <2>7. b = a + 10
    BY <1>2, <2>4, <2>5, <2>6
  <2>8. a \in Nat
    BY <1>2, <1>6, <2>5, <2>6
  <2>9. 19 * b <= 19 * a + delay
    BY <1>4, <2>2, <2>7, <2>8
  <2>10. QED
    BY <2>6, <2>9
<1>7. QED
  BY <1>2, <1>5, <1>6

\* What was slept after m failed attempts, in units of 50 ms.
Waited(m) ==
  \A n \in 0..m : n < 2 \/ 2^(n - 2) <= MaxDuration => slept >= 19 * Pauses(n)

\* The attempts that failed are those that were slept for, but the last one
\* once there was another.
WaitInv ==
  /\ main = "config" => tries = 0
  /\ main = "connect" => Waited(tries)
  /\ main # "connect" => Waited(tries - 1)

\* The delay of attempt m.
LEMMA WaitedNext ==
  ASSUME TypeOK, NEW m \in Nat, Waited(m), NEW delay \in Delays(m),
         slept' = slept + delay
  PROVE  Waited(m + 1)'
<1>1. slept \in Nat /\ delay \in Nat /\ slept' >= slept /\ slept' \in Nat
  BY DelaysNat DEF TypeOK, CountersOK
<1>2. \A n \in Nat : Pauses(n) \in Int
  <2> SUFFICES ASSUME NEW n \in Nat PROVE Pauses(n) \in Int
    OBVIOUS
  <2>1. n # 0 => 2^(n - 1) \in Nat
    BY TwoPowers
  <2>2. QED
    BY <2>1 DEF Pauses
<1>3. ASSUME NEW n \in 0..m + 1, n < 2 \/ 2^(n - 2) <= MaxDuration
      PROVE  slept' >= 19 * Pauses(n)
  <2>1. CASE n \in 0..m
    BY <1>1, <1>2, <1>3, <2>1 DEF Waited
  <2>2. CASE n = m + 1 /\ m = 0
    <3>1. Pauses(n) = 0
      <4>1. n = 1 /\ 2^(1 - 1) = 1
        BY <2>2
      <4>2. QED
        BY <4>1 DEF Pauses
    <3>2. QED
      BY <1>1, <3>1
  <2>3. CASE n = m + 1 /\ m # 0
    <3>1. 2^(m - 1) <= MaxDuration
      BY <1>3, <2>3
    <3>2. m < 2 \/ 2^(m - 2) <= MaxDuration
      <4>1. m >= 2 => 2^(m - 2) <= 2^(m - 1) /\ 2^(m - 2) \in Nat /\ 2^(m - 1) \in Nat
        BY TwoPowers
      <4>2. QED
        BY <3>1, <4>1, LifecycleAssumption
    <3>3. slept >= 19 * Pauses(m)
      BY <3>2 DEF Waited
    <3>4. 19 * Pauses(m + 1) <= 19 * Pauses(m) + delay
      BY <2>3, <3>1, PausesNext
    <3>5. QED
      BY <1>1, <1>2, <2>3, <3>3, <3>4
  <2>4. QED
    BY <2>1, <2>2, <2>3
<1>4. QED
  BY <1>3 DEF Waited

\* Only the backoff leads back to another attempt, and nothing but the attempts
\* is counted or slept for.
LEMMA OtherSteps ==
  ASSUME [Next]_vars, ~AcceptConfig, ~AcquireSucceeds, ~AcquireFails, ~BackoffOver
  PROVE  /\ UNCHANGED <<tries, slept>>
         /\ main' \in {"config", "connect"} => main' = main
<1>1. CASE Start
  BY Zenon, <1>1 DEF Start, RejectConfig, Construct,
     ConstructFails, ConstructPanics, Run, StartStep, startVars
<1>2. CASE Main
  BY Zenon, <1>2 DEF Main, ReceiveSignal, ShutdownCompleted, ShutdownTimedOut,
     DeferredShutdown, startVars
<1>3. CASE Stopper
  BY Zenon, <1>3 DEF Stopper, StopListening, ApiStops, StopWorker,
     PoolCloseStarts, PoolCloses, mainVars
<1>4. CASE Load
  BY Zenon, <1>4 DEF Load, ApiStarts, ApiStartFails, RequestArrives,
     RequestAnswered, WorkerStarts, SaveStarts, AcquireConn, ReleaseConn,
     SaveEnds, HandleQuit, mainVars
<1>5. CASE SignalKills \/ Signal \/ AdminFails \/ WorkerPanics \/ PrunerPanics
             \/ TimeoutExpires
  BY Zenon, <1>5 DEF SignalKills, Signal, AdminFails, Panic, WorkerPanics,
     PrunerPanics, TimeoutExpires, startVars
<1>6. CASE UNCHANGED vars
  BY Zenon, <1>6 DEF vars
<1>7. CASE Migration
  BY Zenon, <1>7 DEF Migration, Migrate, MigrateFails, StartStep, startVars
<1>8. QED
  BY <1>1, <1>2, <1>3, <1>4, <1>5, <1>6, <1>7 DEF Next

\* Every step keeps what the attempts were slept for.
LEMMA WaitStep ==
  ASSUME Inv, WaitInv, [Next]_vars
  PROVE  WaitInv'
<1>1. TypeOK /\ tries \in Nat /\ (main = "backoff" => tries > 0)
  BY LifecycleAssumption DEF Inv, TypeOK, CountersOK, StepsInOrder, StartOrder
<1>2. CASE AcceptConfig
  <2>1. main' = "connect" /\ tries = 0 /\ tries' = 0 /\ slept' = slept
    BY <1>2 DEF AcceptConfig, StartStep, startVars, WaitInv
  <2>2. slept \in Nat
    BY <1>1 DEF TypeOK, CountersOK
  <2>3. Pauses(0) = 0
    BY DEF Pauses
  <2>4. \A n \in 0..0 : n < 2 \/ 2^(n - 2) <= MaxDuration => slept >= 19 * Pauses(n)
    BY <2>2, <2>3
  <2>5. QED
    BY <2>1, <2>4 DEF WaitInv, Waited
<1>3. CASE AcquireSucceeds \/ AcquireFails
  <2>1. CASE AcquireSucceeds
    <3>1. main' \notin {"config", "connect"} /\ tries' = 0
      BY <2>1 DEF AcquireSucceeds, StartStep
    <3>2. 0..(tries' - 1) = {}
      BY <3>1
    <3>3. QED
      BY Zenon, <3>1, <3>2 DEF WaitInv, Waited
  <2>2. CASE AcquireFails
    <3>1. /\ main = "connect" /\ main' \notin {"config", "connect"}
          /\ tries' = tries + 1 /\ slept' = slept
      BY <2>2 DEF AcquireFails, StartStep
    <3>2. tries' - 1 = tries
      BY <1>1, <3>1
    <3>3. QED
      BY Zenon, <3>1, <3>2 DEF WaitInv, Waited
  <2>3. QED
    BY <1>3, <2>1, <2>2
<1>4. CASE BackoffOver
  <2>1. main = "backoff" /\ main' = "connect" /\ tries' = tries
    BY <1>4 DEF BackoffOver, StartStep
  <2>2. PICK delay \in Delays(tries - 1) : slept' = slept + delay
    BY <1>4 DEF BackoffOver
  <2>3. tries - 1 \in Nat /\ tries - 1 + 1 = tries
    BY <1>1, <2>1
  <2>4. Waited(tries - 1)
    BY <2>1 DEF WaitInv
  <2>5. Waited(tries - 1 + 1)'
    <3>1. PICK m : m = tries - 1
      OBVIOUS
    <3>2. m \in Nat /\ Waited(m) /\ delay \in Delays(m)
      BY Zenon, <2>2, <2>3, <2>4, <3>1
    <3>3. Waited(m + 1)'
      BY Zenon, <1>1, <2>2, <3>2, WaitedNext
    <3>4. m + 1 = tries
      BY Zenon, <2>3, <3>1
    <3>5. QED
      BY Zenon, <2>1, <2>3, <3>3, <3>4 DEF Waited
  <2>6. QED
    BY Zenon, <2>1, <2>3, <2>5 DEF WaitInv, Waited
<1>5. CASE ~AcceptConfig /\ ~AcquireSucceeds /\ ~AcquireFails /\ ~BackoffOver
  <2>1. /\ tries' = tries /\ slept' = slept
        /\ main' \in {"config", "connect"} => main' = main
    BY Zenon, <1>5, OtherSteps
  <2>2. \A n \in 0..(tries - 1) : n \in 0..tries
    BY <1>1
  <2>3. Waited(tries) => Waited(tries - 1)
    BY Zenon, <2>2 DEF Waited
  <2>4. Waited(tries - 1) \/ main = "connect"
    BY Zenon, <2>3 DEF WaitInv
  <2>5. QED
    BY Zenon, <2>1, <2>3, <2>4 DEF WaitInv, Waited
<1>6. QED
  BY <1>2, <1>3, <1>4, <1>5

\* A process gives up on the database only when it has waited: with the default
\* of 5 attempts, for 15 seconds less the 5 per cent of the jitter.
THEOREM LifecycleGivesUpLate == Spec => []GivesUpLate
<1>1. Init => WaitInv
  <2> SUFFICES ASSUME Init PROVE WaitInv
    OBVIOUS
  <2>1. main = "config" /\ tries = 0
    BY DEF Init
  <2>2. QED
    BY <2>1 DEF WaitInv, Waited
<1>2. Inv /\ WaitInv /\ [Next]_vars => WaitInv'
  BY WaitStep
<1>3. ASSUME Inv, tries > PgConnAttempts
      PROVE  \A n \in 0..PgConnAttempts : n \in 0..(tries - 1)
  BY <1>3, LifecycleAssumption DEF Inv, TypeOK, CountersOK
<1>4. Inv /\ WaitInv => GivesUpLate
  <2> SUFFICES ASSUME Inv, WaitInv, main = "exit 1", tries > PgConnAttempts,
                      NEW n \in 0..PgConnAttempts,
                      n >= 2, 2^(n - 2) <= MaxDuration
               PROVE  slept >= 19 * Pauses(n)
    BY DEF GivesUpLate
  <2>1. n \in 0..(tries - 1)
    BY Zenon, <1>3
  <2>2. Waited(tries - 1)
    BY Zenon DEF WaitInv
  <2>3. QED
    BY Zenon, <2>1, <2>2 DEF Waited
<1>5. QED
  BY <1>1, <1>2, <1>4, InvAlways, PTL DEF Spec
=============================================================================
