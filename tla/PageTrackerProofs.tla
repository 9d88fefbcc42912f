------------------------- MODULE PageTrackerProofs --------------------------
(***************************************************************************)
(* The tracker script, for any pages, interval, rate limit and bounds.     *)
(*                                                                         *)
(* QuietInv ties the silence of a page to its timer: as long as no beacon  *)
(* of the page is on its way, the seconds of silence and the seconds until *)
(* the interval fires fill no more than the intervals that the misses      *)
(* account for.  ViewInv says where the first view of a page is that the   *)
(* server has not heard of.                                                *)
(***************************************************************************)
EXTENDS PageTracker, TLAPS

\* The names of the default configuration that tell that a page is seen.
VisitsReported == {"load", "visible", "ping"} \subseteq ValidEventNames

Beacons == [page : Pages, name : Names]

Beacon(p, name) == [page |-> p, name |-> name]

LEMMA Constants ==
  /\ PingInterval \in Nat /\ PingInterval > 0
  /\ RequestRateLimit \in Nat /\ MaxActions \in Nat
  /\ MaxLost \in Nat /\ MaxMisses \in Nat
  /\ ValidEventNames \subseteq Names
  /\ MaxSilence \in Nat
<1>1. PingInterval \in Nat /\ PingInterval > 0 /\ MaxMisses \in Nat
  BY PageAssumption
<1>2. PingInterval * (1 + MaxMisses) \in Nat
  BY <1>1
<1>3. QED
  BY <1>2, PageAssumption DEF MaxSilence

\* One more of x.
LEMMA BagAddIs ==
  ASSUME NEW B, IsABag(B), NEW x
  PROVE  /\ IsABag(BagAdd(B, x))
         /\ BagToSet(BagAdd(B, x)) = BagToSet(B) \cup {x}
BY DEF BagAdd, IsABag, BagToSet

\* One less: x may still be in the bag.
LEMMA BagRemoveIs ==
  ASSUME NEW B, IsABag(B), NEW x
  PROVE  /\ IsABag(BagRemove(B, x))
         /\ BagToSet(BagRemove(B, x)) \subseteq BagToSet(B)
         /\ BagToSet(B) \ {x} \subseteq BagToSet(BagRemove(B, x))
BY DEF BagRemove, IsABag, BagToSet

\* What sendMetrics sends.
Sent(p, name, isVisible) ==
  IF doNotTrack = "null" /\ isVisible THEN {Beacon(p, name)} ELSE {}

LEMMA SendMetricsIs ==
  ASSUME IsABag(network), NEW p, NEW name, NEW isVisible, SendMetrics(p, name, isVisible)
  PROVE  /\ IsABag(network')
         /\ BagToSet(network') = BagToSet(network) \cup Sent(p, name, isVisible)
<1>1. CASE doNotTrack = "null" /\ isVisible
  <2>1. network' = BagAdd(network, Beacon(p, name))
    BY <1>1 DEF SendMetrics, Beacon
  <2>2. Sent(p, name, isVisible) = {Beacon(p, name)}
    BY <1>1 DEF Sent
  <2>3. QED
    BY Zenon, <2>1, <2>2, BagAddIs
<1>2. CASE ~(doNotTrack = "null" /\ isVisible)
  BY Zenon, <1>2 DEF SendMetrics, Sent
<1>3. QED
  BY <1>1, <1>2

\* A beacon arrives, or is lost.
LEMMA BeaconGone ==
  ASSUME TypeOK, NEW b \in BagToSet(network), Arrive(b) \/ Lose(b)
  PROVE  /\ b \in Beacons
         /\ IsABag(network')
         /\ BagToSet(network') \subseteq BagToSet(network)
         /\ BagToSet(network) \ {b} \subseteq BagToSet(network')
         /\ UNCHANGED <<fixed, browser, actions>>
<1>1. network' = BagRemove(network, b) /\ UNCHANGED <<fixed, browser, actions>>
  BY DEF Arrive, Lose
<1>2. QED
  BY <1>1, BagRemoveIs DEF TypeOK, Beacons

\* What it does to the history: the event is recorded, is missed, or is
\* none that is configured.
Recorded(b) ==
  /\ b.name \in ValidEventNames
  /\ silence' = [silence EXCEPT ![b.page] = 0]
  /\ misses' = [misses EXCEPT ![b.page] = 0]
  /\ first' = [first EXCEPT ![b.page] = IF @ = "none" THEN b.name ELSE @]

Missed(b) ==
  /\ b.name \in ValidEventNames
  /\ misses' = [misses EXCEPT ![b.page] = IF @ < MaxMisses THEN @ + 1 ELSE @]
  /\ UNCHANGED <<silence, first>>

LEMMA BeaconFates ==
  ASSUME TypeOK, NEW b \in BagToSet(network), Arrive(b) \/ Lose(b)
  PROVE  \/ Recorded(b)
         \/ Missed(b)
         \/ b.name \notin ValidEventNames /\ UNCHANGED history
<1>1. RecordBeacon(b) \/ Miss(b)
  BY DEF Arrive, Lose, RefuseBeacon, DropBeacon
<1>2. ASSUME RecordBeacon(b) PROVE Recorded(b)
                                  \/ (b.name \notin ValidEventNames /\ UNCHANGED history)
  BY <1>2 DEF RecordBeacon, Recorded
<1>3. ASSUME Miss(b) PROVE Missed(b)
                           \/ (b.name \notin ValidEventNames /\ UNCHANGED history)
  <2>1. CASE b.name \in ValidEventNames
    BY <1>3, <2>1 DEF Miss, Missed
  <2>2. CASE b.name \notin ValidEventNames
    <3>1. misses' = [misses EXCEPT ![b.page] = misses[b.page]] /\ UNCHANGED <<silence, first>>
      BY <1>3, <2>2 DEF Miss
    <3>2. misses' = misses
      BY <3>1 DEF TypeOK
    <3>3. QED
      BY <2>2, <3>1, <3>2 DEF history
  <2>3. QED
    BY <2>1, <2>2
<1>4. QED
  BY <1>1, <1>2, <1>3

-----------------------------------------------------------------------------
(***************************************************************************)
(* Types.                                                                  *)
(***************************************************************************)
LEMMA TypeInit == Init => TypeOK
<1> SUFFICES ASSUME Init PROVE TypeOK
  OBVIOUS
<1>1. IsABag(network) /\ BagToSet(network) = {}
  BY DEF Init, EmptyBag, SetToBag, IsABag, BagToSet
<1>2. /\ script \in [Pages -> {"wanted", "running", "absent", "closed"}]
      /\ first \in [Pages -> Names \cup {"none"}]
      /\ visible \in [Pages -> BOOLEAN] /\ loaded \subseteq Pages /\ cached \in BOOLEAN
      /\ network = EmptyBag
  BY DEF Init
<1>3. /\ timer \in [Pages -> 0..PingInterval]
      /\ silence \in [Pages -> 0..MaxSilence + 1]
      /\ misses \in [Pages -> 0..MaxMisses]
      /\ tokens \in 0..RequestRateLimit /\ actions \in 0..MaxActions
      /\ lost \in 0..MaxLost
  BY Constants DEF Init
<1>4. QED
  BY <1>1, <1>2, <1>3 DEF TypeOK

\* A handler of the script sends a beacon, or none.
LEMMA SendType ==
  ASSUME TypeOK, NEW p \in Pages, NEW name \in Names, NEW isVisible,
         SendMetrics(p, name, isVisible)
  PROVE  IsABag(network') /\ BagToSet(network') \subseteq Beacons
<1>1. /\ IsABag(network')
      /\ BagToSet(network') = BagToSet(network) \cup Sent(p, name, isVisible)
  BY SendMetricsIs DEF TypeOK
<1>2. Sent(p, name, isVisible) \subseteq Beacons
  BY DEF Sent, Beacon, Beacons
<1>3. QED
  BY <1>1, <1>2 DEF TypeOK, Beacons

LEMMA BeaconType ==
  ASSUME TypeOK, NEW b \in BagToSet(network), Arrive(b) \/ Lose(b)
  PROVE  TypeOK'
<1>1. /\ b.page \in Pages /\ b.name \in Names
      /\ IsABag(network') /\ BagToSet(network') \subseteq Beacons
      /\ UNCHANGED <<browser, actions>>
  BY BeaconGone DEF TypeOK, Beacons
<1>2. /\ silence' \in [Pages -> 0..MaxSilence + 1]
      /\ misses' \in [Pages -> 0..MaxMisses]
      /\ first' \in [Pages -> Names \cup {"none"}]
  <2>1. CASE Recorded(b)
    BY <1>1, <2>1, Constants DEF TypeOK, Recorded
  <2>2. CASE Missed(b)
    BY <1>1, <2>2, Constants DEF TypeOK, Missed
  <2>3. CASE UNCHANGED history
    BY <2>3 DEF TypeOK, history
  <2>4. QED
    BY <2>1, <2>2, <2>3, BeaconFates
<1>3. tokens' \in 0..RequestRateLimit /\ lost' \in 0..MaxLost
  BY Constants DEF TypeOK, Arrive, Lose, RefuseBeacon, RecordBeacon, DropBeacon,
     Allowed, TakeToken, Limited
<1>4. QED
  BY <1>1, <1>2, <1>3 DEF TypeOK, browser, Beacons

LEMMA TickType ==
  ASSUME TypeOK, Tick
  PROVE  TypeOK'
<1>1. timer' \in [Pages -> 0..PingInterval]
  BY Constants DEF TypeOK, Tick
<1>2. silence' \in [Pages -> 0..MaxSilence + 1]
  BY Constants DEF TypeOK, Tick, LongerSilence
<1>3. actions' \in 0..MaxActions /\ tokens' \in 0..RequestRateLimit
  BY Constants DEF Tick
<1>4. QED
  BY <1>1, <1>2, <1>3 DEF TypeOK, Tick, fixed

LEMMA PageType ==
  ASSUME TypeOK, NEW p \in Pages, ScriptStep(p) \/ Visitor(p)
  PROVE  TypeOK'
<1>1. CASE FetchScript(p)
  <2>1. script' \in [Pages -> {"wanted", "running", "absent", "closed"}]
        /\ cached' \in BOOLEAN /\ tokens' \in 0..RequestRateLimit
    <3>1. CASE ServeScript(p)
      BY <3>1, Constants DEF TypeOK, ServeScript, TakeToken, Allowed, Limited
    <3>2. CASE RefuseScript(p)
      BY <3>2, Constants DEF TypeOK, RefuseScript, TakeToken, Allowed, Limited
    <3>3. CASE script' = [script EXCEPT ![p] = "running"] /\ UNCHANGED <<cached, tokens>>
      BY <3>3 DEF TypeOK
    <3>4. QED
      BY <1>1, <3>1, <3>2, <3>3 DEF FetchScript
  <2>2. QED
    BY <1>1, <2>1 DEF TypeOK, FetchScript, history
<1>2. CASE Load(p)
  <2>1. IsABag(network') /\ BagToSet(network') \subseteq Beacons
    BY <1>2, SendType DEF Load, Names
  <2>2. QED
    BY <1>2, <2>1, Constants DEF TypeOK, Load, history, Beacons
<1>3. CASE Ping(p)
  <2>1. IsABag(network') /\ BagToSet(network') \subseteq Beacons
    BY <1>3, SendType DEF Ping, Names
  <2>2. QED
    BY <1>3, <2>1, Constants DEF TypeOK, Ping, history, Beacons
<1>4. CASE VisibilityChange(p)
  <2>1. IsABag(network') /\ BagToSet(network') \subseteq Beacons
    <3>1. CASE script[p] = "running"
      <4>1. PICK name \in Names : SendMetrics(p, name, visible'[p])
        BY <1>4, <3>1 DEF VisibilityChange, Names
      <4>2. QED
        BY <4>1, SendType
    <3>2. CASE script[p] # "running"
      BY <1>4, <3>2 DEF VisibilityChange, TypeOK, Beacons
    <3>3. QED
      BY <3>1, <3>2
  <2>2. visible' \in [Pages -> BOOLEAN]
    BY <1>4 DEF TypeOK, VisibilityChange
  <2>3. actions' \in 0..MaxActions
    BY <1>4, Constants DEF TypeOK, VisibilityChange, Act
  <2>4. QED
    BY <1>4, <2>1, <2>2, <2>3 DEF TypeOK, VisibilityChange, history, Beacons
<1>5. CASE \E name \in {"popstate", "hashchange"} : Navigate(p, name)
  <2>1. PICK name \in {"popstate", "hashchange"} : Navigate(p, name)
    BY <1>5
  <2>2. IsABag(network') /\ BagToSet(network') \subseteq Beacons
    BY <2>1, SendType DEF Navigate, Names
  <2>3. actions' \in 0..MaxActions
    BY <2>1, Constants DEF TypeOK, Navigate, Act
  <2>4. QED
    BY <2>1, <2>2, <2>3 DEF TypeOK, Navigate, browser, history, Beacons
<1>6. CASE Close(p)
  BY <1>6, Constants DEF TypeOK, Close, Act, history
<1>7. QED
  BY <1>1, <1>2, <1>3, <1>4, <1>5, <1>6 DEF ScriptStep, Visitor

LEMMA TypeStep == TypeOK /\ [Next]_vars => TypeOK'
<1> SUFFICES ASSUME TypeOK, [Next]_vars PROVE TypeOK'
  OBVIOUS
<1>1. CASE UNCHANGED vars
  BY <1>1 DEF TypeOK, vars, browser, history
<1>2. QED
  BY <1>1, PageType, BeaconType, TickType DEF Next, Deliver

\* TypeOK: every variable stays in its set.
THEOREM PageTypeOK == Spec => []TypeOK
BY TypeInit, TypeStep, PTL DEF Spec

-----------------------------------------------------------------------------
(***************************************************************************)
(* How long a page is silent.                                              *)
(***************************************************************************)
\* A beacon of p is on its way that will be recorded.
Awaited(p) == \E name \in ValidEventNames : Beacon(p, name) \in BagToSet(network)

Allowance(p) == PingInterval * (1 + misses[p])

QuietInv(p) ==
  /\ p \notin loaded /\ script[p] # "closed" => silence[p] = 0
  /\ misses[p] < MaxMisses =>
       /\ silence[p] <= Allowance(p)
       /\ Watched(p) /\ ~Awaited(p) => silence[p] + timer[p] <= Allowance(p)

\* Only a script that runs has seen the load event of its page.
LoadedInv == \A p \in loaded : script[p] = "running"

LEMMA LoadedStep ==
  ASSUME TypeOK, LoadedInv, [Next]_vars
  PROVE  LoadedInv'
<1>1. /\ script \in [Pages -> {"wanted", "running", "absent", "closed"}]
      /\ loaded \subseteq Pages
  BY DEF TypeOK
<1>2. CASE UNCHANGED <<script, loaded>>
  BY <1>2 DEF LoadedInv
<1>3. ASSUME NEW p \in Pages, FetchScript(p) PROVE LoadedInv'
  <2>1. loaded' = loaded /\ p \notin loaded
    BY <1>3 DEF FetchScript, LoadedInv
  <2>2. \A q \in Pages \ {p} : script'[q] = script[q]
    BY <1>1, <1>3 DEF FetchScript, ServeScript, RefuseScript
  <2>3. QED
    BY <1>1, <2>1, <2>2 DEF LoadedInv
<1>4. ASSUME NEW p \in Pages, Load(p) PROVE LoadedInv'
  BY <1>4 DEF Load, LoadedInv
<1>5. ASSUME NEW p \in Pages, Close(p) PROVE LoadedInv'
  BY <1>1, <1>5 DEF Close, LoadedInv
<1>6. ASSUME NEW p \in Pages,
             \/ Ping(p) \/ VisibilityChange(p)
             \/ \E name \in {"popstate", "hashchange"} : Navigate(p, name)
      PROVE  UNCHANGED <<script, loaded>>
  BY <1>6 DEF Ping, VisibilityChange, Navigate, browser
<1>7. ASSUME NEW b \in BagToSet(network), Arrive(b) \/ Lose(b)
      PROVE  UNCHANGED <<script, loaded>>
  BY <1>7 DEF Arrive, Lose, browser
<1>8. CASE Tick \/ UNCHANGED vars
  BY <1>2, <1>8 DEF Tick, vars, browser
<1>9. QED
  BY Zenon, <1>2, <1>3, <1>4, <1>5, <1>6, <1>7, <1>8 DEF Next, ScriptStep, Visitor, Deliver

LEMMA PageTypes ==
  ASSUME TypeOK, NEW p \in Pages
  PROVE  /\ silence[p] \in Nat /\ misses[p] \in Nat
         /\ timer[p] \in 0..PingInterval
         /\ Allowance(p) \in Nat /\ Allowance(p) >= PingInterval
<1>1. silence[p] \in Nat /\ misses[p] \in Nat /\ timer[p] \in 0..PingInterval
  BY Constants DEF TypeOK
<1>2. PingInterval * misses[p] \in Nat
  BY <1>1, Constants
<1>3. Allowance(p) = PingInterval + PingInterval * misses[p]
  BY <1>1, Constants DEF Allowance
<1>4. QED
  BY <1>1, <1>2, <1>3, Constants

\* A page whose history and timer stay as they are.
LEMMA StaysQuiet ==
  ASSUME NEW p, QuietInv(p), silence'[p] = silence[p], misses'[p] = misses[p],
         timer'[p] = timer[p],
         p \notin loaded' /\ script'[p] # "closed"
           => p \notin loaded /\ script[p] # "closed",
         Watched(p)' /\ ~Awaited(p)' => Watched(p) /\ ~Awaited(p)
  PROVE  QuietInv(p)'
<1>1. Allowance(p)' = Allowance(p)
  BY DEF Allowance
<1>2. QED
  BY <1>1 DEF QuietInv

LEMMA AwaitedAfterSend ==
  ASSUME TypeOK, NEW p, NEW name, NEW isVisible, SendMetrics(p, name, isVisible)
  PROVE  /\ \A q : Awaited(q) => Awaited(q)'
         /\ doNotTrack = "null" /\ isVisible /\ name \in ValidEventNames => Awaited(p)'
<1>1. BagToSet(network') = BagToSet(network) \cup Sent(p, name, isVisible)
  BY SendMetricsIs DEF TypeOK
<1>2. QED
  BY <1>1 DEF Awaited, Sent

\* A beacon has been on its way to the server: only its page is concerned.
LEMMA BeaconQuiet ==
  ASSUME TypeOK, TypeOK', NEW p \in Pages, QuietInv(p),
         NEW b \in BagToSet(network), Arrive(b) \/ Lose(b)
  PROVE  QuietInv(p)'
<1>1. /\ b \in Beacons /\ BagToSet(network) \ {b} \subseteq BagToSet(network')
      /\ UNCHANGED <<fixed, browser, actions>>
  BY BeaconGone
<1>2. /\ timer' = timer /\ loaded' = loaded /\ script' = script
      /\ visible' = visible /\ doNotTrack' = doNotTrack
  BY <1>1 DEF browser, fixed
<1>3. Watched(p)' <=> Watched(p)
  BY <1>2 DEF Watched
<1>4. b.page # p \/ b.name \notin ValidEventNames => (Awaited(p) => Awaited(p)')
  <2> SUFFICES ASSUME b.page # p \/ b.name \notin ValidEventNames,
                      NEW name \in ValidEventNames, Beacon(p, name) \in BagToSet(network)
               PROVE  Beacon(p, name) \in BagToSet(network')
    BY DEF Awaited
  <2>1. Beacon(p, name) # b
    BY DEF Beacon
  <2>2. QED
    BY <1>1, <2>1
<1>5. /\ silence \in [Pages -> 0..MaxSilence + 1] /\ misses \in [Pages -> 0..MaxMisses]
      /\ b.page \in Pages
  BY <1>1 DEF TypeOK, Beacons
<1>6. CASE b.name \notin ValidEventNames /\ UNCHANGED history
  BY <1>2, <1>3, <1>4, <1>6, StaysQuiet DEF history
<1>7. CASE b.page # p /\ (Recorded(b) \/ Missed(b))
  <2>1. silence'[p] = silence[p] /\ misses'[p] = misses[p]
    BY <1>5, <1>7 DEF Recorded, Missed
  <2>2. QED
    BY <1>2, <1>3, <1>4, <1>7, <2>1, StaysQuiet
<1>8. CASE b.page = p /\ Recorded(b)
  <2>1. silence'[p] = 0 /\ timer'[p] \in 0..PingInterval
    BY <1>5, <1>8, PageTypes DEF Recorded, TypeOK
  <2>2. Allowance(p)' >= PingInterval /\ Allowance(p)' \in Nat
    <3>1. misses'[p] = 0
      BY <1>5, <1>8 DEF Recorded
    <3>2. QED
      BY <3>1, Constants DEF Allowance
  <2>3. QED
    BY <2>1, <2>2, Constants DEF QuietInv
<1>9. CASE b.page = p /\ Missed(b)
  <2>1. /\ silence'[p] = silence[p]
        /\ misses'[p] = IF misses[p] < MaxMisses THEN misses[p] + 1 ELSE misses[p]
    BY <1>5, <1>9 DEF Missed
  <2>2. CASE misses[p] < MaxMisses
    <3>1. Allowance(p)' = Allowance(p) + PingInterval
      <4>1. misses'[p] = misses[p] + 1 /\ misses[p] \in Nat /\ PingInterval \in Nat
        BY <2>1, <2>2, PageTypes, Constants
      <4>2. PingInterval * (1 + (misses[p] + 1)) = PingInterval * (1 + misses[p]) + PingInterval
        BY <4>1
      <4>3. QED
        BY <4>1, <4>2 DEF Allowance
    <3>2. /\ silence[p] <= Allowance(p) /\ silence[p] \in Nat /\ Allowance(p) \in Nat
          /\ timer'[p] \in 0..PingInterval
      BY <1>2, <2>2, PageTypes DEF QuietInv
    <3>3. silence'[p] <= Allowance(p)' /\ silence'[p] + timer'[p] <= Allowance(p)'
      BY <2>1, <3>1, <3>2, Constants
    <3>4. QED
      BY <1>2, <2>1, <3>3 DEF QuietInv
  <2>3. CASE ~(misses[p] < MaxMisses)
    BY <1>2, <2>1, <2>3 DEF QuietInv
  <2>4. QED
    BY <2>2, <2>3
<1>10. QED
  BY <1>6, <1>7, <1>8, <1>9, BeaconFates

LEMMA TickQuiet ==
  ASSUME TypeOK, NEW p \in Pages, QuietInv(p), Tick
  PROVE  QuietInv(p)'
<1>1. /\ timer'[p] = IF p \in loaded /\ timer[p] > 0 THEN timer[p] - 1 ELSE timer[p]
      /\ silence'[p] = IF Watched(p) /\ silence[p] <= MaxSilence THEN silence[p] + 1
                       ELSE silence[p]
      /\ misses' = misses /\ loaded' = loaded /\ script' = script /\ visible' = visible
      /\ doNotTrack' = doNotTrack /\ network' = network
  BY DEF Tick, LongerSilence, fixed
<1>2. ~Awaited(p)
  <2>1. BagToSet(network) = {}
    BY DEF Tick, EmptyBag, SetToBag, BagToSet
  <2>2. QED
    BY <2>1 DEF Awaited
<1>3. (Watched(p)' <=> Watched(p)) /\ (Awaited(p)' <=> Awaited(p))
      /\ Allowance(p)' = Allowance(p)
  BY <1>1 DEF Watched, Awaited, Allowance
<1>4. p \in loaded => timer[p] > 0
  <2>1. p \in loaded => timer[p] # 0
    BY DEF Tick
  <2>2. QED
    BY <2>1, PageTypes, Constants
<1>5. CASE Watched(p)
  <2>1. p \in loaded
    BY <1>5 DEF Watched
  <2>2. QED
    BY <1>1, <1>2, <1>3, <1>4, <1>5, <2>1, PageTypes, Constants DEF QuietInv
<1>6. CASE ~Watched(p)
  BY <1>1, <1>2, <1>3, <1>6 DEF QuietInv
<1>7. QED
  BY <1>5, <1>6

LEMMA PageQuiet ==
  ASSUME {"visible", "ping"} \subseteq ValidEventNames,
         TypeOK, TypeOK', LoadedInv, NEW q \in Pages, QuietInv(q),
         NEW p \in Pages, ScriptStep(p) \/ Visitor(p)
  PROVE  QuietInv(q)'
<1>1. /\ script \in [Pages -> {"wanted", "running", "absent", "closed"}]
      /\ visible \in [Pages -> BOOLEAN] /\ timer \in [Pages -> 0..PingInterval]
  BY DEF TypeOK
<1>2. CASE FetchScript(p)
  <2>1. script'[q] # "closed" => script[q] # "closed"
    BY <1>1, <1>2 DEF FetchScript, ServeScript, RefuseScript
  <2>2. /\ UNCHANGED <<loaded, visible, doNotTrack, network, timer, silence, misses>>
    BY <1>2 DEF FetchScript, fixed, history
  <2>3. (Watched(q)' <=> Watched(q)) /\ (Awaited(q)' <=> Awaited(q))
    BY <2>2 DEF Watched, Awaited
  <2>4. QED
    BY <2>1, <2>2, <2>3, StaysQuiet
<1>3. CASE Load(p)
  <2>1. /\ script' = script /\ visible' = visible /\ loaded' = loaded \cup {p}
        /\ silence' = silence /\ misses' = misses /\ doNotTrack' = doNotTrack
        /\ timer' = [timer EXCEPT ![p] = PingInterval]
        /\ script[p] = "running" /\ p \notin loaded
    BY <1>3 DEF Load, history, fixed
  <2>2. CASE p = q
    <3>1. silence'[p] = 0 /\ timer'[p] = PingInterval /\ p \in loaded'
      BY <1>1, <2>1, <2>2 DEF QuietInv
    <3>2. Allowance(p)' >= PingInterval /\ Allowance(p)' \in Nat
      BY <2>1, PageTypes DEF Allowance
    <3>3. QED
      BY <2>2, <3>1, <3>2, Constants DEF QuietInv
  <2>3. CASE p # q
    <3>1. timer'[q] = timer[q] /\ (q \in loaded' <=> q \in loaded)
      BY <1>1, <2>1, <2>3
    <3>2. (Watched(q)' <=> Watched(q)) /\ (Awaited(q) => Awaited(q)')
      BY <1>3, <2>1, <3>1, AwaitedAfterSend DEF Load, Watched
    <3>3. QED
      BY <2>1, <3>1, <3>2, StaysQuiet
  <2>4. QED
    BY <2>2, <2>3
<1>4. CASE Ping(p)
  <2>1. /\ script' = script /\ visible' = visible /\ loaded' = loaded
        /\ silence' = silence /\ misses' = misses /\ doNotTrack' = doNotTrack
        /\ timer' = [timer EXCEPT ![p] = PingInterval]
    BY <1>4 DEF Ping, history, fixed
  <2>2. Watched(q)' <=> Watched(q)
    BY <2>1 DEF Watched
  <2>3. /\ Awaited(q) => Awaited(q)'
        /\ doNotTrack = "null" /\ visible[p] => Awaited(p)'
    BY <1>4, AwaitedAfterSend DEF Ping
  <2>4. CASE p = q
    <3>1. Allowance(p)' = Allowance(p)
      BY <2>1 DEF Allowance
    <3>2. ~(Watched(p)' /\ ~Awaited(p)')
      BY <2>2, <2>3, <2>4 DEF Watched
    <3>3. QED
      BY <2>1, <2>4, <3>1, <3>2 DEF QuietInv
  <2>5. CASE p # q
    <3>1. timer'[q] = timer[q]
      BY <1>1, <2>1, <2>5
    <3>2. QED
      BY <2>1, <2>2, <2>3, <3>1, StaysQuiet
  <2>6. QED
    BY <2>4, <2>5
<1>5. CASE VisibilityChange(p)
  <2>1. /\ script' = script /\ loaded' = loaded /\ timer' = timer
        /\ silence' = silence /\ misses' = misses /\ doNotTrack' = doNotTrack
        /\ visible' = [visible EXCEPT ![p] = ~visible[p]]
    BY <1>5 DEF VisibilityChange, history, fixed
  <2>2. Awaited(q) => Awaited(q)'
    BY <1>5, AwaitedAfterSend DEF VisibilityChange, Awaited
  <2>3. CASE p = q /\ script[p] = "running" /\ visible'[p]
    <3>1. SendMetrics(p, "visible", visible'[p])
      BY <1>5, <2>3 DEF VisibilityChange
    <3>2. Watched(p)' => Awaited(p)'
      BY <2>1, <2>3, <3>1, AwaitedAfterSend DEF Watched
    <3>3. Allowance(p)' = Allowance(p)
      BY <2>1 DEF Allowance
    <3>4. QED
      BY <2>1, <2>3, <3>2, <3>3 DEF QuietInv
  <2>4. CASE ~(p = q /\ script[p] = "running" /\ visible'[p])
    <3>1. Watched(q)' => Watched(q)
      BY <1>1, <2>1, <2>4 DEF Watched, LoadedInv
    <3>2. QED
      BY <2>1, <2>2, <3>1, StaysQuiet
  <2>5. QED
    BY <2>3, <2>4
<1>6. CASE \E name \in {"popstate", "hashchange"} : Navigate(p, name)
  <2>1. PICK name \in {"popstate", "hashchange"} : Navigate(p, name)
    BY <1>6
  <2>2. UNCHANGED <<script, loaded, timer, visible, silence, misses, doNotTrack>>
    BY <2>1 DEF Navigate, browser, history, fixed
  <2>3. Awaited(q) => Awaited(q)'
    BY <2>1, AwaitedAfterSend DEF Navigate
  <2>4. Watched(q)' <=> Watched(q)
    BY <2>2 DEF Watched
  <2>5. QED
    BY <2>2, <2>3, <2>4, StaysQuiet
<1>7. CASE Close(p)
  <2>1. /\ UNCHANGED <<timer, network, silence, misses, doNotTrack>>
        /\ loaded' = loaded \ {p} /\ script' = [script EXCEPT ![p] = "closed"]
        /\ visible' = [visible EXCEPT ![p] = FALSE]
    BY <1>7 DEF Close, history, fixed
  <2>2. /\ Watched(q)' => Watched(q)
        /\ Awaited(q)' <=> Awaited(q)
        /\ q \notin loaded' /\ script'[q] # "closed" => q \notin loaded /\ script[q] # "closed"
    BY <1>1, <2>1 DEF Watched, Awaited
  <2>3. QED
    BY <2>1, <2>2, StaysQuiet
<1>8. QED
  BY <1>2, <1>3, <1>4, <1>5, <1>6, <1>7 DEF ScriptStep, Visitor

\* SilenceBounded: a page that is watched is never silent for longer than an
\* interval and one more for each of its beacons that was refused or lost.
\* Without "ping" and "visible" the server discards what a reader sends.
THEOREM PageSilenceBounded ==
  ASSUME {"visible", "ping"} \subseteq ValidEventNames
  PROVE  Spec => []SilenceBounded
<1> DEFINE Inv == LoadedInv /\ \A p \in Pages : QuietInv(p)
<1>1. Init => Inv
  <2> SUFFICES ASSUME Init PROVE Inv
    OBVIOUS
  <2>1. LoadedInv
    BY DEF Init, LoadedInv
  <2>2. ASSUME NEW p \in Pages PROVE QuietInv(p)
    <3>1. TypeOK /\ silence[p] = 0 /\ p \notin loaded
      BY TypeInit DEF Init
    <3>2. QED
      BY <3>1, PageTypes, Constants DEF QuietInv, Watched
  <2>3. QED
    BY <2>1, <2>2
<1>2. TypeOK /\ TypeOK' /\ Inv /\ [Next]_vars => Inv'
  <2> SUFFICES ASSUME TypeOK, TypeOK', Inv, [Next]_vars PROVE Inv'
    OBVIOUS
  <2>1. LoadedInv'
    BY LoadedStep
  <2>2. ASSUME NEW q \in Pages PROVE QuietInv(q)'
    <3>1. QuietInv(q) /\ LoadedInv
      OBVIOUS
    <3>2. CASE UNCHANGED vars
      <4>1. (Watched(q)' <=> Watched(q)) /\ (Awaited(q)' <=> Awaited(q))
        BY <3>2 DEF vars, fixed, browser, Watched, Awaited
      <4>2. QED
        BY <3>1, <3>2, <4>1, StaysQuiet DEF vars, browser, history
    <3>3. CASE \E p \in Pages : ScriptStep(p) \/ Visitor(p)
      BY <3>1, <3>3, PageQuiet
    <3>4. CASE \E b \in BagToSet(network) : Arrive(b) \/ Lose(b)
      BY <3>1, <3>4, BeaconQuiet
    <3>5. CASE Tick
      BY <3>1, <3>5, TickQuiet
    <3>6. QED
      BY Zenon, <3>2, <3>3, <3>4, <3>5 DEF Next, Deliver
  <2>3. QED
    BY <2>1, <2>2
<1>3. Inv => SilenceBounded
  BY DEF QuietInv, SilenceBounded, Allowance
<1>4. QED
  BY <1>1, <1>2, <1>3, TypeInit, TypeStep, PTL DEF Spec

-----------------------------------------------------------------------------
(***************************************************************************)
(* The first event of a page.                                              *)
(***************************************************************************)
\* A view of p is on its way, or has been missed.
ViewKnown(p) ==
  \/ misses[p] > 0
  \/ \E name \in ValidEventNames \ {"ping"} : Beacon(p, name) \in BagToSet(network)

ViewInv ==
  \A p \in Pages :
    first[p] = "none" /\ (Watched(p) \/ Beacon(p, "ping") \in BagToSet(network))
      => ViewKnown(p)

\* More beacons are sent.
LEMMA ViewStays ==
  ASSUME NEW p, ViewKnown(p), misses' = misses,
         BagToSet(network) \subseteq BagToSet(network')
  PROVE  ViewKnown(p)'
BY DEF ViewKnown

LEMMA BeaconView ==
  ASSUME MaxMisses > 0, TypeOK, ViewInv, NEW b \in BagToSet(network), Arrive(b) \/ Lose(b)
  PROVE  /\ ViewInv'
         /\ \A p \in Pages : first[p] = "none" /\ first'[p] = "ping" =>
              \/ misses[p] > 0
              \/ \E c \in BagToSet(network') : c.page = p
<1>1. /\ b \in Beacons /\ BagToSet(network) \ {b} \subseteq BagToSet(network')
      /\ BagToSet(network') \subseteq BagToSet(network)
      /\ UNCHANGED <<fixed, browser, actions>>
  BY BeaconGone
<1>2. b.page \in Pages /\ misses \in [Pages -> 0..MaxMisses] /\ MaxMisses \in Nat
      /\ first \in [Pages -> Names \cup {"none"}] /\ b.name \in Names
      /\ b.name # "none"
  BY <1>1, Constants DEF TypeOK, Beacons, Names
<1>3. ASSUME NEW p \in Pages, first'[p] = "none",
             Watched(p)' \/ Beacon(p, "ping") \in BagToSet(network')
      PROVE  ViewKnown(p)'
  <2>1. first[p] = "none" /\ ~(b.page = p /\ Recorded(b))
    BY <1>2, <1>3, BeaconFates DEF Recorded, Missed, history
  <2>2. Watched(p)' <=> Watched(p)
    BY <1>1 DEF Watched, browser, fixed
  <2>3. ViewKnown(p)
    BY <1>1, <1>3, <2>1, <2>2 DEF ViewInv
  <2>4. CASE b.page = p /\ Missed(b)
    <3>1. misses'[p] > 0
      BY <1>2, <2>4 DEF Missed
    <3>2. QED
      BY <3>1 DEF ViewKnown
  <2>5. CASE b.page # p \/ b.name \notin ValidEventNames
    <3>1. \A name \in ValidEventNames : Beacon(p, name) # b
      BY <2>5 DEF Beacon
    <3>2. misses'[p] = misses[p]
      BY <1>2, <2>5, BeaconFates DEF Recorded, Missed, history
    <3>3. QED
      BY <1>1, <2>3, <3>1, <3>2 DEF ViewKnown
  <2>6. QED
    BY <2>1, <2>4, <2>5, BeaconFates
<1>4. ASSUME NEW p \in Pages, first[p] = "none", first'[p] = "ping"
      PROVE  misses[p] > 0 \/ \E c \in BagToSet(network') : c.page = p
  <2>1. b.page = p /\ b.name = "ping"
    BY <1>2, <1>4, BeaconFates DEF Recorded, Missed, history
  <2>2. b = Beacon(p, "ping")
    BY <1>1, <2>1 DEF Beacons, Beacon
  <2>3. ViewKnown(p)
    BY <1>4, <2>2 DEF ViewInv
  <2>4. CASE misses[p] > 0
    BY <2>4
  <2>5. ASSUME NEW name \in ValidEventNames \ {"ping"},
               Beacon(p, name) \in BagToSet(network)
        PROVE  \E c \in BagToSet(network') : c.page = p
    <3>1. Beacon(p, name).name = name /\ Beacon(p, name).page = p
      BY DEF Beacon
    <3>2. Beacon(p, name) # b
      BY <2>1, <3>1
    <3>3. Beacon(p, name) \in BagToSet(network')
      BY <1>1, <2>5, <3>2
    <3>4. QED
      BY <3>1, <3>3
  <2>6. QED
    BY <2>3, <2>4, <2>5 DEF ViewKnown
<1>5. QED
  BY <1>3, <1>4 DEF ViewInv

\* A page that begins to be watched, or pings, has sent a view before.
LEMMA ViewInvKept ==
  ASSUME ViewInv, first' = first, misses' = misses,
         BagToSet(network) \subseteq BagToSet(network'),
         \A q \in Pages : Watched(q)' => Watched(q) \/ ViewKnown(q)',
         \A q \in Pages : Beacon(q, "ping") \in BagToSet(network') =>
           Beacon(q, "ping") \in BagToSet(network) \/ Watched(q)
  PROVE  ViewInv'
<1>1. ASSUME NEW q \in Pages, ViewKnown(q)
      PROVE  ViewKnown(q)'
  BY Zenon, <1>1, ViewStays
<1>2. ASSUME NEW q \in Pages, first'[q] = "none",
             Watched(q)' \/ Beacon(q, "ping") \in BagToSet(network')
      PROVE  ViewKnown(q)'
  <2>1. \/ ViewKnown(q)'
        \/ Watched(q) \/ Beacon(q, "ping") \in BagToSet(network)
    BY Zenon, <1>2
  <2>2. first[q] = "none"
    BY <1>2
  <2>3. QED
    BY Zenon, <1>1, <2>1, <2>2 DEF ViewInv
<1>3. QED
  BY Zenon, <1>2 DEF ViewInv, Beacon

\* What sendMetrics changes of it.
LEMMA SendView ==
  ASSUME TypeOK, NEW p \in Pages, NEW name, NEW isVisible, SendMetrics(p, name, isVisible)
  PROVE  /\ BagToSet(network) \subseteq BagToSet(network')
         /\ doNotTrack = "null" /\ isVisible /\ name \in ValidEventNames \ {"ping"}
              => ViewKnown(p)'
         /\ \A q \in Pages : Beacon(q, "ping") \in BagToSet(network') =>
              \/ Beacon(q, "ping") \in BagToSet(network)
              \/ q = p /\ name = "ping" /\ doNotTrack = "null" /\ isVisible
<1>1. BagToSet(network') = BagToSet(network) \cup Sent(p, name, isVisible)
  BY SendMetricsIs DEF TypeOK
<1>2. \A q : Beacon(q, "ping") = Beacon(p, name) => q = p /\ name = "ping"
  BY DEF Beacon
<1>3. QED
  BY <1>1, <1>2 DEF Sent, ViewKnown

LEMMA PageView ==
  ASSUME VisitsReported, TypeOK, LoadedInv, ViewInv,
         NEW p \in Pages, ScriptStep(p) \/ Visitor(p)
  PROVE  ViewInv' /\ first' = first
<1>1. /\ script \in [Pages -> {"wanted", "running", "absent", "closed"}]
      /\ visible \in [Pages -> BOOLEAN]
  BY DEF TypeOK
<1>2. first' = first /\ misses' = misses /\ doNotTrack' = doNotTrack
  BY DEF ScriptStep, Visitor, FetchScript, Load, Ping, VisibilityChange, Navigate, Close,
     history, fixed
<1>3. CASE FetchScript(p) \/ Close(p)
  <2>1. network' = network
    BY <1>3 DEF FetchScript, Close
  <2>2. \A q \in Pages : Watched(q)' => Watched(q) \/ ViewKnown(q)'
    BY <1>1, <1>2, <1>3 DEF FetchScript, Close, Watched
  <2>3. /\ BagToSet(network) \subseteq BagToSet(network')
        /\ \A q \in Pages : Beacon(q, "ping") \in BagToSet(network') =>
             Beacon(q, "ping") \in BagToSet(network) \/ Watched(q)
    BY <2>1
  <2>4. QED
    BY Zenon, <1>2, <2>2, <2>3, ViewInvKept
<1>4. CASE Load(p)
  <2>1. SendMetrics(p, "load", visible[p]) /\ visible' = visible /\ loaded' = loaded \cup {p}
    BY <1>4 DEF Load
  <2>2. /\ BagToSet(network) \subseteq BagToSet(network')
        /\ doNotTrack = "null" /\ visible[p] /\ "load" \in ValidEventNames \ {"ping"}
             => ViewKnown(p)'
        /\ \A q \in Pages : Beacon(q, "ping") \in BagToSet(network') =>
             Beacon(q, "ping") \in BagToSet(network) \/ Watched(q)
    BY <2>1, SendView
  <2>3. \A q \in Pages : Watched(q)' => Watched(q) \/ ViewKnown(q)'
    BY <1>2, <2>1, <2>2 DEF Watched, VisitsReported
  <2>4. QED
    BY Zenon, <1>2, <2>2, <2>3, ViewInvKept
<1>5. CASE Ping(p)
  <2>1. /\ SendMetrics(p, "ping", visible[p]) /\ p \in loaded
        /\ visible' = visible /\ loaded' = loaded
    BY <1>5 DEF Ping
  <2>2. /\ BagToSet(network) \subseteq BagToSet(network')
        /\ \A q \in Pages : Beacon(q, "ping") \in BagToSet(network') =>
             \/ Beacon(q, "ping") \in BagToSet(network)
             \/ q = p /\ doNotTrack = "null" /\ visible[p]
    BY <2>1, SendView
  <2>3. /\ \A q \in Pages : Watched(q)' => Watched(q) \/ ViewKnown(q)'
        /\ \A q \in Pages : Beacon(q, "ping") \in BagToSet(network') =>
             Beacon(q, "ping") \in BagToSet(network) \/ Watched(q)
    BY <1>2, <2>1, <2>2 DEF Watched
  <2>4. QED
    BY Zenon, <1>2, <2>2, <2>3, ViewInvKept
<1>6. CASE VisibilityChange(p)
  <2>1. loaded' = loaded /\ visible' = [visible EXCEPT ![p] = ~visible[p]]
    BY <1>6 DEF VisibilityChange
  <2>2. CASE script[p] # "running"
    <3>1. network' = network
      BY <1>6, <2>2 DEF VisibilityChange
    <3>2. \A q \in Pages : Watched(q)' => Watched(q) \/ ViewKnown(q)'
      BY <1>1, <1>2, <2>1, <2>2 DEF Watched, LoadedInv
    <3>3. /\ BagToSet(network) \subseteq BagToSet(network')
          /\ \A q \in Pages : Beacon(q, "ping") \in BagToSet(network') =>
               Beacon(q, "ping") \in BagToSet(network) \/ Watched(q)
      BY <3>1
    <3>4. QED
      BY Zenon, <1>2, <3>2, <3>3, ViewInvKept
  <2>3. CASE script[p] = "running"
    <3>1. PICK name, isVisible :
            /\ SendMetrics(p, name, isVisible)
            /\ isVisible = visible'[p]
            /\ name = IF isVisible THEN "visible" ELSE "hidden"
      BY <1>6, <2>3 DEF VisibilityChange
    <3>2. /\ BagToSet(network) \subseteq BagToSet(network')
          /\ doNotTrack = "null" /\ isVisible /\ name \in ValidEventNames \ {"ping"}
               => ViewKnown(p)'
          /\ \A q \in Pages : Beacon(q, "ping") \in BagToSet(network') =>
               \/ Beacon(q, "ping") \in BagToSet(network)
               \/ q = p /\ name = "ping" /\ doNotTrack = "null" /\ isVisible
      BY <3>1, SendView
    <3>3. /\ \A q \in Pages : Watched(q)' => Watched(q) \/ ViewKnown(q)'
          /\ \A q \in Pages : Beacon(q, "ping") \in BagToSet(network') =>
               Beacon(q, "ping") \in BagToSet(network) \/ Watched(q)
      BY <1>1, <1>2, <2>1, <3>1, <3>2 DEF Watched, VisitsReported
    <3>4. QED
      BY Zenon, <1>2, <3>2, <3>3, ViewInvKept
  <2>4. QED
    BY <2>2, <2>3
<1>7. CASE \E name \in {"popstate", "hashchange"} : Navigate(p, name)
  <2>1. PICK name \in {"popstate", "hashchange"} : Navigate(p, name)
    BY <1>7
  <2>2. /\ SendMetrics(p, name, visible[p]) /\ name # "ping"
        /\ visible' = visible /\ loaded' = loaded
    BY <2>1 DEF Navigate, browser
  <2>3. /\ BagToSet(network) \subseteq BagToSet(network')
        /\ \A q \in Pages : Beacon(q, "ping") \in BagToSet(network') =>
             Beacon(q, "ping") \in BagToSet(network) \/ Watched(q)
    BY Zenon, <2>2, SendView
  <2>4. \A q \in Pages : Watched(q)' => Watched(q) \/ ViewKnown(q)'
    BY <1>2, <2>2 DEF Watched
  <2>5. QED
    BY Zenon, <1>2, <2>3, <2>4, ViewInvKept
<1>8. QED
  BY <1>2, <1>3, <1>4, <1>5, <1>6, <1>7 DEF ScriptStep, Visitor

\* FirstIsAView: the first event recorded of a page is no ping, unless a view
\* before it was missed or is overtaken.  The history has to count misses at
\* all for that.
THEOREM PageFirstIsAView ==
  ASSUME VisitsReported, MaxMisses > 0
  PROVE  Spec => FirstIsAView
<1> DEFINE Inv == LoadedInv /\ ViewInv
           ByView == \A p \in Pages :
                       first[p] = "none" /\ first'[p] = "ping" =>
                         \/ misses[p] > 0
                         \/ \E b \in BagToSet(network') : b.page = p
<1>1. Init => Inv
  <2> SUFFICES ASSUME Init PROVE Inv
    OBVIOUS
  <2>1. BagToSet(network) = {} /\ loaded = {}
    BY DEF Init, EmptyBag, SetToBag, BagToSet
  <2>2. QED
    BY <2>1 DEF LoadedInv, ViewInv, Watched
<1>2. TypeOK /\ Inv /\ [Next]_vars => Inv' /\ ByView
  <2> SUFFICES ASSUME TypeOK, Inv, [Next]_vars PROVE ViewInv' /\ ByView
    BY LoadedStep
  <2>1. ASSUME first' = first PROVE ByView
    BY <2>1
  <2>2. CASE UNCHANGED vars
    <3>1. ViewInv'
      BY <2>2 DEF vars, fixed, browser, history, ViewInv, ViewKnown, Watched
    <3>2. QED
      BY <2>1, <2>2, <3>1 DEF vars, history
  <2>3. CASE \E p \in Pages : ScriptStep(p) \/ Visitor(p)
    BY <2>1, <2>3, PageView
  <2>4. CASE \E b \in BagToSet(network) : Arrive(b) \/ Lose(b)
    BY <2>4, BeaconView
  <2>5. CASE Tick
    <3>1. UNCHANGED <<loaded, visible, doNotTrack, network, first, misses>>
      BY <2>5 DEF Tick, fixed
    <3>2. ViewInv'
      BY <3>1 DEF ViewInv, ViewKnown, Watched
    <3>3. QED
      BY <2>1, <3>1, <3>2
  <2>6. QED
    BY <2>2, <2>3, <2>4, <2>5 DEF Next, Deliver
<1>3. ByView => ByView \/ UNCHANGED vars
  OBVIOUS
<1>4. QED
  BY <1>1, <1>2, TypeInit, TypeStep, PTL DEF Spec, FirstIsAView
=============================================================================
