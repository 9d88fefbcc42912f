----------------------------- MODULE PageTracker -----------------------------
(***************************************************************************)
(* The tracker script (static/picolytics.js) in the open pages of the      *)
(* visitors behind one address, and the API on the way of its requests     *)
(* (api.go): the static files it is served from, and the rate limiter,     *)
(* which counts every request of the address.                              *)
(*                                                                         *)
(* The clock unit is the second of the rate limiter.  The browser and the  *)
(* network (external) call the handlers of the script, and deliver each    *)
(* beacon in any order within the second, or lose it: sendBeacon never     *)
(* tries again.                                                            *)
(***************************************************************************)
EXTENDS Integers, Bags, BagsExt

CONSTANTS
  Pages,             \* the open pages; each has the script tag, deferred
  PingInterval,      \* setInterval: 5 (seconds)
  RequestRateLimit,  \* configuration: REQUEST_RATE_LIMIT, 0 for no limit
  ValidEventNames,   \* configuration: VALID_EVENT_NAMES
  MaxActions,        \* bound: what the visitors do within a second
  MaxLost,           \* bound: how many events network and queue lose
  MaxMisses          \* bound: how many misses in a row are told apart

Names == {"load", "ping", "visible", "hidden", "hashchange", "popstate"}
Script == "pico.js"
EmbeddedFiles == {Script}

ASSUME PageAssumption ==
  /\ PingInterval \in Nat \ {0}
  /\ {RequestRateLimit, MaxActions, MaxLost, MaxMisses} \subseteq Nat
  /\ ValidEventNames \subseteq Names

VARIABLES
  doNotTrack,  \* navigator.doNotTrack of the browser: "1", "0" or "null"
  files,       \* staticFS: the files the API serves
  script,      \* script[p]: "wanted", "running", "absent", or "closed"
  visible,     \* visible[p]: document.visibilityState
  loaded,      \* the pages whose load event has fired
  timer,       \* timer[p]: seconds until the interval of page p fires
  cached,      \* the browser has the script in its cache
  network,     \* the bag of beacons on their way
  tokens,      \* the bucket of the address in the rate limiter
  actions,     \* how often the visitors did something in this second
  lost,        \* how many events the network or a full queue lost
  silence,     \* history: seconds page p was watched since its last event
  misses,      \* history: beacons of p refused or lost since its last event
  first        \* history: the first event recorded of page p

browser == <<script, visible, loaded, timer, cached>>
history == <<silence, misses, first>>
fixed == <<doNotTrack, files>>
vars == <<fixed, browser, network, tokens, actions, lost, history>>

\* setupStaticFS: a directory that exists replaces the embedded files.
SetupStaticFS(dir) == IF dir.exists THEN dir.files ELSE EmbeddedFiles

Init ==
  /\ doNotTrack \in {"1", "0", "null"}
  /\ \E dir \in [exists : BOOLEAN, files : SUBSET EmbeddedFiles] :
       files = SetupStaticFS(dir)
  /\ script = [p \in Pages |-> "wanted"]
  /\ visible \in [Pages -> BOOLEAN]
  /\ loaded = {}
  /\ timer = [p \in Pages |-> PingInterval]
  /\ cached = FALSE
  /\ network = EmptyBag
  /\ tokens = RequestRateLimit
  /\ actions = 0
  /\ lost = 0
  /\ silence = [p \in Pages |-> 0]
  /\ misses = [p \in Pages |-> 0]
  /\ first = [p \in Pages |-> "none"]
-----------------------------------------------------------------------------
(***************************************************************************)
(* The API: what happens to a request.                                     *)
(***************************************************************************)
\* NewEchoAPI: the rate limiter is the first to see a request.
Limited == RequestRateLimit > 0
Allowed == Limited => tokens > 0
TakeToken == tokens' = IF Limited THEN tokens - 1 ELSE tokens

\* HandleStatic answers with the script, to be kept for STATIC_CACHE_MAX_AGE.
ServeScript(p) ==
  /\ Allowed
  /\ TakeToken
  /\ Script \in files
  /\ script' = [script EXCEPT ![p] = "running"]
  /\ cached' = TRUE

\* 404, or 429 and rateLimiterDrops: the page stays without the script.
RefuseScript(p) ==
  /\ \/ Allowed /\ TakeToken /\ Script \notin files
     \/ ~Allowed /\ UNCHANGED tokens
  /\ script' = [script EXCEPT ![p] = "absent"]
  /\ UNCHANGED cached

\* The browser takes the script from its cache or asks for it.
FetchScript(p) ==
  /\ script[p] = "wanted"
  /\ \/ /\ cached
        /\ script' = [script EXCEPT ![p] = "running"]
        /\ UNCHANGED <<cached, tokens>>
     \/ ~cached /\ (ServeScript(p) \/ RefuseScript(p))
  /\ UNCHANGED <<fixed, visible, loaded, timer, network, actions, lost, history>>

\* An event of a page is missed that would have been recorded.
Miss(b) ==
  /\ misses' = [misses EXCEPT ![b.page] =
                 IF b.name \in ValidEventNames /\ @ < MaxMisses THEN @ + 1 ELSE @]
  /\ UNCHANGED <<silence, first>>

\* A beacon is refused with 429, and rateLimiterDrops counts it.
RefuseBeacon(b) ==
  /\ ~Allowed
  /\ Miss(b)
  /\ UNCHANGED <<tokens, lost>>

\* recordPicolyticsEvent and SaveEvent: an event with a name that is not
\* configured is discarded.
RecordBeacon(b) ==
  /\ Allowed
  /\ TakeToken
  /\ IF b.name \in ValidEventNames
     THEN /\ silence' = [silence EXCEPT ![b.page] = 0]
          /\ misses' = [misses EXCEPT ![b.page] = 0]
          /\ first' = [first EXCEPT ![b.page] = IF @ = "none" THEN b.name ELSE @]
     ELSE UNCHANGED history
  /\ UNCHANGED lost

\* The queue of the worker is full: SaveEvent drops what was answered with 202.
DropBeacon(b) ==
  /\ Allowed
  /\ TakeToken
  /\ lost < MaxLost
  /\ lost' = lost + 1
  /\ Miss(b)

Arrive(b) ==
  /\ network' = BagRemove(network, b)
  /\ RefuseBeacon(b) \/ RecordBeacon(b) \/ DropBeacon(b)
  /\ UNCHANGED <<fixed, browser, actions>>

Lose(b) ==
  /\ lost < MaxLost
  /\ lost' = lost + 1
  /\ network' = BagRemove(network, b)
  /\ Miss(b)
  /\ UNCHANGED <<fixed, browser, tokens, actions>>
-----------------------------------------------------------------------------
(***************************************************************************)
(* The handlers of the script.                                             *)
(***************************************************************************)
\* Fault: the page tells that it is hidden, but not that it is visible again.
SendMetricsNotVisible(p, name, isVisible) ==
  network' = IF doNotTrack = "null" /\ isVisible /\ name # "visible"
             THEN BagAdd(network, [page |-> p, name |-> name])
             ELSE network
\* sendMetrics.  Every string is true in JavaScript, "0" (the visitor does not
\* mind) as well as "1".
SendMetrics(p, name, isVisible) ==
  network' = IF doNotTrack = "null" /\ isVisible
             THEN BagAdd(network, [page |-> p, name |-> name])
             ELSE network

\* Fault: the load event starts the interval, and reports nothing itself.
LoadWithoutEvent(p) ==
  /\ script[p] = "running"
  /\ p \notin loaded
  /\ loaded' = loaded \cup {p}
  /\ timer' = [timer EXCEPT ![p] = PingInterval]
  /\ UNCHANGED <<fixed, script, visible, cached, network, tokens, actions, lost, history>>
\* The load event waits for deferred scripts.
Load(p) ==
  /\ script[p] = "running"
  /\ p \notin loaded
  /\ loaded' = loaded \cup {p}
  /\ timer' = [timer EXCEPT ![p] = PingInterval]
  /\ SendMetrics(p, "load", visible[p])
  /\ UNCHANGED <<fixed, script, visible, cached, tokens, actions, lost, history>>

\* Fault: the interval is cleared when it finds the page hidden.
PingUntilHidden(p) ==
  /\ p \in loaded
  /\ timer[p] = 0
  /\ timer' = [timer EXCEPT ![p] = IF visible[p] THEN PingInterval ELSE -1]
  /\ SendMetrics(p, "ping", visible[p])
  /\ UNCHANGED <<fixed, script, visible, loaded, cached, tokens, actions, lost, history>>
\* Fault: setTimeout in the place of setInterval.
PingOnce(p) ==
  /\ p \in loaded
  /\ timer[p] = 0
  /\ timer' = [timer EXCEPT ![p] = -1]
  /\ SendMetrics(p, "ping", visible[p])
  /\ UNCHANGED <<fixed, script, visible, loaded, cached, tokens, actions, lost, history>>
\* The interval fires, and starts again.
Ping(p) ==
  /\ p \in loaded
  /\ timer[p] = 0
  /\ timer' = [timer EXCEPT ![p] = PingInterval]
  /\ SendMetrics(p, "ping", visible[p])
  /\ UNCHANGED <<fixed, script, visible, loaded, cached, tokens, actions, lost, history>>

Act ==
  /\ actions < MaxActions
  /\ actions' = actions + 1

\* visibilitychange: the handler sees the new state, so it never reports
\* "hidden".
VisibilityChange(p) ==
  /\ script[p] # "closed"
  /\ Act
  /\ visible' = [visible EXCEPT ![p] = ~@]
  /\ IF script[p] = "running"
     THEN SendMetrics(p, IF visible'[p] THEN "visible" ELSE "hidden", visible'[p])
     ELSE UNCHANGED network
  /\ UNCHANGED <<fixed, script, loaded, timer, cached, tokens, lost, history>>

\* popstate or hashchange, of a visible page or of a script in a hidden one.
Navigate(p, name) ==
  /\ script[p] = "running"
  /\ Act
  /\ SendMetrics(p, name, visible[p])
  /\ UNCHANGED <<fixed, browser, tokens, lost, history>>

\* The page is closed; its beacons are still delivered.
Close(p) ==
  /\ script[p] # "closed"
  /\ Act
  /\ script' = [script EXCEPT ![p] = "closed"]
  /\ visible' = [visible EXCEPT ![p] = FALSE]
  /\ loaded' = loaded \ {p}
  /\ UNCHANGED <<fixed, timer, cached, network, tokens, lost, history>>

\* The script runs and may report what the visitor sees.
Watched(p) == p \in loaded /\ visible[p] /\ doNotTrack = "null"

\* The seconds of silence are counted as far as the misses explain.
MaxSilence == PingInterval * (1 + MaxMisses)
LongerSilence ==
  silence' = [p \in Pages |->
               IF Watched(p) /\ silence[p] <= MaxSilence THEN silence[p] + 1
               ELSE silence[p]]

\* A second passes: timers run, and the bucket is full again (its size is the
\* rate).  Timers fire on time.
Tick ==
  /\ network = EmptyBag
  /\ \A p \in loaded : timer[p] # 0
  /\ timer' = [p \in Pages |->
                IF p \in loaded /\ timer[p] > 0 THEN timer[p] - 1 ELSE timer[p]]
  /\ tokens' = RequestRateLimit
  /\ actions' = 0
  /\ LongerSilence
  /\ UNCHANGED <<fixed, script, visible, loaded, cached, network, lost, misses,
                 first>>
-----------------------------------------------------------------------------
ScriptStep(p) == FetchScript(p) \/ Load(p) \/ Ping(p)

Visitor(p) ==
  \/ VisibilityChange(p)
  \/ \E name \in {"popstate", "hashchange"} : Navigate(p, name)
  \/ Close(p)

Deliver == \E b \in BagToSet(network) : Arrive(b)

Next ==
  \/ \E p \in Pages : ScriptStep(p) \/ Visitor(p)
  \/ Deliver
  \/ \E b \in BagToSet(network) : Lose(b)
  \/ Tick

Spec == Init /\ [][Next]_vars

\* The browser calls the handlers of the script, the network delivers what it
\* does not lose, and time passes.
FairSpec ==
  /\ Spec
  /\ \A p \in Pages : WF_vars(ScriptStep(p))
  /\ WF_vars(Deliver)
  /\ WF_vars(Tick)
-----------------------------------------------------------------------------
(***************************************************************************)
(* Properties.                                                             *)
(***************************************************************************)
\* The types of the variables.
TypeOK ==
  /\ script \in [Pages -> {"wanted", "running", "absent", "closed"}]
  /\ visible \in [Pages -> BOOLEAN]
  /\ loaded \subseteq Pages
  /\ timer \in [Pages -> 0..PingInterval]
  /\ cached \in BOOLEAN
  /\ IsABag(network)
  /\ BagToSet(network) \subseteq [page : Pages, name : Names]
  /\ tokens \in 0..RequestRateLimit
  /\ actions \in 0..MaxActions
  /\ lost \in 0..MaxLost
  /\ silence \in [Pages -> 0..MaxSilence + 1]
  /\ misses \in [Pages -> 0..MaxMisses]
  /\ first \in [Pages -> Names \cup {"none"}]

\* A page that is watched is never silent for longer than one interval, and
\* one more for each of its beacons that was refused or lost: what the visit of
\* a reader who only reads depends on to stay in one session.  It holds across
\* changes of visibility, where intervals fire and report nothing.
SilenceBounded ==
  \A p \in Pages :
    misses[p] < MaxMisses => silence[p] <= PingInterval * (1 + misses[p])

\* The first event of a page is not a ping, unless one before it was missed or
\* is overtaken: dashboards count the events that are no pings as views, and a
\* session that a ping starts is a bounce until more than pings arrive.
FirstIsAView ==
  [][\A p \in Pages :
       first[p] = "none" /\ first'[p] = "ping" =>
         \/ misses[p] > 0
         \/ \E b \in BagToSet(network') : b.page = p]_vars

\* When the visitors have come to rest, a page that stays watched is heard of
\* again and again, although it shares its bucket with the other pages of the
\* address (the limit is not below the number of pages).  Contention leaves
\* nothing behind, and neither does the time in which a page was hidden.  As
\* long as other pages are navigated, all pings of one may be refused.
WatchedIsHeard ==
  \A p \in Pages :
    <>[][\A q \in Pages : ~Visitor(q)]_vars /\ <>[]Watched(p)
      => []<>(silence[p] = 0)
=============================================================================
