------------------------- MODULE BrowserWorkerProofs -------------------------
(***************************************************************************)
(* TLAPS proofs about BrowserWorker, for any number of tabs, commands and  *)
(* deaths.  The invariant has two halves: Switched is about the switch     *)
(* between the two browsers and its commands, Referred about what an       *)
(* observation refers to.  A step is taken apart into what it does to the  *)
(* fields of BrowserSession (Turns) and what it does to the rest.          *)
(***************************************************************************)
EXTENDS BrowserWorker, TLAPS

Tabs == Pages \cup {0}
Fields ==
  [page : [Pages -> {"closed", "new", "open", "crashed"}], active : Tabs,
   manualMode : BOOLEAN, transitioning : BOOLEAN, closing : BOOLEAN, unresponsive : BOOLEAN,
   old : Tabs, refs : SUBSET Pages,
   task : [at : {"none", "walk"}, page : Tabs, steady : BOOLEAN],
   obs : [page : Tabs, fresh : BOOLEAN, steady : BOOLEAN]]

Good(x) == x \in Fields /\ x.active \in Listed(x) \cup {0}

(* What a method may do to a tab's references: keep them while the tab     *)
(* stays active, or drop them; an observation under way is then unsteady.  *)
Keeps(x, y) ==
  /\ y.task.at = x.task.at /\ y.task.page = x.task.page
  /\ y.refs = x.refs \/ y.refs = {}
  /\ \/ y.obs = x.obs \/ ~y.obs.fresh
     \/ y.obs.page = x.obs.page /\ y.obs.fresh = x.obs.fresh /\ ~y.obs.steady
  /\ \/ y.task.steady = x.task.steady /\ y.active \in {x.active, 0}
     \/ (y.obs.fresh => ~y.obs.steady) /\ (y.task.at = "walk" => ~y.task.steady)

SameMode(x, y) == y.manualMode = x.manualMode /\ y.transitioning = x.transitioning
Turns(x, y) == Good(y) /\ Keeps(x, y)

LEMMA KeepsTrans ==
  ASSUME NEW x, NEW y, NEW z, Keeps(x, y), Keeps(y, z)
  PROVE  Keeps(x, z)
BY DEF Keeps

LEMMA ReviseTurns ==
  ASSUME NEW x, Good(x)
  PROVE  /\ Turns(x, Revise(x)) /\ SameMode(x, Revise(x))
         /\ Revise(x) = [x EXCEPT !.obs = NoObs]
         /\ Revise(x).active = x.active /\ Revise(x).page = x.page
<1>1. NoObs \in [page : Tabs, fresh : BOOLEAN, steady : BOOLEAN] /\ ~NoObs.fresh
  BY DEF NoObs, Tabs
<1>2. Revise(x) \in Fields
  BY <1>1 DEF Good, Fields, Revise
<1> QED
  BY <1>1, <1>2 DEF Good, Fields, Revise, Turns, Keeps, SameMode, Listed

LEMMA ChangedTurns ==
  ASSUME NEW x, Good(x)
  PROVE  /\ ChangedPage(x) \in Fields
         /\ ChangedPage(x).active = x.active /\ ChangedPage(x).page = x.page
         /\ ChangedPage(x).refs = {} /\ ~ChangedPage(x).obs.fresh
         /\ ChangedPage(x).task.at = x.task.at /\ ChangedPage(x).task.page = x.task.page
         /\ (ChangedPage(x).task.at = "walk" => ~ChangedPage(x).task.steady)
         /\ SameMode(x, ChangedPage(x))
         /\ Turns(x, ChangedPage(x))
<1> DEFINE task == [x.task EXCEPT !.steady = (x.task.at = "none")]
<1>1. NoObs \in [page : Tabs, fresh : BOOLEAN, steady : BOOLEAN] /\ ~NoObs.fresh
  BY DEF NoObs, Tabs
<1>2. /\ task \in [at : {"none", "walk"}, page : Tabs, steady : BOOLEAN]
      /\ task.at = x.task.at /\ task.page = x.task.page /\ (task.at = "walk" => ~task.steady)
  BY DEF Good, Fields
<1>3. ChangedPage(x) = [x EXCEPT !.obs = NoObs, !.refs = {}, !.task = task]
  BY DEF ChangedPage, Revise, Good, Fields
<1> HIDE DEF task
<1>4. ChangedPage(x) \in Fields
  BY <1>1, <1>2, <1>3 DEF Good, Fields
<1>5. /\ ChangedPage(x).active = x.active /\ ChangedPage(x).page = x.page
      /\ ChangedPage(x).refs = {} /\ ChangedPage(x).obs = NoObs /\ ChangedPage(x).task = task
      /\ SameMode(x, ChangedPage(x))
  BY <1>1, <1>2, <1>3 DEF Good, Fields, SameMode
<1> QED
  BY <1>1, <1>2, <1>4, <1>5 DEF Good, Turns, Keeps, Listed

LEMMA UnsteadyTurns ==
  ASSUME NEW x, Good(x)
  PROVE  /\ Turns(x, Unsteady(x)) /\ SameMode(x, Unsteady(x)) /\ ~Unsteady(x).obs.steady
         /\ (Unsteady(x).task.at = "walk" => ~Unsteady(x).task.steady)
<1> DEFINE task == [x.task EXCEPT !.steady = (x.task.at = "none")]
           obs == [x.obs EXCEPT !.steady = FALSE]
<1>1. /\ task \in [at : {"none", "walk"}, page : Tabs, steady : BOOLEAN]
      /\ task.at = x.task.at /\ task.page = x.task.page /\ (task.at = "walk" => ~task.steady)
  BY DEF Good, Fields
<1>2. /\ obs \in [page : Tabs, fresh : BOOLEAN, steady : BOOLEAN]
      /\ obs.page = x.obs.page /\ obs.fresh = x.obs.fresh /\ ~obs.steady
  BY DEF Good, Fields
<1>3. Unsteady(x) = [x EXCEPT !.obs = obs, !.task = task]
  BY DEF Unsteady, Good, Fields
<1> HIDE DEF task, obs
<1>4. Unsteady(x) \in Fields
  BY <1>1, <1>2, <1>3 DEF Good, Fields
<1>5. /\ Unsteady(x).active = x.active /\ Unsteady(x).page = x.page /\ Unsteady(x).refs = x.refs
      /\ Unsteady(x).obs = obs /\ Unsteady(x).task = task /\ SameMode(x, Unsteady(x))
  BY <1>1, <1>2, <1>3 DEF Good, Fields, SameMode
<1> QED
  BY <1>1, <1>2, <1>4, <1>5 DEF Good, Turns, Keeps, Listed

LEMMA TurnsTrans ==
  ASSUME NEW x, NEW y, NEW z, Turns(x, y), Turns(y, z)
  PROVE  Turns(x, z)
BY KeepsTrans DEF Turns

LEMMA RegisteredTurns ==
  ASSUME NEW x, Good(x), NEW p \in Pages
  PROVE  /\ Turns(x, Registered(x, p)) /\ SameMode(x, Registered(x, p))
         /\ Registered(x, p).page = [x.page EXCEPT ![p] = "open"] /\ Registered(x, p).active = p
<1> DEFINE y == [x EXCEPT !.page[p] = "open", !.active = p]
<1>1. y = [x EXCEPT !.page = [x.page EXCEPT ![p] = "open"], !.active = p]
  BY DEF Good, Fields
<1>2. y \in Fields /\ y.page = [x.page EXCEPT ![p] = "open"] /\ y.active = p
      /\ y.task = x.task /\ y.obs = x.obs /\ y.refs = x.refs /\ SameMode(x, y)
  BY <1>1 DEF Good, Fields, Tabs, SameMode
<1>3. Good(y)
  BY <1>2 DEF Good, Fields, Listed
<1>4. Registered(x, p) = ChangedPage(y)
  BY DEF Registered
<1> HIDE DEF y
<1>5. Turns(x, ChangedPage(y))
  BY <1>2, <1>3, ChangedTurns DEF Turns, Keeps
<1> QED
  BY <1>2, <1>3, <1>4, <1>5, ChangedTurns DEF SameMode

LEMMA ClosedTurns ==
  ASSUME NEW x, Good(x), NEW p \in Pages, NEW y \in PageClosed(x, p)
  PROVE  Turns(x, y) /\ SameMode(x, y) /\ y.page = [x.page EXCEPT ![p] = "closed"]
<1> DEFINE w == [x EXCEPT !.page[p] = "closed"]
<1>1. w = [x EXCEPT !.page = [x.page EXCEPT ![p] = "closed"]]
  BY DEF Good, Fields
<1>2. /\ w \in Fields /\ w.page = [x.page EXCEPT ![p] = "closed"] /\ w.active = x.active
      /\ w.task = x.task /\ w.obs = x.obs /\ w.refs = x.refs /\ SameMode(x, w)
  BY <1>1 DEF Good, Fields, SameMode
<1>3. Listed(w) = Listed(x) \ {p}
  BY <1>2 DEF Listed, Good, Fields
<1>4. \/ x.active # p /\ y = w
      \/ y = [w EXCEPT !.active = 0]
      \/ \E q \in Listed(x) \ {p} : y = ChangedPage([w EXCEPT !.active = q])
  BY DEF PageClosed
<1> HIDE DEF w
<1>5. CASE x.active # p /\ y = w
  BY <1>2, <1>3, <1>5 DEF Good, Turns, Keeps
<1>6. CASE y = [w EXCEPT !.active = 0]
  <2>1. /\ y \in Fields /\ y.page = w.page /\ y.active = 0 /\ y.task = w.task /\ y.obs = w.obs /\ y.refs = w.refs
        /\ SameMode(w, y)
    BY <1>2, <1>6 DEF Fields, Tabs, SameMode
  <2> QED
    BY <1>2, <2>1 DEF Good, Turns, Keeps, SameMode
<1>7. ASSUME NEW q \in Listed(x) \ {p}, y = ChangedPage([w EXCEPT !.active = q])
      PROVE  Turns(x, y) /\ SameMode(x, y) /\ y.page = [x.page EXCEPT ![p] = "closed"]
  <2> DEFINE v == [w EXCEPT !.active = q]
  <2>1. /\ v \in Fields /\ v.page = w.page /\ v.active = q /\ v.task = w.task /\ v.obs = w.obs /\ v.refs = w.refs
        /\ SameMode(w, v)
    BY <1>2, <1>7 DEF Fields, Tabs, SameMode, Listed
  <2> HIDE DEF v
  <2>2. Good(v)
    BY <1>2, <1>3, <2>1 DEF Good, Listed
  <2>3. y = ChangedPage(v)
    BY <1>7 DEF v
  <2> QED
    BY <1>2, <2>1, <2>2, <2>3, ChangedTurns DEF Turns, Keeps, SameMode
<1> QED
  BY <1>4, <1>5, <1>6, <1>7

(* Flags, the old tab and the mode are no concern of the references.       *)
LEMMA FlagsTurn ==
  ASSUME NEW x, Good(x), NEW y \in Fields,
         y.page = x.page /\ y.active = x.active /\ y.task = x.task /\ y.obs = x.obs,
         y.refs = x.refs \/ y.refs = {}
  PROVE  Turns(x, y)
BY DEF Good, Turns, Keeps, Listed

LEMMA EmptiedTurns ==
  ASSUME NEW x, Good(x)
  PROVE  Turns(x, Emptied(x)) /\ SameMode(x, Emptied(x))
<1> DEFINE shut == [p \in Pages |-> "closed"]
<1>1. shut \in [Pages -> {"closed", "new", "open", "crashed"}]
  OBVIOUS
<1>2. Emptied(x) = [x EXCEPT !.page = shut, !.active = 0]
  BY DEF Emptied
<1> HIDE DEF shut
<1>3. /\ Emptied(x) \in Fields /\ Emptied(x).active = 0 /\ Emptied(x).task = x.task /\ Emptied(x).obs = x.obs
      /\ Emptied(x).refs = x.refs /\ SameMode(x, Emptied(x))
  BY <1>1, <1>2, ZenonT(60) DEF Good, Fields, Tabs, SameMode
<1> QED
  BY <1>3 DEF Good, Turns, Keeps

LEMMA FreshGood ==
  /\ Good(Fresh) /\ ~Fresh.obs.fresh /\ Fresh.refs = {} /\ Fresh.task.at = "none"
  /\ Fresh.active = 0 /\ \A p \in Pages : Fresh.page[p] = "closed"
<1> DEFINE shut == [p \in Pages |-> "closed"]
<1>1. shut \in [Pages -> {"closed", "new", "open", "crashed"}]
  OBVIOUS
<1>2. \A p \in Pages : shut[p] = "closed"
  OBVIOUS
<1>3. NoTask \in [at : {"none", "walk"}, page : Tabs, steady : BOOLEAN] /\ NoTask.at = "none"
  BY DEF NoTask, Tabs
<1>4. NoObs \in [page : Tabs, fresh : BOOLEAN, steady : BOOLEAN] /\ ~NoObs.fresh
  BY DEF NoObs, Tabs
<1>5. Fresh = [page |-> shut, active |-> 0, manualMode |-> FALSE, transitioning |-> FALSE, closing |-> FALSE,
               unresponsive |-> FALSE, old |-> 0, refs |-> {}, task |-> NoTask, obs |-> NoObs]
  BY DEF Fresh
<1> HIDE DEF shut
<1> QED
  BY <1>1, <1>2, <1>3, <1>4, <1>5 DEF Good, Fields, Tabs

LEMMA LaunchedTurns ==
  ASSUME NEW x, Good(x), NEW p \in Pages
  PROVE  Turns(x, Launched(x, p)) /\ SameMode(x, Launched(x, p)) /\ Launched(x, p).active = p
<1> DEFINE y == [x EXCEPT !.closing = FALSE]
<1>1. y \in Fields /\ y.page = x.page /\ y.active = x.active /\ y.task = x.task /\ y.obs = x.obs /\ y.refs = x.refs
      /\ SameMode(x, y)
  BY DEF Good, Fields, SameMode
<1>2. Turns(x, y) /\ Good(y)
  BY <1>1, FlagsTurn DEF Turns
<1>3. Launched(x, p) = Registered(y, p)
  BY DEF Launched
<1> HIDE DEF y
<1>4. Turns(y, Registered(y, p)) /\ SameMode(y, Registered(y, p)) /\ Registered(y, p).active = p
  BY <1>2, RegisteredTurns
<1>5. Turns(x, Registered(y, p))
  BY <1>2, <1>4, TurnsTrans
<1> QED
  BY <1>1, <1>3, <1>4, <1>5 DEF SameMode

-----------------------------------------------------------------------------
(* The invariant.                                                          *)
Between == {"newpage", "leave", "return", "cast", "close", "profile", "open", "launch", "launched", "catch"}
Busy == Between \cup {"goto"}
Stages == Busy \cup {"idle", "probe", "front", "clear", "landing"}

Placed ==
  /\ op \in [Ops -> Stages] /\ late \subseteq Ops
  /\ {context, marker, up, overlap} \subseteq BOOLEAN
  /\ manual \in {"none", "new", "open"} /\ others \in Nat
  /\ ~up => b = Fresh /\ ~context /\ manual = "none" /\ \A k \in Ops : op[k] = "idle"

(* One command at a time is between the browsers, and says so; what it has *)
(* waited for holds; and the file or the human's browser keeps the agent's *)
(* tools away.                                                             *)
AgentsOwn == IF context THEN 1 ELSE 0
HumansOwn == IF manual = "open" THEN 1 ELSE 0
Browsers == others + AgentsOwn + HumansOwn
Alone ==
  /\ \A k \in Ops : op[k] \in Between => b.transitioning
  /\ \A j, k \in Ops : op[j] \in Busy /\ op[k] \in Busy => j = k
Switched ==
  /\ Alone
  /\ Browsers <= 1
  /\ up /\ (marker \/ manual = "open") => b.manualMode \/ b.transitioning
  /\ \A k \in Ops :
       /\ op[k] = "open" => ~context /\ others = 0
       /\ op[k] \in {"profile", "open"} => b.manualMode
       /\ op[k] \in {"newpage", "goto"} => ~marker /\ manual # "open"
       /\ op[k] = "launched" => manual # "open"

(* What a reference leads to.                                              *)
Referred ==
  /\ Good(b)
  /\ b.task.at = "walk" => b.task.page \in Pages /\ ~b.obs.fresh /\ b.refs \subseteq {b.task.page}
  /\ b.obs.fresh => b.refs \subseteq {b.obs.page}
  /\ b.task.at = "walk" /\ b.task.steady => b.task.page = b.active \/ b.active = 0 \/ Fronting
  /\ b.obs.fresh /\ b.obs.steady => b.obs.page = b.active \/ b.active = 0 \/ Fronting

IInv == Placed /\ Referred /\ (overlap \/ Switched)

LEMMA IInvSafe == IInv => OneBrowser /\ NoToolInLogin /\ SeenIsActedOn
<1> SUFFICES ASSUME IInv PROVE OneBrowser /\ NoToolInLogin /\ SeenIsActedOn
  OBVIOUS
<1>1. OneBrowser
  <2>1. TypeOK
    BY DEF IInv, Placed, Referred, Good, Fields, TypeOK
  <2> QED
    BY <2>1 DEF IInv, Switched, Browsers, AgentsOwn, HumansOwn, OneBrowser
<1>2. NoToolInLogin
  <2> SUFFICES ASSUME ~overlap, requirePage PROVE ~marker /\ manual # "open"
    BY DEF NoToolInLogin
  <2>1. ~b.manualMode /\ ~b.transitioning /\ b.active # 0
    BY DEF requirePage
  <2>2. up
    BY <2>1, FreshGood DEF IInv, Placed
  <2> QED
    BY <2>1, <2>2 DEF IInv, Switched
<1>3. SeenIsActedOn
  <2> SUFFICES ASSUME NEW p \in Pages, b.task.at = "none", handleFor(p)
               PROVE  p = b.obs.page /\ (b.obs.steady => p = b.active \/ Fronting)
    BY DEF SeenIsActedOn
  <2>1. b.active # 0 /\ b.obs.fresh /\ p \in b.refs
    BY DEF handleFor, requirePage
  <2> QED
    BY <2>1 DEF IInv, Referred
<1> QED
  BY <1>1, <1>2, <1>3

LEMMA InitInv == Init => IInv
<1> SUFFICES ASSUME Init PROVE IInv
  OBVIOUS
<1>1. Placed
  BY DEF Init, Placed, Stages
<1>2. Referred
  BY FreshGood DEF Init, Referred
<1>3. Switched
  BY DEF Init, Switched, Alone, Browsers, AgentsOwn, HumansOwn, Between, Busy
<1> QED
  BY <1>1, <1>2, <1>3 DEF IInv

LEMMA TurnsReferred ==
  ASSUME Referred, Turns(b, b'),
         (Fronting => Fronting') \/ ((b'.obs.fresh => ~b'.obs.steady) /\ (b'.task.at = "walk" => ~b'.task.steady))
  PROVE  Referred'
<1>1. Good(b')
  BY DEF Turns
<1>2. Keeps(b, b')
  BY DEF Turns
<1>3. b'.task.at = "walk" => b'.task.page \in Pages /\ ~b'.obs.fresh /\ b'.refs \subseteq {b'.task.page}
  BY <1>2 DEF Referred, Keeps
<1>4. b'.obs.fresh => b'.refs \subseteq {b'.obs.page}
  BY <1>2 DEF Referred, Keeps
<1>5. b'.task.at = "walk" /\ b'.task.steady => b'.task.page = b'.active \/ b'.active = 0 \/ Fronting'
  BY <1>2 DEF Referred, Keeps
<1>6. b'.obs.fresh /\ b'.obs.steady => b'.obs.page = b'.active \/ b'.active = 0 \/ Fronting'
  BY <1>2 DEF Referred, Keeps
<1> QED
  BY <1>1, <1>3, <1>4, <1>5, <1>6 DEF Referred

LEMMA OwnType == /\ AgentsOwn \in 0 .. 1 /\ AgentsOwn' \in 0 .. 1
                 /\ HumansOwn \in 0 .. 1 /\ HumansOwn' \in 0 .. 1
BY DEF AgentsOwn, HumansOwn

LEMMA FewerIsFewer ==
  ASSUME NEW n \in Nat, NEW c \in 0 .. 1, NEW d \in 0 .. 1, NEW e \in 0 .. 1, NEW f \in 0 .. 1,
         n + c + d <= 1, e <= c, f <= d
  PROVE  n + e + f <= 1
OBVIOUS

LEMMA FewerBrowsers ==
  ASSUME Placed, Browsers <= 1, UNCHANGED others, context' => context, manual' = "open" => manual = "open"
  PROVE  Browsers' <= 1
<1>1. AgentsOwn' <= AgentsOwn /\ HumansOwn' <= HumansOwn
  BY DEF AgentsOwn, HumansOwn
<1>2. others \in Nat /\ others' = others
  BY DEF Placed
<1>3. others + AgentsOwn + HumansOwn <= 1
  BY DEF Browsers
<1>4. others' + AgentsOwn' + HumansOwn' <= 1
  BY <1>1, <1>2, <1>3, OwnType, FewerIsFewer
<1> QED
  BY <1>4 DEF Browsers

(* A step that starts or settles nothing.                                  *)
LEMMA SameSwitched ==
  ASSUME Placed, Switched, SameMode(b, b'), UNCHANGED <<up, marker, others>>,
         context' => context, manual' = "open" => manual = "open",
         \A k \in Ops : \/ op'[k] = op[k]
                        \/ op[k] \notin Busy /\ op'[k] \notin Busy
                        \/ op[k] \in Between /\ op'[k] \in {"close", "launch", "catch"}
  PROVE  Switched'
<1>1. Alone'
  BY DEF Switched, Alone, SameMode, Between, Busy
<1>2. (Browsers <= 1)'
  BY FewerBrowsers DEF Switched
<1>3. (up /\ (marker \/ manual = "open") => b.manualMode \/ b.transitioning)'
  <2>1. up /\ (marker \/ manual = "open") => b.manualMode \/ b.transitioning
    BY DEF Switched
  <2>2. (up' => up) /\ (marker' => marker)
    OBVIOUS
  <2>3. (b.manualMode => b'.manualMode) /\ (b.transitioning => b'.transitioning)
    BY DEF SameMode
  <2> QED
    BY <2>1, <2>2, <2>3
<1>4. ASSUME NEW k \in Ops
      PROVE  /\ op'[k] = "open" => ~context' /\ others' = 0
             /\ op'[k] \in {"profile", "open"} => b'.manualMode
             /\ op'[k] \in {"newpage", "goto"} => ~marker' /\ manual' # "open"
             /\ op'[k] = "launched" => manual' # "open"
  BY DEF Switched, SameMode, Between, Busy
<1> QED
  BY <1>1, <1>2, <1>3, <1>4 DEF Switched

(* Nothing goes on in a worker that is not there.                          *)
LEMMA WhileUp ==
  ASSUME Placed
  PROVE  /\ context \/ manual # "none" => up
         /\ \A k \in Ops : op[k] # "idle" => up
         /\ \A p \in Pages : b.page[p] # "closed" => up
         /\ b.task.at = "walk" \/ b.active # 0 => up
BY FreshGood DEF Placed

LEMMA ToMoves ==
  ASSUME Placed, NEW k \in Ops, NEW at \in Stages, To(k, at)
  PROVE  /\ op' \in [Ops -> Stages] /\ op'[k] = at /\ \A j \in Ops : j # k => op'[j] = op[j]
         /\ late' \subseteq Ops
         /\ op[k] # "front" => (Fronting => Fronting')
BY DEF Placed, To, Fronting

(* What is left of a step of command k, when its fields turn.              *)
LEMMA CommandStep ==
  ASSUME IInv, NEW k \in Ops, NEW at \in Stages, To(k, at), up, UNCHANGED up,
         {context', marker', overlap'} \subseteq BOOLEAN,
         manual' \in {"none", "new", "open"}, others' \in Nat,
         Turns(b, b'),
         op[k] # "front" \/ ((b'.obs.fresh => ~b'.obs.steady) /\ (b'.task.at = "walk" => ~b'.task.steady)),
         overlap => overlap', Switched => overlap' \/ Switched'
  PROVE  IInv'
<1>1. Placed'
  BY ToMoves DEF IInv, Placed
<1>2. Referred'
  BY ToMoves, TurnsReferred DEF IInv
<1> QED
  BY <1>1, <1>2 DEF IInv

(* The command that is busy goes on: the others wait.                      *)
LEMMA BusySwitched ==
  ASSUME Placed, Switched, NEW k \in Ops, NEW at \in Stages, To(k, at), op[k] \in Busy,
         at \in Between => b'.transitioning,
         (Browsers <= 1)',
         marker' \/ manual' = "open" => b'.manualMode \/ b'.transitioning,
         at = "open" => ~context' /\ others' = 0,
         at \in {"profile", "open"} => b'.manualMode,
         at \in {"newpage", "goto"} => ~marker' /\ manual' # "open",
         at = "launched" => manual' # "open"
  PROVE  Switched'
<1>1. ASSUME NEW j \in Ops, op'[j] \in Busy PROVE j = k /\ op'[j] = at
  <2>1. CASE j = k
    BY <2>1, ToMoves
  <2>2. CASE j # k
    BY <1>1, <2>2, ToMoves DEF Switched, Alone
  <2> QED
    BY <2>1, <2>2
<1>2. Alone'
  BY <1>1 DEF Alone, Busy
<1>3. ASSUME NEW j \in Ops
      PROVE  /\ op'[j] = "open" => ~context' /\ others' = 0
             /\ op'[j] \in {"profile", "open"} => b'.manualMode
             /\ op'[j] \in {"newpage", "goto"} => ~marker' /\ manual' # "open"
             /\ op'[j] = "launched" => manual' # "open"
  BY <1>1 DEF Busy, Between
<1> QED
  BY <1>2, <1>3 DEF Switched

(* A command starts a switch while none is under way.                      *)
LEMMA BeginSwitched ==
  ASSUME Placed, Switched, NEW k \in Ops, NEW at \in {"leave", "return", "newpage"}, To(k, at),
         up, UNCHANGED up, ~b.transitioning, \A j \in Ops : op[j] # "goto",
         b'.transitioning, b'.manualMode = b.manualMode, UNCHANGED <<context, manual, marker, others>>,
         at = "newpage" => ~b.manualMode
  PROVE  Switched'
<1>0. at \in Stages /\ at \in Between /\ Browsers' = Browsers
  BY DEF Stages, Between, Busy, Browsers, AgentsOwn, HumansOwn
<1>1. ASSUME NEW j \in Ops, op'[j] \in Busy PROVE j = k /\ op'[j] = at
  <2>1. CASE j = k
    BY <1>0, <2>1, ToMoves
  <2>2. CASE j # k
    BY <1>0, <1>1, <2>2, ToMoves DEF Switched, Alone, Busy
  <2> QED
    BY <2>1, <2>2
<1>2. Alone'
  BY <1>1 DEF Alone, Busy
<1>3. at = "newpage" => ~marker /\ manual # "open"
  BY DEF Switched
<1>4. ASSUME NEW j \in Ops
      PROVE  /\ op'[j] = "open" => ~context' /\ others' = 0
             /\ op'[j] \in {"profile", "open"} => b'.manualMode
             /\ op'[j] \in {"newpage", "goto"} => ~marker' /\ manual' # "open"
             /\ op'[j] = "launched" => manual' # "open"
  BY <1>1, <1>3 DEF Busy, Between
<1> QED
  BY <1>0, <1>2, <1>4 DEF Switched

-----------------------------------------------------------------------------
(* Tabs and observations.                                                  *)

LEMMA TabStep ==
  ASSUME IInv, up, Tab, Turns(b, b'), SameMode(b, b')
  PROVE  IInv'
<1>1. UNCHANGED <<context, manual, others, marker, op, late, up, overlap>>
  BY DEF Tab, cmds
<1>2. Placed'
  BY <1>1 DEF IInv, Placed
<1>3. Fronting => Fronting'
  BY <1>1 DEF Fronting
<1>4. Referred'
  BY <1>3, TurnsReferred DEF IInv
<1>5. Switched => Switched'
  BY <1>1, SameSwitched DEF IInv
<1> QED
  BY <1>1, <1>2, <1>4, <1>5 DEF IInv

LEMMA TabsInv ==
  ASSUME IInv, NEW p \in Pages, Popup(p) \/ RegisterPage(p) \/ Navigated(p) \/ Crashes(p) \/ Closes(p)
  PROVE  IInv'
<1>1. Good(b) /\ b \in Fields /\ Placed
  BY DEF IInv, Referred, Good
<1>2. CASE Popup(p)
  <2>1. b' = [b EXCEPT !.page = [b.page EXCEPT ![p] = "new"]] /\ up /\ b.page[p] = "closed" /\ Tab
    BY <1>1, <1>2, WhileUp DEF Popup, NewPage, Unused, Fields
  <2>2. /\ b' \in Fields /\ b'.page = [b.page EXCEPT ![p] = "new"] /\ b'.active = b.active
        /\ b'.task = b.task /\ b'.obs = b.obs /\ b'.refs = b.refs /\ SameMode(b, b')
    BY <1>1, <2>1 DEF Fields, SameMode
  <2>3. Listed(b') = Listed(b)
    BY <1>1, <2>1, <2>2 DEF Listed, Fields
  <2>4. Turns(b, b')
    BY <1>1, <2>2, <2>3 DEF Turns, Keeps, Good
  <2> QED
    BY <2>1, <2>2, <2>4, TabStep
<1>3. CASE RegisterPage(p)
  <2>1. up /\ Tab /\ b' = Registered(b, p)
    BY <1>1, <1>3, WhileUp DEF RegisterPage
  <2> QED
    BY <1>1, <2>1, RegisteredTurns, TabStep
<1>4. CASE Navigated(p)
  <2>1. up /\ Tab /\ b' = ChangedPage(b)
    BY <1>1, <1>4, WhileUp DEF Navigated
  <2> QED
    BY <1>1, <2>1, ChangedTurns, TabStep
<1>5. CASE Crashes(p)
  <2> DEFINE x == [b EXCEPT !.page[p] = "crashed"]
  <2>1. x = [b EXCEPT !.page = [b.page EXCEPT ![p] = "crashed"]] /\ up /\ b.page[p] = "open" /\ Tab
        /\ (b' = ChangedPage(x) \/ b' = x)
    BY <1>1, <1>5, WhileUp DEF Crashes, Fields
  <2>2. /\ x \in Fields /\ x.page = [b.page EXCEPT ![p] = "crashed"] /\ x.active = b.active
        /\ x.task = b.task /\ x.obs = b.obs /\ x.refs = b.refs /\ SameMode(b, x)
    BY <1>1, <2>1 DEF Fields, SameMode
  <2> HIDE DEF x
  <2>3. Listed(x) = Listed(b)
    BY <1>1, <2>1, <2>2 DEF Listed, Fields
  <2>4. Turns(b, x) /\ Good(x)
    BY <1>1, <2>2, <2>3 DEF Turns, Keeps, Good
  <2>5. Turns(x, ChangedPage(x)) /\ SameMode(x, ChangedPage(x))
    BY <2>4, ChangedTurns
  <2>6. Turns(b, ChangedPage(x)) /\ SameMode(b, ChangedPage(x))
    BY <2>2, <2>4, <2>5, TurnsTrans DEF SameMode
  <2> QED
    BY <2>1, <2>2, <2>4, <2>6, TabStep
<1>6. CASE Closes(p)
  <2>1. up /\ Tab /\ b' \in PageClosed(b, p)
    BY <1>1, <1>6, WhileUp DEF Closes
  <2> QED
    BY <1>1, <2>1, ClosedTurns, TabStep
<1> QED
  BY <1>2, <1>3, <1>4, <1>5, <1>6

LEMMA TimedTurns ==
  ASSUME NEW x, Good(x)
  PROVE  Turns(x, TimedOut(x)) /\ SameMode(x, TimedOut(x)) /\ Good(TimedOut(x))
<1>1. /\ TimedOut(x) \in Fields /\ TimedOut(x).page = x.page /\ TimedOut(x).active = x.active
      /\ TimedOut(x).task = x.task /\ TimedOut(x).obs = x.obs /\ TimedOut(x).refs = x.refs
      /\ SameMode(x, TimedOut(x))
  BY DEF TimedOut, Good, Fields, SameMode
<1> QED
  BY <1>1, FlagsTurn DEF Turns

LEMMA ReopenedInv == ASSUME IInv, Reopened PROVE IInv'
<1>1. Good(b) /\ up /\ Tab
  BY DEF IInv, Referred, Reopened
<1>2. ASSUME NEW p \in Pages, b' = Registered(b, p) PROVE IInv'
  BY <1>1, <1>2, RegisteredTurns, TabStep
<1>3. CASE b' = TimedOut(b)
  BY <1>1, <1>3, TimedTurns, TabStep
<1> QED
  BY <1>2, <1>3 DEF Reopened, TimedOut

(* A walk that goes on, or ends.                                           *)
LEMMA ObservingInv == ASSUME IInv, Observe \/ WalkFrame \/ Observed PROVE IInv'
<1>0. Good(b) /\ b \in Fields /\ Placed /\ Referred
  BY DEF IInv, Referred, Good
<1>1. Tab /\ UNCHANGED <<context, manual, others, marker, op, late, up, overlap>> /\ up
  BY <1>0, WhileUp DEF Observe, WalkFrame, Observed, Tab, cmds
<1>2. ASSUME SameMode(b, b'), Referred' PROVE IInv'
  <2>1. Placed'
    BY <1>0, <1>1 DEF Placed
  <2>2. Switched => Switched'
    BY <1>0, <1>1, <1>2, SameSwitched
  <2> QED
    BY <1>1, <1>2, <2>1, <2>2 DEF IInv
<1>3. Fronting' = Fronting
  BY <1>1 DEF Fronting
<1>4. NoObs \in [page : Tabs, fresh : BOOLEAN, steady : BOOLEAN] /\ ~NoObs.fresh
      /\ NoTask \in [at : {"none", "walk"}, page : Tabs, steady : BOOLEAN] /\ NoTask.at = "none"
  BY DEF NoObs, NoTask, Tabs
<1>5. CASE Observe
  <2> DEFINE task == [at |-> "walk", page |-> b.active, steady |-> TRUE]
  <2>1. b' = [b EXCEPT !.obs = NoObs, !.refs = {}, !.task = task]
    BY <1>0, <1>5 DEF Observe, Revise, Fields
  <2>2. task \in [at : {"none", "walk"}, page : Tabs, steady : BOOLEAN] /\ task.page = b.active /\ b.active \in Pages
    BY <1>0, <1>5 DEF Fields, Observe, requirePage, Tabs
  <2> HIDE DEF task
  <2>3. /\ b' \in Fields /\ b'.page = b.page /\ b'.active = b.active /\ b'.refs = {} /\ b'.obs = NoObs /\ b'.task = task
        /\ SameMode(b, b')
    BY <1>0, <1>4, <2>1, <2>2 DEF Fields, SameMode
  <2>4. Good(b')
    BY <1>0, <2>3 DEF Good, Listed
  <2> QED
    BY <1>2, <1>4, <2>2, <2>3, <2>4 DEF Referred
<1>6. CASE WalkFrame
  <2>1. b.task.at = "walk" /\ b' = [b EXCEPT !.refs = b.refs \cup {b.task.page}] /\ b.page[b.task.page] = "open"
    BY <1>6 DEF WalkFrame
  <2>2. b.task.page \in Pages
    BY <1>0, <2>1 DEF Referred
  <2>3. /\ b' \in Fields /\ b'.page = b.page /\ b'.active = b.active /\ b'.refs = b.refs \cup {b.task.page}
        /\ b'.obs = b.obs /\ b'.task = b.task /\ SameMode(b, b')
    BY <1>0, <2>1, <2>2 DEF Fields, SameMode
  <2>4. Good(b')
    BY <1>0, <2>3 DEF Good, Listed
  <2> QED
    BY <1>0, <1>2, <1>3, <2>1, <2>3, <2>4 DEF Referred
<1>7. CASE Observed
  <2> DEFINE obs == IF requirePage THEN [page |-> b.task.page, fresh |-> TRUE, steady |-> b.task.steady] ELSE b.obs
  <2>1. b' = [b EXCEPT !.task = NoTask, !.obs = obs] /\ b.task.at = "walk"
    BY <1>0, <1>7 DEF Observed, Fields
  <2>2. /\ obs \in [page : Tabs, fresh : BOOLEAN, steady : BOOLEAN]
        /\ obs.fresh => obs.page = b.task.page /\ obs.steady = b.task.steady
    BY <1>0, <2>1 DEF Fields, Referred
  <2> HIDE DEF obs
  <2>3. /\ b' \in Fields /\ b'.page = b.page /\ b'.active = b.active /\ b'.refs = b.refs
        /\ b'.obs = obs /\ b'.task = NoTask /\ SameMode(b, b')
    BY <1>0, <1>4, <2>1, <2>2 DEF Fields, SameMode
  <2>4. Good(b')
    BY <1>0, <2>3 DEF Good, Listed
  <2>5. b'.obs.fresh => b'.refs \subseteq {b'.obs.page}
    BY <1>0, <2>1, <2>2, <2>3 DEF Referred
  <2>6. b'.obs.fresh /\ b'.obs.steady => b'.obs.page = b'.active \/ b'.active = 0 \/ Fronting'
    BY <1>0, <1>3, <2>1, <2>2, <2>3 DEF Referred
  <2> QED
    BY <1>2, <1>4, <2>3, <2>4, <2>5, <2>6 DEF Referred
<1> QED
  BY <1>5, <1>6, <1>7

LEMMA ActInv == ASSUME IInv, Act PROVE IInv'
<1>1. Good(b) /\ up /\ Tab /\ b' = Revise(b)
  BY DEF IInv, Referred, Act
<1> QED
  BY <1>1, ReviseTurns, TabStep

-----------------------------------------------------------------------------
(* The worker and its browsers come and go.                                *)

LEMMA DeathsInv == ASSUME IInv, OtherEnds \/ ChromiumDies \/ ManualDies PROVE IInv'
<1>0. Good(b) /\ b \in Fields /\ Placed /\ Referred
  BY DEF IInv, Referred, Good
<1>1. ASSUME UNCHANGED <<op, late, up, marker, overlap>>, Turns(b, b'), SameMode(b, b'), Placed',
             context' => context, manual' = "open" => manual = "open",
             UNCHANGED others \/ (UNCHANGED <<context, manual>> /\ others' = others - 1 /\ others > 0)
      PROVE  IInv'
  <2>1. Referred'
    BY <1>0, <1>1, TurnsReferred DEF Fronting
  <2>2. CASE UNCHANGED others
    <3>1. Switched => Switched'
      BY <1>0, <1>1, <2>2, SameSwitched
    <3> QED
      BY <1>1, <2>1, <3>1 DEF IInv
  <2>3. CASE UNCHANGED <<context, manual>> /\ others' = others - 1 /\ others > 0
    <3>1. Browsers <= 1 => Browsers' <= 1
      <4>1. AgentsOwn' = AgentsOwn /\ HumansOwn' = HumansOwn /\ others \in Nat
        BY <1>0, <2>3 DEF AgentsOwn, HumansOwn, Placed
      <4> QED
        BY <2>3, <4>1, OwnType DEF Browsers
    <3>2. Switched => Switched'
      BY <1>0, <1>1, <2>3, <3>1 DEF Switched, Alone, SameMode, Placed
    <3> QED
      BY <1>1, <2>1, <3>2 DEF IInv
  <2> QED
    BY <1>1, <2>2, <2>3
<1>2. CASE OtherEnds
  <2>1. Turns(b, b')
    BY <1>0, <1>2, FlagsTurn DEF OtherEnds
  <2>2. Placed'
    BY <1>0, <1>2 DEF OtherEnds, cmds, Placed
  <2> QED
    BY <1>1, <1>2, <2>1, <2>2 DEF OtherEnds, cmds, SameMode
<1>3. CASE ChromiumDies
  <2>1. up
    BY <1>0, <1>3, WhileUp DEF ChromiumDies
  <2>2. Placed'
    BY <1>0, <1>3, <2>1 DEF ChromiumDies, cmds, Placed
  <2> QED
    BY <1>0, <1>1, <1>3, <2>2, EmptiedTurns DEF ChromiumDies, cmds
<1>4. CASE ManualDies
  <2>1. up
    BY <1>0, <1>4, WhileUp DEF ManualDies
  <2>2. Placed'
    BY <1>0, <1>4, <2>1 DEF ManualDies, cmds, Placed
  <2>3. Turns(b, b')
    BY <1>0, <1>4, FlagsTurn DEF ManualDies
  <2> QED
    BY <1>1, <1>4, <2>2, <2>3 DEF ManualDies, cmds, SameMode
<1> QED
  BY <1>2, <1>3, <1>4

LEMMA WorkerDiesInv == ASSUME IInv, WorkerDies PROVE IInv'
<1>1. /\ b' = Fresh /\ up' = FALSE /\ context' = FALSE /\ manual' = "none" /\ others' = Browsers
      /\ op' = [k \in Ops |-> "idle"] /\ late' = {} /\ UNCHANGED <<marker, overlap>>
  BY DEF WorkerDies, Browsers, AgentsOwn, HumansOwn
<1>2. Browsers \in Nat
  BY OwnType DEF IInv, Placed, Browsers
<1>3. Placed'
  BY <1>1, <1>2 DEF IInv, Placed, Stages
<1>4. Referred'
  BY <1>1, FreshGood DEF Referred
<1>5. Switched => Switched'
  <2>1. Browsers' = Browsers
    BY <1>1, <1>2 DEF Browsers, AgentsOwn, HumansOwn
  <2>2. \A k \in Ops : op'[k] = "idle"
    BY <1>1
  <2> QED
    BY <1>1, <2>1, <2>2 DEF Switched, Alone, Between, Busy
<1> QED
  BY <1>1, <1>3, <1>4, <1>5 DEF IInv

LEMMA StartInv == ASSUME IInv, Start PROVE IInv'
<1>0. Good(b) /\ b \in Fields /\ Placed /\ Referred /\ ~up
  BY DEF IInv, Referred, Good, Start
<1>1. /\ ~context /\ manual # "open" /\ others = 0 /\ up' /\ UNCHANGED <<others, marker, op, late, overlap>>
      /\ \A k \in Ops : op[k] = "idle"
  BY <1>0 DEF Start, ProfileFree, cmds, Placed
<1>2. up' \in BOOLEAN
  BY DEF Start
<1>3. ASSUME Turns(b, b'), marker => b'.manualMode, {context'} \subseteq BOOLEAN, manual' \in {"none", "open"},
             ~(context' /\ manual' = "open"), manual' = "open" => marker
      PROVE  IInv'
  <2>1. Placed'
    BY <1>0, <1>1, <1>2, <1>3 DEF Placed
  <2>2. Referred'
    BY <1>0, <1>1, <1>3, TurnsReferred DEF Fronting
  <2>3. Browsers' <= 1
    BY <1>1, <1>3 DEF Browsers, AgentsOwn, HumansOwn
  <2>4. Switched'
    BY <1>1, <1>3, <2>3 DEF Switched, Alone, Between, Busy
  <2> QED
    BY <1>1, <2>1, <2>2, <2>4 DEF IInv
<1>4. CASE marker /\ b' = [b EXCEPT !.manualMode = TRUE] /\ manual' = "open" /\ UNCHANGED context
  <2>1. /\ b' \in Fields /\ b'.page = b.page /\ b'.active = b.active /\ b'.task = b.task /\ b'.obs = b.obs
        /\ b'.refs = b.refs /\ b'.manualMode
    BY <1>0, <1>4 DEF Fields
  <2>2. Turns(b, b')
    BY <1>0, <2>1, FlagsTurn
  <2> QED
    BY <1>0, <1>1, <1>3, <1>4, <2>1, <2>2 DEF Placed
<1>5. ASSUME NEW p \in Pages, ~marker, b' = Launched(b, p), context' = TRUE, UNCHANGED manual
      PROVE  IInv'
  <2>1. Turns(b, b')
    BY <1>0, <1>5, LaunchedTurns
  <2>2. manual = "none"
    BY <1>0 DEF Placed
  <2> QED
    BY <1>1, <1>3, <1>5, <2>1, <2>2
<1> QED
  BY <1>4, <1>5 DEF Start

-----------------------------------------------------------------------------
(* Commands that start no switch.                                          *)

LEMMA QuietCommand ==
  ASSUME IInv, NEW k \in Ops, NEW at \in Stages, To(k, at), up, Free,
         Turns(b, b'), SameMode(b, b'),
         op[k] # "front" \/ ((b'.obs.fresh => ~b'.obs.steady) /\ (b'.task.at = "walk" => ~b'.task.steady)),
         (op[k] \notin Busy /\ at \notin Busy) \/ (op[k] \in Between /\ at \in {"close", "launch", "catch"})
  PROVE  IInv'
<1>1. UNCHANGED <<context, manual, marker, others, up, overlap>>
  BY DEF Free, Commands
<1>2. Placed
  BY DEF IInv
<1>3. Switched => Switched'
  BY <1>1, <1>2, ToMoves, SameSwitched
<1>4. {context', marker', overlap'} \subseteq BOOLEAN /\ manual' \in {"none", "new", "open"} /\ others' \in Nat
  BY <1>1, <1>2 DEF Placed
<1> QED
  BY <1>1, <1>3, <1>4, CommandStep

LEMMA SmallCommands ==
  ASSUME IInv, NEW k \in Ops,
         Probe(k) \/ ProbeAnswers(k) \/ ClearSiteData(k) \/ SiteCleared(k) \/ Fronted(k) \/ FrontFails(k)
           \/ Landed(k) \/ GivesUp(k) \/ CastEnds(k)
  PROVE  IInv'
<1>0. Good(b) /\ b \in Fields /\ Placed
  BY DEF IInv, Referred, Good
<1>1. {"idle", "probe", "clear", "front", "landing", "close", "catch"} \subseteq Stages
  BY DEF Stages, Busy, Between
<1>2. {"idle", "probe", "clear", "front", "landing"} \cap Busy = {}
  BY DEF Busy, Between
<1>3. Turns(b, b) /\ SameMode(b, b)
  BY <1>0, FlagsTurn DEF SameMode
<1>4. Turns(b, Refreshed(b)) /\ SameMode(b, Refreshed(b))
  BY <1>0, <1>3, ChangedTurns DEF Refreshed
<1>5. \A y \in Navigates(b) : Turns(b, y) /\ SameMode(b, y)
  BY <1>0, <1>3, ReviseTurns DEF Navigates
<1>6. CASE Probe(k)
  <2>1. To(k, "probe") /\ up /\ op[k] = "idle" /\ b' = b /\ Free
    BY <1>6 DEF Probe, Given
  <2> QED
    BY <1>1, <1>2, <1>3, <2>1, QuietCommand
<1>7. CASE ProbeAnswers(k)
  <2> DEFINE x == [b EXCEPT !.unresponsive = FALSE]
  <2>1. To(k, "idle") /\ up /\ op[k] = "probe" /\ Free /\ (b' = b \/ b' = x \/ b' = Refreshed(x))
    BY <1>0, <1>7, WhileUp DEF ProbeAnswers
  <2>2. /\ x \in Fields /\ x.page = b.page /\ x.active = b.active /\ x.task = b.task /\ x.obs = b.obs
        /\ x.refs = b.refs /\ SameMode(b, x)
    BY <1>0 DEF Fields, SameMode
  <2> HIDE DEF x
  <2>3. Turns(b, x) /\ Good(x)
    BY <1>0, <2>2, FlagsTurn DEF Turns
  <2>4. Turns(x, Refreshed(x)) /\ SameMode(x, Refreshed(x))
    BY <2>3, ChangedTurns, FlagsTurn DEF Refreshed, SameMode, Good
  <2>5. Turns(b, Refreshed(x)) /\ SameMode(b, Refreshed(x))
    BY <2>2, <2>3, <2>4, TurnsTrans DEF SameMode
  <2>6. Turns(b, b') /\ SameMode(b, b')
    BY <1>3, <2>1, <2>2, <2>3, <2>5
  <2> QED
    BY <1>1, <1>2, <2>1, <2>6, QuietCommand
<1>8. CASE ClearSiteData(k)
  <2>1. To(k, "clear") /\ up /\ op[k] = "idle" /\ b' = b /\ Free
    BY <1>8 DEF ClearSiteData, Begin, Given
  <2> QED
    BY <1>1, <1>2, <1>3, <2>1, QuietCommand
<1>9. CASE SiteCleared(k) \/ Landed(k)
  <2>1. To(k, "idle") /\ up /\ op[k] \in {"clear", "landing"} /\ b' \in Navigates(b) /\ Free
    BY <1>0, <1>9, WhileUp DEF SiteCleared, Landed
  <2>2. Turns(b, b') /\ SameMode(b, b')
    BY <1>5, <2>1
  <2> QED
    BY <1>1, <1>2, <2>1, <2>2, QuietCommand
<1>10. CASE Fronted(k)
  <2>1. To(k, "idle") /\ up /\ op[k] = "front" /\ b' = ChangedPage(b) /\ Free
    BY <1>0, <1>10, WhileUp DEF Fronted
  <2>2. Turns(b, b') /\ SameMode(b, b') /\ ~b'.obs.fresh /\ (b'.task.at = "walk" => ~b'.task.steady)
    BY <1>0, <2>1, ChangedTurns
  <2> QED
    BY <1>1, <1>2, <2>1, <2>2, QuietCommand
<1>13. CASE FrontFails(k)
  <2>1. To(k, "idle") /\ up /\ op[k] = "front" /\ b' = Unsteady(b) /\ Free
    BY <1>0, <1>13, WhileUp DEF FrontFails
  <2>2. Turns(b, b') /\ SameMode(b, b') /\ ~b'.obs.steady /\ (b'.task.at = "walk" => ~b'.task.steady)
    BY <1>0, <2>1, UnsteadyTurns
  <2> QED
    BY <1>1, <1>2, <2>1, <2>2, QuietCommand
<1>11. CASE GivesUp(k)
  <2>1. To(k, "catch") /\ up /\ op[k] \in {"leave", "return", "cast", "close"} /\ Free
        /\ b' = [TimedOut(b) EXCEPT !.closing = TRUE]
    BY <1>0, <1>11, WhileUp DEF GivesUp
  <2>2. Turns(b, TimedOut(b)) /\ SameMode(b, TimedOut(b)) /\ Good(TimedOut(b))
    BY <1>0, TimedTurns
  <2>3. Turns(TimedOut(b), b') /\ SameMode(TimedOut(b), b')
    <3>1. /\ b' \in Fields /\ b'.page = TimedOut(b).page /\ b'.active = TimedOut(b).active
          /\ b'.task = TimedOut(b).task /\ b'.obs = TimedOut(b).obs /\ b'.refs = TimedOut(b).refs
          /\ SameMode(TimedOut(b), b')
      BY <2>1, <2>2 DEF Good, Fields, SameMode
    <3> QED
      BY <2>2, <3>1, FlagsTurn
  <2>4. Turns(b, b') /\ SameMode(b, b')
    BY <2>2, <2>3, TurnsTrans DEF SameMode
  <2>5. op[k] \in Between /\ op[k] # "front"
    BY <2>1 DEF Between
  <2> QED
    BY <1>1, <2>1, <2>4, <2>5, QuietCommand
<1>12. CASE CastEnds(k)
  <2>1. To(k, "close") /\ up /\ op[k] = "cast" /\ b' = b /\ Free /\ op[k] \in Between
    BY <1>0, <1>12, WhileUp DEF CastEnds, Between
  <2> QED
    BY <1>1, <1>3, <2>1, QuietCommand
<1> QED
  BY <1>6, <1>7, <1>8, <1>9, <1>10, <1>11, <1>12, <1>13

LEMMA RefreshInv == ASSUME IInv, NEW k \in Ops, Refresh(k) PROVE IInv'
<1>1. Good(b) /\ up /\ Tab /\ b' = Refreshed(b)
  BY DEF IInv, Referred, Refresh, Begin, Given, Free, Commands, Tab
<1>2. Turns(b, b) /\ SameMode(b, b)
  BY <1>1, FlagsTurn DEF SameMode, Good
<1>3. Turns(b, Refreshed(b)) /\ SameMode(b, Refreshed(b))
  BY <1>1, <1>2, ChangedTurns DEF Refreshed
<1> QED
  BY <1>1, <1>3, TabStep

LEMMA OverdueInv == ASSUME IInv, NEW k \in Ops, Overdue(k) PROVE IInv'
<1>1. Good(b) /\ Placed /\ Referred
  BY DEF IInv, Referred
<1>2. /\ up /\ UNCHANGED <<op, context, manual, marker, others, up, overlap>>
      /\ b' = TimedOut(b) /\ late' = late \cup {k}
  BY <1>1, WhileUp DEF Overdue, Free, Commands
<1>3. Turns(b, b') /\ SameMode(b, b')
  BY <1>1, <1>2, TimedTurns
<1>4. Placed'
  BY <1>1, <1>2 DEF Placed
<1>5. Referred'
  BY <1>1, <1>2, <1>3, TurnsReferred DEF Fronting
<1>6. Switched => Switched'
  BY <1>1, <1>2, <1>3, SameSwitched
<1> QED
  BY <1>2, <1>4, <1>5, <1>6 DEF IInv

(* A tab that is active before it is in front: what was seen is no longer  *)
(* the active tab, and the command says so (Fronting).                     *)
LEMMA SwitchPageInv == ASSUME IInv, NEW k \in Ops, NEW p \in Pages, SwitchPage(k, p) PROVE IInv'
<1>0. Good(b) /\ b \in Fields /\ Placed /\ Referred
  BY DEF IInv, Referred, Good
<1> DEFINE x == [b EXCEPT !.active = p]
<1>1. /\ up /\ op[k] = "idle" /\ p \in Listed(b) /\ Free
      /\ \/ b' = Revise(ChangedPage(x)) /\ UNCHANGED cmds
         \/ b' = x /\ To(k, "front")
  BY DEF SwitchPage, Begin, Given
<1>2. /\ x \in Fields /\ x.page = b.page /\ x.active = p /\ x.task = b.task /\ x.obs = b.obs
      /\ x.refs = b.refs /\ SameMode(b, x)
  BY <1>0, <1>1 DEF Fields, Tabs, SameMode
<1> HIDE DEF x
<1>3. Good(x)
  BY <1>1, <1>2 DEF Good, Listed
<1>4. CASE b' = Revise(ChangedPage(x)) /\ UNCHANGED cmds
  <2>1. Turns(b, ChangedPage(x)) /\ Good(ChangedPage(x)) /\ SameMode(b, ChangedPage(x))
    BY <1>2, <1>3, ChangedTurns DEF Turns, Keeps, SameMode
  <2>2. Turns(ChangedPage(x), b') /\ SameMode(ChangedPage(x), b')
    BY <1>4, <2>1, ReviseTurns
  <2>3. Turns(b, b') /\ SameMode(b, b')
    BY <2>1, <2>2, TurnsTrans DEF SameMode
  <2>4. Tab
    BY <1>1, <1>4 DEF Free, Commands, Tab
  <2> QED
    BY <1>1, <2>3, <2>4, TabStep
<1>5. CASE b' = x /\ To(k, "front")
  <2>1. UNCHANGED <<context, manual, marker, others, up, overlap>>
    BY <1>1 DEF Free, Commands
  <2>2. "front" \in Stages /\ "front" \notin Busy /\ "idle" \notin Busy
    BY DEF Stages, Busy, Between
  <2>3. /\ op' \in [Ops -> Stages] /\ op'[k] = "front" /\ \A j \in Ops : j # k => op'[j] = op[j]
        /\ late' \subseteq Ops
    BY <1>0, <1>5, <2>2, ToMoves
  <2>4. Placed'
    BY <1>0, <1>1, <2>1, <2>3 DEF Placed
  <2>5. Fronting'
    BY <2>3 DEF Fronting
  <2>6. Referred'
    BY <1>0, <1>2, <1>3, <1>5, <2>5 DEF Referred
  <2>7. Switched => Switched'
    BY <1>0, <1>1, <1>2, <1>5, <2>1, <2>2, <2>3, SameSwitched
  <2> QED
    BY <2>1, <2>4, <2>6, <2>7 DEF IInv
<1> QED
  BY <1>1, <1>4, <1>5

-----------------------------------------------------------------------------
(* The switches.                                                           *)

LEMMA FlagTurns ==
  ASSUME NEW x, Good(x), NEW v \in BOOLEAN
  PROVE  /\ Turns(x, [x EXCEPT !.closing = v]) /\ SameMode(x, [x EXCEPT !.closing = v])
         /\ Turns(x, [x EXCEPT !.transitioning = v])
         /\ [x EXCEPT !.transitioning = v].transitioning = v
         /\ [x EXCEPT !.transitioning = v].manualMode = x.manualMode
         /\ Turns(x, [x EXCEPT !.manualMode = v])
         /\ [x EXCEPT !.manualMode = v].manualMode = v
         /\ [x EXCEPT !.manualMode = v].transitioning = x.transitioning
<1> DEFINE c == [x EXCEPT !.closing = v]
           t == [x EXCEPT !.transitioning = v]
           m == [x EXCEPT !.manualMode = v]
<1>0. x \in Fields
  BY DEF Good
<1>1. /\ c \in Fields /\ c.page = x.page /\ c.active = x.active /\ c.task = x.task /\ c.obs = x.obs
      /\ c.refs = x.refs /\ SameMode(x, c)
  BY <1>0 DEF Fields, SameMode
<1>2. /\ t \in Fields /\ t.page = x.page /\ t.active = x.active /\ t.task = x.task /\ t.obs = x.obs
      /\ t.refs = x.refs /\ t.transitioning = v /\ t.manualMode = x.manualMode
  BY <1>0 DEF Fields
<1>3. /\ m \in Fields /\ m.page = x.page /\ m.active = x.active /\ m.task = x.task /\ m.obs = x.obs
      /\ m.refs = x.refs /\ m.manualMode = v /\ m.transitioning = x.transitioning
  BY <1>0 DEF Fields
<1> HIDE DEF c, t, m
<1>4. Turns(x, c) /\ Turns(x, t) /\ Turns(x, m)
  BY <1>1, <1>2, <1>3, FlagsTurn
<1> QED
  BY <1>1, <1>2, <1>3, <1>4 DEF c, t, m

(* The busy command's next step.                                           *)
LEMMA BusyStep ==
  ASSUME IInv, NEW k \in Ops, NEW at \in Stages, To(k, at), op[k] \in Busy, UNCHANGED <<up, overlap>>,
         {context', marker'} \subseteq BOOLEAN, manual' \in {"none", "new", "open"}, others' \in Nat,
         Turns(b, b'),
         Switched =>
           /\ at \in Between => b'.transitioning
           /\ (Browsers <= 1)'
           /\ marker' \/ manual' = "open" => b'.manualMode \/ b'.transitioning
           /\ at = "open" => ~context' /\ others' = 0
           /\ at \in {"profile", "open"} => b'.manualMode
           /\ at \in {"newpage", "goto"} => ~marker' /\ manual' # "open"
           /\ at = "launched" => manual' # "open"
  PROVE  IInv'
<1>1. Placed /\ op[k] # "front" /\ op[k] # "idle"
  BY DEF IInv, Busy, Between
<1>2. up /\ overlap' \in BOOLEAN
  BY <1>1, WhileUp DEF Placed
<1>3. Switched => Switched'
  BY <1>1, BusySwitched
<1> QED
  BY <1>1, <1>2, <1>3, CommandStep


LEMMA BeginsInv ==
  ASSUME IInv, NEW k \in Ops, RecoverPage(k) \/ \E on \in BOOLEAN : SetManual(k, on)
  PROVE  IInv'
<1>0. Good(b) /\ b \in Fields /\ Placed /\ Referred
  BY DEF IInv, Referred, Good
<1>1. ASSUME NEW at \in {"leave", "return", "newpage"}, To(k, at), Begin(k), Overlapping, Turns(b, b'),
             b'.transitioning, b'.manualMode = b.manualMode, at = "newpage" => ~b.manualMode
      PROVE  IInv'
  <2>1. /\ up /\ op[k] = "idle" /\ ~b.transitioning /\ at \in Stages
        /\ UNCHANGED <<context, manual, others, marker, up>>
        /\ overlap' = (overlap \/ \E j \in Ops : op[j] = "goto")
    BY <1>1 DEF Begin, Given, Overlapping, Stages, Busy, Between
  <2>2. {context', marker', overlap'} \subseteq BOOLEAN /\ manual' \in {"none", "new", "open"} /\ others' \in Nat
    BY <1>0, <2>1 DEF Placed
  <2>3. Switched => overlap' \/ Switched'
    <3> SUFFICES ASSUME Switched, ~overlap' PROVE Switched'
      OBVIOUS
    <3>1. \A j \in Ops : op[j] # "goto"
      BY <2>1
    <3> QED
      BY <1>0, <1>1, <2>1, <3>1, BeginSwitched
  <2> QED
    BY <1>1, <2>1, <2>2, <2>3, CommandStep
<1>2. CASE RecoverPage(k)
  <2>1. /\ Begin(k) /\ ~b.manualMode /\ To(k, "newpage") /\ Overlapping
        /\ b' = [b EXCEPT !.transitioning = TRUE, !.old = b.active]
    BY <1>2 DEF RecoverPage
  <2>2. /\ b' \in Fields /\ b'.page = b.page /\ b'.active = b.active /\ b'.task = b.task /\ b'.obs = b.obs
        /\ b'.refs = b.refs /\ b'.transitioning /\ b'.manualMode = b.manualMode
    BY <1>0, <2>1 DEF Fields
  <2>3. Turns(b, b')
    BY <1>0, <2>2, FlagsTurn
  <2> QED
    BY <1>1, <2>1, <2>2, <2>3
<1>3. ASSUME NEW on \in BOOLEAN, SetManual(k, on) PROVE IInv'
  <2> DEFINE x == [b EXCEPT !.transitioning = TRUE, !.refs = {}]
  <2>1. Begin(k) /\ Overlapping /\ b' = Revise(x) /\ (To(k, "leave") \/ To(k, "return"))
    BY <1>3 DEF SetManual
  <2>2. /\ x \in Fields /\ x.page = b.page /\ x.active = b.active /\ x.task = b.task /\ x.obs = b.obs
        /\ x.refs = {} /\ x.transitioning /\ x.manualMode = b.manualMode
    BY <1>0 DEF Fields
  <2> HIDE DEF x
  <2>3. Turns(b, x) /\ Good(x)
    BY <1>0, <2>2, FlagsTurn DEF Turns
  <2>4. Turns(x, Revise(x)) /\ SameMode(x, Revise(x))
    BY <2>3, ReviseTurns
  <2>5. Turns(b, b') /\ b'.transitioning /\ b'.manualMode = b.manualMode
    BY <2>1, <2>2, <2>3, <2>4, TurnsTrans DEF SameMode
  <2> QED
    BY <1>1, <2>1, <2>5
<1> QED
  BY <1>2, <1>3

LEMMA RecoveriesInv == ASSUME IInv, NEW k \in Ops, Recovered(k) \/ RecoverEnds(k) PROVE IInv'
<1>0. Good(b) /\ b \in Fields /\ Placed /\ Referred
  BY DEF IInv, Referred, Good
<1>1. /\ Free /\ UNCHANGED <<context, manual, marker, others, up, overlap>> /\ op[k] \in {"newpage", "goto"}
      /\ op[k] \in Busy /\ {"goto", "idle"} \subseteq Stages /\ {"goto", "idle"} \cap Between = {}
  BY DEF Recovered, RecoverEnds, Free, Commands, Stages, Busy, Between
<1>2. Switched => Browsers' <= 1 /\ ~marker' /\ manual' # "open"
  BY <1>1 DEF Switched, Browsers, AgentsOwn, HumansOwn
<1>3. {context', marker'} \subseteq BOOLEAN /\ manual' \in {"none", "new", "open"} /\ others' \in Nat
  BY <1>0, <1>1 DEF Placed
<1>4. ASSUME Turns(b, b'), To(k, "goto") \/ To(k, "idle") PROVE IInv'
  BY <1>1, <1>2, <1>3, <1>4, BusyStep
<1>5. ASSUME NEW y, Turns(b, y), b' = [y EXCEPT !.transitioning = FALSE, !.old = 0] PROVE Turns(b, b')
  <2>1. Good(y) /\ y \in Fields
    BY <1>5 DEF Turns, Good
  <2>2. /\ b' \in Fields /\ b'.page = y.page /\ b'.active = y.active /\ b'.task = y.task /\ b'.obs = y.obs
        /\ b'.refs = y.refs
    BY <1>5, <2>1 DEF Fields, Tabs
  <2>3. Turns(y, b')
    BY <2>1, <2>2, FlagsTurn
  <2> QED
    BY <1>5, <2>3, TurnsTrans
<1>6. Turns(b, b)
  BY <1>0, FlagsTurn
<1>7. CASE RecoverEnds(k)
  <2>1. To(k, "idle") /\ (b' = [ChangedPage(b) EXCEPT !.transitioning = FALSE] \/ b' = [b EXCEPT !.transitioning = FALSE])
    BY <1>7 DEF RecoverEnds
  <2>2. Turns(b, ChangedPage(b)) /\ Good(ChangedPage(b))
    BY <1>0, ChangedTurns DEF Turns
  <2>3. Turns(ChangedPage(b), [ChangedPage(b) EXCEPT !.transitioning = FALSE])
    BY <2>2, FlagTurns
  <2>4. Turns(b, [ChangedPage(b) EXCEPT !.transitioning = FALSE])
    BY <2>2, <2>3, TurnsTrans
  <2>5. Turns(b, [b EXCEPT !.transitioning = FALSE])
    BY <1>0, FlagTurns
  <2> QED
    BY <1>4, <2>1, <2>4, <2>5
<1>8. CASE Recovered(k)
  <2>1. CASE b' = [b EXCEPT !.transitioning = FALSE, !.old = 0] /\ To(k, "idle")
    BY <1>4, <1>5, <1>6, <2>1
  <2>2. ASSUME NEW p \in Pages, To(k, "goto"),
               NEW y \in IF b.old \in Listed(b) THEN PageClosed(Registered(b, p), b.old) ELSE {Registered(b, p)},
               b' = [y EXCEPT !.transitioning = FALSE, !.old = 0]
        PROVE  IInv'
    <3>1. Turns(b, Registered(b, p)) /\ Good(Registered(b, p))
      BY <1>0, RegisteredTurns DEF Turns
    <3>2. Turns(b, y)
      <4>1. CASE b.old \in Listed(b)
        <5>1. b.old \in Pages /\ y \in PageClosed(Registered(b, p), b.old)
          BY <2>2, <4>1 DEF Listed
        <5>2. Turns(Registered(b, p), y)
          BY <3>1, <5>1, ClosedTurns
        <5> QED
          BY <3>1, <5>2, TurnsTrans
      <4>2. CASE b.old \notin Listed(b)
        BY <2>2, <3>1, <4>2
      <4> QED
        BY <4>1, <4>2
    <3> QED
      BY <1>4, <1>5, <2>2, <3>2
  <2> QED
    BY <1>8, <2>1, <2>2 DEF Recovered
<1> QED
  BY <1>7, <1>8


LEMMA LeavingInv ==
  ASSUME IInv, NEW k \in Ops, Leave(k) \/ ContextClosed(k) \/ Fails(k) \/ OpenManual(k) \/ ManualOpen(k)
  PROVE  IInv'
<1>0. Good(b) /\ Placed /\ UNCHANGED <<others, up, overlap>>
  BY DEF IInv, Referred, Leave, ContextClosed, Fails, OpenManual, ManualOpen, Commands
<1>1. {context, marker} \subseteq BOOLEAN /\ manual \in {"none", "new", "open"} /\ others \in Nat
  BY <1>0 DEF Placed
<1>2. {"cast", "profile", "catch", "open", "idle"} \subseteq Stages
  BY DEF Stages, Busy, Between
<1>3. Switched /\ (context' => context) /\ (manual' = "open" => manual = "open") => Browsers' <= 1
  BY <1>0, FewerBrowsers DEF Switched
<1>4. CASE Leave(k)
  <2>1. /\ To(k, "cast") /\ op[k] \in Between /\ UNCHANGED <<context, manual>> /\ marker' = TRUE
        /\ b' = [b EXCEPT !.closing = TRUE] /\ op[k] \in Busy
    BY <1>4 DEF Leave, Between, Busy
  <2>2. Turns(b, b') /\ SameMode(b, b')
    BY <1>0, <2>1, FlagTurns
  <2>3. Switched => b'.transitioning
    BY <2>1, <2>2 DEF Switched, Alone, SameMode
  <2> QED
    BY <1>0, <1>1, <1>2, <1>3, <2>1, <2>2, <2>3, BusyStep
<1>5. CASE ContextClosed(k)
  <2>1. /\ To(k, "profile") /\ op[k] \in Between /\ UNCHANGED <<manual, marker>> /\ context' = FALSE
        /\ b' = [Emptied(b) EXCEPT !.manualMode = TRUE] /\ op[k] \in Busy
    BY <1>5 DEF ContextClosed, Between, Busy
  <2>2. Turns(b, Emptied(b)) /\ SameMode(b, Emptied(b)) /\ Good(Emptied(b))
    BY <1>0, EmptiedTurns DEF Turns
  <2>3. Turns(Emptied(b), b') /\ b'.manualMode /\ b'.transitioning = Emptied(b).transitioning
    BY <2>1, <2>2, FlagTurns
  <2>4. Turns(b, b')
    BY <2>2, <2>3, TurnsTrans
  <2>5. Switched => b'.transitioning
    BY <2>1, <2>2, <2>3 DEF Switched, Alone, SameMode
  <2> QED
    BY <1>0, <1>1, <1>2, <1>3, <2>1, <2>3, <2>4, <2>5, BusyStep
<1>6. CASE Fails(k)
  <2>1. /\ To(k, "catch") /\ op[k] \in Between /\ UNCHANGED <<context, marker>> /\ manual' \in {"none", manual}
        /\ b' = [b EXCEPT !.closing = TRUE] /\ op[k] \in Busy
    BY <1>6 DEF Fails, Between, Busy
  <2>2. Turns(b, b') /\ SameMode(b, b')
    BY <1>0, <2>1, FlagTurns
  <2>3. Switched => b'.transitioning
    BY <2>1, <2>2 DEF Switched, Alone, SameMode
  <2> QED
    BY <1>0, <1>1, <1>2, <1>3, <2>1, <2>2, <2>3, BusyStep
<1>7. CASE OpenManual(k)
  <2>1. /\ To(k, "open") /\ op[k] = "profile" /\ op[k] \in Between /\ UNCHANGED <<b, context, marker>>
        /\ manual' = "new" /\ ~context /\ others = 0 /\ op[k] \in Busy
    BY <1>7 DEF OpenManual, ProfileFree, Between, Busy
  <2>2. Turns(b, b')
    BY <1>0, <2>1, FlagsTurn DEF Good
  <2>3. Switched => b'.transitioning /\ b'.manualMode
    BY <2>1 DEF Switched, Alone
  <2> QED
    BY <1>0, <1>1, <1>2, <1>3, <2>1, <2>2, <2>3, BusyStep
<1>8. CASE ManualOpen(k)
  <2>1. /\ To(k, "idle") /\ op[k] = "open" /\ op[k] \in Busy /\ UNCHANGED <<context, marker>>
        /\ manual' = "open" /\ b' = [b EXCEPT !.transitioning = FALSE]
    BY <1>8 DEF ManualOpen, Settled, Between, Busy
  <2>2. Turns(b, b') /\ b'.manualMode = b.manualMode
    BY <1>0, <2>1, FlagTurns
  <2>3. Switched => b'.manualMode /\ ~context /\ others = 0
    BY <2>1, <2>2 DEF Switched
  <2>4. Switched => Browsers' <= 1
    BY <1>0, <2>1, <2>3 DEF Browsers, AgentsOwn, HumansOwn
  <2>5. "idle" \notin Between
    BY DEF Between
  <2> QED
    BY <1>0, <1>1, <1>2, <2>1, <2>2, <2>3, <2>4, <2>5, BusyStep
<1> QED
  BY <1>4, <1>5, <1>6, <1>7, <1>8

LEMMA ReturningInv ==
  ASSUME IInv, NEW k \in Ops, Finish(k) \/ StartAutomated(k) \/ Returned(k) \/ Catch(k)
  PROVE  IInv'
<1>0. Good(b) /\ Placed /\ UNCHANGED <<up, overlap>>
  BY DEF IInv, Referred, Finish, StartAutomated, Returned, Catch, Commands
<1>1. {context, marker} \subseteq BOOLEAN /\ manual \in {"none", "new", "open"} /\ others \in Nat
  BY <1>0 DEF Placed
<1>2. {"launch", "launched", "landing", "idle"} \subseteq Stages /\ {"landing", "idle"} \cap Between = {}
  BY DEF Stages, Busy, Between
<1>3. CASE Finish(k)
  <2>1. /\ To(k, "launch") /\ op[k] \in Between /\ UNCHANGED <<context, marker, others>> /\ manual' = "none"
        /\ b' = [b EXCEPT !.closing = FALSE] /\ op[k] \in Busy
    BY <1>3 DEF Finish, Commands, Between, Busy
  <2>2. Turns(b, b') /\ SameMode(b, b')
    BY <1>0, <2>1, FlagTurns
  <2>3. Switched => b'.transitioning /\ Browsers' <= 1
    BY <1>0, <2>1, <2>2, FewerBrowsers DEF Switched, Alone, SameMode
  <2> QED
    BY <1>0, <1>1, <1>2, <2>1, <2>2, <2>3, BusyStep
<1>4. CASE StartAutomated(k)
  <2>1. /\ To(k, "launched") /\ op[k] \in Between /\ op[k] \in Busy /\ context' = TRUE
        /\ UNCHANGED <<manual, marker, others>> /\ manual # "open" /\ others = 0
    BY <1>4 DEF StartAutomated, ProfileFree, Commands, Between, Busy
  <2>2. PICK p \in Pages : b' = Launched(b, p)
    BY <1>4 DEF StartAutomated
  <2>3. Turns(b, b') /\ SameMode(b, b')
    BY <1>0, <2>2, LaunchedTurns
  <2>4. Switched => b'.transitioning
    BY <2>1, <2>3 DEF Switched, Alone, SameMode
  <2>5. Browsers' <= 1
    BY <2>1 DEF Browsers, AgentsOwn, HumansOwn
  <2> QED
    BY <1>0, <1>1, <1>2, <2>1, <2>3, <2>4, <2>5, BusyStep
<1>6. CASE Returned(k)
  <2> DEFINE y == [b EXCEPT !.manualMode = FALSE]
  <2>1. /\ To(k, "landing") /\ op[k] \in Busy /\ op[k] = "launched" /\ marker' = FALSE
        /\ UNCHANGED <<context, manual, others>> /\ b' = [y EXCEPT !.transitioning = FALSE]
    BY <1>6 DEF Returned, Settled, Commands, Between, Busy
  <2>2. Turns(b, y) /\ Good(y)
    BY <1>0, FlagTurns DEF Turns
  <2> HIDE DEF y
  <2>3. Turns(y, b')
    BY <2>1, <2>2, FlagTurns
  <2>4. Turns(b, b')
    BY <2>2, <2>3, TurnsTrans
  <2>5. Switched => manual # "open" /\ Browsers' <= 1
    BY <1>0, <2>1, FewerBrowsers DEF Switched
  <2> QED
    BY <1>0, <1>1, <1>2, <2>1, <2>4, <2>5, BusyStep
<1>5. CASE Catch(k)
  <2>1. PICK stays \in BOOLEAN :
          /\ stays => context
          /\ others' = IF stays THEN others + 1 ELSE others
          /\ b' = Settled([(IF stays THEN TimedOut(Emptied(b)) ELSE Emptied(b)) EXCEPT !.manualMode = TRUE])
    BY <1>5 DEF Catch
  <2>2. To(k, "idle") /\ op[k] \in Busy /\ context' = FALSE /\ UNCHANGED <<manual, marker>>
    BY <1>5 DEF Catch, Between, Busy
  <2> DEFINE x == IF stays THEN TimedOut(Emptied(b)) ELSE Emptied(b)
             y == [x EXCEPT !.manualMode = TRUE]
  <2>3. b' = [y EXCEPT !.transitioning = FALSE]
    BY <2>1 DEF Settled
  <2>4. Turns(b, x) /\ Good(x)
    <3>1. Turns(b, Emptied(b)) /\ Good(Emptied(b))
      BY <1>0, EmptiedTurns DEF Turns
    <3>2. Turns(Emptied(b), TimedOut(Emptied(b)))
      BY <3>1, TimedTurns
    <3>3. Turns(b, TimedOut(Emptied(b))) /\ Good(TimedOut(Emptied(b)))
      BY <3>1, <3>2, TurnsTrans, TimedTurns
    <3> QED
      BY <3>1, <3>3
  <2> HIDE DEF x
  <2>5. Turns(x, y) /\ Good(y) /\ y.manualMode
    BY <2>4, FlagTurns DEF Turns
  <2> HIDE DEF y
  <2>6. Turns(y, b') /\ b'.manualMode
    BY <2>3, <2>5, FlagTurns, ZenonT(60)
  <2>7. Turns(b, b')
    BY <2>4, <2>5, <2>6, TurnsTrans
  <2>8. others' \in Nat
    BY <1>1, <2>1
  <2>9. Switched => Browsers' <= 1
    <3>1. others + AgentsOwn + HumansOwn <= 1 => others' + AgentsOwn' + HumansOwn' <= 1
      BY <1>1, <2>1, <2>2 DEF AgentsOwn, HumansOwn
    <3> QED
      BY <3>1 DEF Switched, Browsers
  <2> QED
    BY <1>0, <1>1, <1>2, <2>2, <2>6, <2>7, <2>8, <2>9, BusyStep
<1> QED
  BY <1>3, <1>4, <1>5, <1>6

-----------------------------------------------------------------------------

LEMMA StepInv == IInv /\ [Next]_vars => IInv'
<1> SUFFICES ASSUME IInv, [Next]_vars PROVE IInv'
  OBVIOUS
<1>1. ASSUME NEW k \in Ops, Switching(k) PROVE IInv'
  BY <1>1, RecoveriesInv, SmallCommands, LeavingInv, ReturningInv DEF Switching
<1>2. ASSUME NEW k \in Ops, \/ Probe(k) \/ ProbeAnswers(k) \/ ClearSiteData(k) \/ SiteCleared(k)
                            \/ Fronted(k) \/ FrontFails(k) \/ Landed(k)
      PROVE  IInv'
  BY <1>2, SmallCommands
<1>3. ASSUME NEW k \in Ops, Refresh(k) PROVE IInv'
  BY <1>3, RefreshInv
<1>4. ASSUME NEW k \in Ops, NEW p \in Pages, SwitchPage(k, p) PROVE IInv'
  BY <1>4, SwitchPageInv
<1>5. ASSUME NEW k \in Ops, RecoverPage(k) \/ \E on \in BOOLEAN : SetManual(k, on) PROVE IInv'
  BY <1>5, BeginsInv
<1>6. ASSUME NEW k \in Ops, RecoverEnds(k) PROVE IInv'
  BY <1>6, RecoveriesInv
<1>7. ASSUME NEW k \in Ops, Overdue(k) PROVE IInv'
  BY <1>7, OverdueInv
<1>8. ASSUME NEW p \in Pages, Popup(p) \/ RegisterPage(p) \/ Navigated(p) \/ Crashes(p) \/ Closes(p) PROVE IInv'
  BY <1>8, TabsInv
<1>9. CASE Start \/ WorkerDies \/ OtherEnds \/ ChromiumDies \/ ManualDies
  BY <1>9, StartInv, WorkerDiesInv, DeathsInv
<1>10. CASE Reopened \/ Observe \/ WalkFrame \/ Observed \/ Act
  BY <1>10, ReopenedInv, ObservingInv, ActInv
<1>11. CASE UNCHANGED vars
  <2>1. UNCHANGED <<b, context, manual, others, marker, op, late, up, overlap>>
    BY <1>11 DEF vars, cmds
  <2>2. Turns(b, b') /\ SameMode(b, b') /\ Placed /\ Referred
    BY <2>1, FlagsTurn DEF IInv, Referred, Good, SameMode
  <2>3. Placed'
    BY <2>1, <2>2 DEF Placed
  <2>4. Referred'
    BY <2>1, <2>2, TurnsReferred DEF Fronting
  <2>5. Switched => Switched'
    BY <2>1, <2>2, SameSwitched
  <2> QED
    BY <2>1, <2>3, <2>4, <2>5 DEF IInv
<1> QED
  BY <1>1, <1>2, <1>3, <1>4, <1>5, <1>6, <1>7, <1>8, <1>9, <1>10, <1>11 DEF Next

LEMMA Always == Spec => []IInv
BY InitInv, StepInv, PTL DEF Spec

(* At most one browser works on the profile, whatever fails, times out,    *)
(* dies or comes late in a switch of mode, unless the switch began while   *)
(* recoverPage() still navigated.                                          *)
THEOREM OneBrowserAtATime == Spec => []OneBrowser
BY Always, IInvSafe, PTL

(* No tool of the agent reaches a page while the human may be logging in,  *)
(* unless a switch began while recoverPage() still navigated.              *)
THEOREM LoginsAreTheHumans == Spec => []NoToolInLogin
BY Always, IInvSafe, PTL

(* Between two tool calls, a reference leads to the page that was observed *)
(* and to no other, through tabs that open, close, crash and switch        *)
(* between the observation and the act; and to the active page, unless the *)
(* page changed during the observation, a switch is bringing another tab   *)
(* to front, or one could not bring it there.                              *)
THEOREM ActsOnWhatWasSeen == Spec => []SeenIsActedOn
BY Always, IInvSafe, PTL

=============================================================================
