-------------------------- MODULE Accounts_proofs ---------------------------
(* Theorems about Accounts and, under it, ConfigStore and AccountHealth,   *)
(* for every value of their constants.                                     *)
EXTENDS Accounts, TLAPS, SequenceTheorems, FiniteSetTheorems

(***************************************************************************)
(* The invariant behind the theorems.  What a lane holds of the            *)
(* configuration is an account; a lane that saves for a route knows which  *)
(* change it makes; the thread that tests works on the account that it has *)
(* loaded; and the cookie last given to it is the one it has, or the one   *)
(* that waits, unless that one is the empty cookie.                        *)
(***************************************************************************)
Accounts == [Field -> Pair]
ConfigOK ==
    /\ config \in Accounts /\ holds \in [Client -> BOOLEAN]
    /\ base \in [Client -> [Field -> Pair \cup {Missing}]]
    /\ \A c \in Client : holds[c] => base[c] \in Accounts
HealthOK ==
    /\ health \in Gate /\ copy \in [Writer -> Gate] /\ loaded \in [Writer -> BOOLEAN]
    /\ todo \in [Writer -> Seq(Changes)]
    /\ \A w \in Writer : loaded[w] => w \in Apart /\ todo[w] # <<>>
Afterwards == {"idle", "prepare", "collect", "watch"}
LaneOf(l) == {x \in Lane : /\ x.next \in Afterwards
                           /\ l # "tester" /\ x.at = "save" => x.do \in {"save", "delete", "login"}}
LanesOK ==
    /\ lane \in [Lanes -> Lane] /\ \A l \in Lanes : lane[l] \in LaneOf(l)
    /\ left \in 0..Requests
TesterSees ==
    lane["tester"].at \in {"read", "save"} => lane["tester"].pair = base["tester"]["cookies"]
Given ==
    /\ test \in [running : BOOLEAN, active : Cookie \cup {NoCookie}, pending : SUBSET (Cookie \cup {NoCookie})]
    /\ asked \in Cookie \cup {NoCookie}
    /\ test.running <=> lane["tester"].at # "idle"
    /\ \/ test.pending = {} /\ (test.running => test.active \in {asked, NoCookie})
       \/ test.pending = {asked}
       \/ test.pending = {NoCookie} /\ asked = test.active
AccountsInv == ConfigOK /\ HealthOK /\ LanesOK /\ TesterSees /\ Given

(***************************************************************************)
(* The store, for one lane l: whatever it does to the configuration, what  *)
(* the lanes hold stays an account, and the step is one of the registers'. *)
(***************************************************************************)
ConfigStep(l) ==
    \/ UNCHANGED configVars
    \/ Load(l)
    \/ \E wanted \in Accounts : Save(l, wanted) \/ SaveRaises(l, wanted)
    \/ Forget(l)
    \/ \E p \in Pair : Update("cookies", p)

LEMMA NothingHeld == Nothing \notin Accounts /\ Nothing \in [Field -> Pair \cup {Missing}]
  BY AccountAssumption, MissingAssumption DEF Nothing, Accounts

LEMMA MergedAccounts ==
  ASSUME NEW c \in Client, ConfigOK, NEW wanted \in Accounts, Save(c, wanted)
  PROVE  /\ config' \in Accounts
         /\ \A f \in Field : config'[f] # config[f] => base[c][f] = config[f] /\ config'[f] = wanted[f]
  <1>1. config' = [f \in Field |-> Merge(base[c][f], config[f], wanted[f])]
    BY DEF Save
  <1>2. base[c] \in Accounts
    BY DEF Save, ConfigOK
  <1>3. config' \in Accounts
    BY <1>1 DEF Accounts, Merge, ConfigOK
  <1>4. ASSUME NEW f \in Field, config'[f] # config[f]
        PROVE  base[c][f] = config[f] /\ config'[f] = wanted[f]
    <2>1. config'[f] = wanted[f] /\ wanted[f] # base[c][f] /\ wanted[f] # config[f]
      BY <1>1, <1>4 DEF Merge
    <2>2. ~ Conflict(base[c][f], config[f], wanted[f])
      BY <2>1 DEF Save, Mergeable
    <2> QED BY <2>1, <2>2 DEF Conflict
  <1> QED BY <1>3, <1>4

LEMMA ConfigKept ==
  ASSUME ConfigOK, NEW l \in Lanes, ConfigStep(l)
  PROVE  /\ ConfigOK'
         /\ \A c \in Lanes \ {l} : base'[c] = base[c] /\ holds'[c] = holds[c]
  <1> USE AccountAssumption DEF ConfigOK
  <1>1. CASE UNCHANGED configVars
    BY <1>1 DEF configVars
  <1>2. CASE Load(l)
    BY <1>2 DEF Load, Accounts
  <1>3. ASSUME Drop(l), config' \in Accounts
        PROVE  /\ ConfigOK'
               /\ \A c \in Lanes \ {l} : base'[c] = base[c] /\ holds'[c] = holds[c]
    BY <1>3, NothingHeld DEF Drop
  <1>4. CASE \E wanted \in Accounts : Save(l, wanted) \/ SaveRaises(l, wanted)
    <2>1. PICK wanted \in Accounts : Save(l, wanted) \/ SaveRaises(l, wanted)
      BY <1>4
    <2>2. Drop(l) /\ config' \in Accounts
      BY <2>1, MergedAccounts DEF Save, SaveRaises
    <2> QED BY <1>3, <2>2
  <1>5. CASE Forget(l)
    BY <1>3, <1>5 DEF Forget
  <1>6. CASE \E p \in Pair : Update("cookies", p)
    BY <1>6 DEF Update, Accounts
  <1> QED BY <1>1, <1>2, <1>4, <1>5, <1>6 DEF ConfigStep

LEMMA ConfigStepRefines ==
  ASSUME ConfigOK, NEW l \in Lanes, ConfigStep(l)
  PROVE  [Abstract!RegistersNext]_(Abstract!registerVars)
  <1> USE AccountAssumption
  <1>1. CASE UNCHANGED configVars
    BY <1>1 DEF configVars, Abstract!registerVars
  <1>2. CASE Load(l)
    BY <1>2 DEF Load, Abstract!Look, Abstract!RegistersNext
  <1>3. ASSUME holds[l], Drop(l), \A f \in Field : config'[f] # config[f] => base[l][f] = config[f]
        PROVE  Abstract!Set(l)
    <2>1. base[l] # Nothing
      BY <1>3, NothingHeld DEF ConfigOK
    <2> QED BY <1>3, <2>1 DEF Drop, Abstract!Set
  <1>4. CASE \E wanted \in Accounts : Save(l, wanted) \/ SaveRaises(l, wanted)
    <2>1. PICK wanted \in Accounts : Save(l, wanted) \/ SaveRaises(l, wanted)
      BY <1>4
    <2>2. holds[l] /\ Drop(l) /\ \A f \in Field : config'[f] # config[f] => base[l][f] = config[f]
      BY <2>1, MergedAccounts DEF Save, SaveRaises
    <2> QED BY <1>3, <2>2 DEF Abstract!RegistersNext
  <1>5. CASE Forget(l)
    BY <1>3, <1>5 DEF Forget, Abstract!RegistersNext
  <1>6. CASE \E p \in Pair : Update("cookies", p)
    BY <1>6 DEF Update, ConfigOK, Accounts, Abstract!Revise, Abstract!RegistersNext
  <1> QED BY <1>1, <1>2, <1>4, <1>5, <1>6 DEF ConfigStep

(***************************************************************************)
(* account_health, for one writer.                                         *)
(***************************************************************************)
LEMMA ChangedType == \A gate \in Gate, change \in Changes : Changed(gate, change) \in Gate
  BY DEF Changed, Gate, Changes

LEMMA WriteHealthOK ==
  ASSUME HealthOK, NEW w \in Writer, WriteHealth(w)
  PROVE  HealthOK'
  <1> USE DEF HealthOK
  <1>1. todo[w] # <<>> /\ todo[w] \in Seq(Changes)
    BY DEF WriteHealth, LoadHealth, SaveHealth, LoadAndSave
  <1>2. Head(todo[w]) \in Changes /\ Tail(todo[w]) \in Seq(Changes)
    BY <1>1, HeadTailProperties
  <1>3. Written(w) => todo' \in [Writer -> Seq(Changes)] /\ \A v \in Writer \ {w} : todo'[v] = todo[v]
    BY <1>2 DEF Written
  <1>4. CASE LoadHealth(w)
    BY <1>3, <1>4 DEF LoadHealth
  <1>5. CASE SaveHealth(w)
    BY <1>2, <1>3, <1>5, ChangedType DEF SaveHealth, Gate
  <1>6. CASE LoadAndSave(w)
    BY <1>2, <1>3, <1>6, ChangedType DEF LoadAndSave
  <1> QED BY <1>4, <1>5, <1>6 DEF WriteHealth

LEMMA BeginHealthOK ==
  ASSUME HealthOK, NEW w \in Writer, AllWritten(w), NEW changes \in Seq(Changes), Begin(w, changes),
         UNCHANGED <<health, copy, loaded>>
  PROVE  HealthOK'
  BY DEF HealthOK, Begin, AllWritten

LEMMA ChangeLists ==
  /\ MarkOk \in Seq(Changes) /\ <<"check">> \in Seq(Changes) /\ <<"close">> \in Seq(Changes)
  /\ <<"status">> \in Seq(Changes) /\ <<"limit">> \in Seq(Changes) /\ <<"network">> \in Seq(Changes)
  /\ <<"open">> \in Seq(Changes) /\ <<"status", "close">> \in Seq(Changes)
  BY DEF MarkOk, Changes

(***************************************************************************)
(* The lanes.                                                              *)
(***************************************************************************)
Orderly ==
    /\ \E l \in Lanes : ConfigStep(l)
    /\ pair'.cookie # pair.cookie => \E l \in {"user", "login", "sync", "browser"} : lane'[l] # lane[l]
    /\ test.running /\ ~ test'.running => test.active \in {asked, NoCookie}

LEMMA PairTypes ==
  /\ Empty \in Pair /\ \A l \in Lanes : Rest \in LaneOf(l)
  /\ \A p \in Pair, c \in Cookie \cup {NoCookie}, b \in BOOLEAN, n \in {"off", "open", "synced"} :
        /\ [p EXCEPT !.tested = c] \in Pair /\ [p EXCEPT !.note = n, !.linked = b] \in Pair
        /\ [p EXCEPT !.cookie = c, !.tested = c, !.note = n] \in Pair
        /\ [cookie |-> c, tested |-> c, linked |-> b, note |-> n] \in Pair
  <1>1. Empty \in Pair
    BY DEF Empty, Pair
  <1>2. Rest \in Lane
    BY <1>1 DEF Rest, Lane, Places
  <1>3. \A l \in Lanes : Rest \in LaneOf(l)
    BY <1>2 DEF Rest, LaneOf, Afterwards
  <1>4. ASSUME NEW p \in Pair, NEW c \in Cookie \cup {NoCookie}, NEW b \in BOOLEAN, NEW n \in {"off", "open", "synced"}
        PROVE  /\ [p EXCEPT !.tested = c] \in Pair /\ [p EXCEPT !.note = n, !.linked = b] \in Pair
               /\ [p EXCEPT !.cookie = c, !.tested = c, !.note = n] \in Pair
               /\ [cookie |-> c, tested |-> c, linked |-> b, note |-> n] \in Pair
    BY DEF Pair
  <1> QED BY <1>1, <1>3, <1>4

\* A lane other than the tester's moves.
LEMMA LaneMoves ==
  ASSUME AccountsInv, NEW l \in Lanes \ {"tester"}, NEW x \in LaneOf(l), lane' = [lane EXCEPT ![l] = x],
         ConfigStep(l), HealthOK', UNCHANGED testVars, left' \in 0..Requests
  PROVE  /\ AccountsInv' /\ lane'[l] = x
         /\ (pair'.cookie = pair.cookie \/ (l \in {"user", "login", "sync", "browser"} /\ x.at # lane[l].at))
               => Orderly
  <1> USE DEF AccountsInv
  <1>1. ConfigOK' /\ base'["tester"] = base["tester"]
    BY ConfigKept DEF Lanes
  <1>2. LanesOK' /\ lane'[l] = x /\ lane'["tester"] = lane["tester"]
    <2>1. \A m \in Lanes : lane'[m] = IF m = l THEN x ELSE lane[m]
      BY DEF LanesOK
    <2>2. lane' \in [Lanes -> Lane]
      BY DEF LanesOK, LaneOf
    <2> QED BY <2>1, <2>2 DEF LanesOK, Lanes
  <1>3. TesterSees' /\ Given'
    BY <1>1, <1>2 DEF TesterSees, Given, testVars
  <1> QED BY <1>1, <1>2, <1>3 DEF Orderly, testVars

\* A request is noted, with the account as it is.
LEMMA RequestInv ==
  ASSUME AccountsInv, NEW l \in {"user", "login", "sync"}, NEW start \in LaneOf(l), Request(l, start)
  PROVE  AccountsInv' /\ Orderly
  <1> DEFINE x == [start EXCEPT !.pair = pair]
  <1>1. l \in Lanes \ {"tester"} /\ pair \in Pair
    BY AccountAssumption DEF Lanes, AccountsInv, ConfigOK, Accounts, pair
  <1>2. x \in LaneOf(l)
    BY <1>1 DEF LaneOf, Lane
  <1>3. ConfigStep(l) /\ config' = config
    BY DEF Request, ConfigStep, Load, configVars
  <1>4. HealthOK'
    BY DEF Request, healthVars, AccountsInv, HealthOK
  <1>5. left' \in 0..Requests
    BY AccountAssumption DEF Request, AccountsInv, LanesOK
  <1>6. lane' = [lane EXCEPT ![l] = x] /\ UNCHANGED testVars /\ pair'.cookie = pair.cookie
    BY <1>3 DEF Request, pair
  <1> QED BY <1>1, <1>2, <1>3, <1>4, <1>5, <1>6, LaneMoves

LEMMA Starts ==
  ASSUME NEW l \in {"user", "login", "sync"}, NEW do \in {"save", "delete", "test", "open", "login", "sync"},
         NEW at \in {"save", "schedule", "note"}, at = "save" => do \in {"save", "delete", "login"},
         NEW c \in Cookie \cup {NoCookie}, NEW next \in Afterwards, NEW n \in 0..2
  PROVE  /\ Doing(do, at) \in LaneOf(l) /\ [Doing(do, at) EXCEPT !.pick = c] \in LaneOf(l)
         /\ [Doing(do, at) EXCEPT !.next = next] \in LaneOf(l)
         /\ [Doing(do, at) EXCEPT !.pick = c, !.rounds = n] \in LaneOf(l)
  <1>1. Rest \in Lane /\ Rest.next \in Afterwards
    BY PairTypes DEF LaneOf, Lanes
  <1>2. Doing(do, at) \in Lane /\ Doing(do, at).next \in Afterwards /\ Doing(do, at).do = do /\ Doing(do, at).at = at
    BY <1>1 DEF Doing, Lane, Places
  <1> QED BY <1>2, ZenonT(60) DEF LaneOf, Lane, Afterwards, Places

LEMMA RequestedInv ==
  ASSUME AccountsInv, Requested
  PROVE  AccountsInv' /\ Orderly
  <1>0. NoCookie \in Cookie \cup {NoCookie} /\ pair.cookie \in Cookie \cup {NoCookie} /\ 1 \in 0..2 /\ "idle" \in Afterwards
    BY AccountAssumption DEF AccountsInv, ConfigOK, Accounts, Pair, Afterwards, pair
  <1>1. CASE \E c \in Cookie \cup {NoCookie} : SavesCookies(c)
    BY <1>0, <1>1, Starts, RequestInv DEF SavesCookies
  <1>2. CASE \E c \in Cookie : LogsIn(c)
    BY <1>0, <1>2, Starts, RequestInv DEF LogsIn
  <1>3. CASE Deletes
    BY <1>0, <1>3, Starts, RequestInv DEF Deletes
  <1>4. CASE Tests
    BY <1>0, <1>4, Starts, RequestInv DEF Tests
  <1>5. CASE Opens
    <2>1. "prepare" \in Afterwards
      BY DEF Afterwards
    <2> QED BY <1>0, <1>5, <2>1, Starts, RequestInv DEF Opens
  <1>6. CASE Syncs
    <2>1. "collect" \in Afterwards
      BY DEF Afterwards
    <2> QED BY <1>0, <1>6, <2>1, Starts, RequestInv DEF Syncs
  <1>7. CASE Verifies
    <2>1. lane["user"] \in LaneOf("user") /\ lane' = [lane EXCEPT !["user"] = lane["user"]]
      BY <1>7 DEF Verifies, AccountsInv, LanesOK, Lanes
    <2>2. ConfigStep("user") /\ config' = config
      BY <1>7 DEF Verifies, ConfigStep, configVars
    <2>3. HealthOK'
      BY <1>7, AccountAssumption, ChangeLists, BeginHealthOK DEF Verifies, Is, AccountsInv, Lanes
    <2>4. left' \in 0..Requests
      BY <1>7, AccountAssumption DEF Verifies, AccountsInv, LanesOK
    <2>5. UNCHANGED testVars /\ "user" \in Lanes \ {"tester"}
      BY <1>7 DEF Verifies, testVars, Lanes
    <2> QED BY <2>1, <2>2, <2>3, <2>4, <2>5, LaneMoves DEF pair
  <1> QED BY <1>1, <1>2, <1>3, <1>4, <1>5, <1>6, <1>7 DEF Requested

LEMMA ReportedInv ==
  ASSUME AccountsInv, Reported
  PROVE  AccountsInv' /\ Orderly
  <1>1. lane["download"] \in LaneOf("download") /\ lane' = [lane EXCEPT !["download"] = lane["download"]]
    BY DEF Reported, AccountsInv, LanesOK, Lanes
  <1>2. ConfigStep("download") /\ config' = config
    BY DEF Reported, ConfigStep, configVars
  <1>3. HealthOK'
    <2>1. PICK changes \in {MarkOk, <<"close">>, <<"limit">>, <<"network">>, <<"open">>} : Begin("download", changes)
      BY DEF Reported
    <2>2. changes \in Seq(Changes)
      BY ChangeLists
    <2>3. "download" \in Writer /\ AllWritten("download") /\ UNCHANGED <<health, copy, loaded>> /\ HealthOK
      BY AccountAssumption DEF Reported, Is, AccountsInv, Lanes
    <2> QED BY <2>1, <2>2, <2>3, BeginHealthOK
  <1>4. left' \in 0..Requests
    BY AccountAssumption DEF Reported, AccountsInv, LanesOK
  <1>5. UNCHANGED testVars /\ "download" \in Lanes \ {"tester"}
    BY DEF Reported, testVars, Lanes
  <1> QED BY <1>1, <1>2, <1>3, <1>4, <1>5, LaneMoves DEF pair

(***************************************************************************)
(* The routes, and the thread that opens the browser.                      *)
(***************************************************************************)
LEMMA AccountTypes ==
  ASSUME AccountsInv, NEW l \in Lanes
  PROVE  /\ pair \in Pair /\ lane[l] \in LaneOf(l) /\ lane[l].pair \in Pair /\ l \in Client /\ l \in Writer
         /\ lane[l].pick \in Cookie \cup {NoCookie} /\ lane[l].next \in Afterwards /\ lane[l].rounds \in 0..2
         /\ holds[l] => base[l]["cookies"] \in Pair
         /\ pair.cookie \in Cookie \cup {NoCookie}
  <1>1. pair \in Pair /\ l \in Client /\ l \in Writer /\ (holds[l] => base[l]["cookies"] \in Pair)
    BY AccountAssumption DEF AccountsInv, ConfigOK, Accounts, pair
  <1>2. lane[l] \in Lane /\ lane[l] \in LaneOf(l) /\ lane[l].next \in Afterwards
    BY DEF AccountsInv, LanesOK, LaneOf
  <1>3. lane[l].pair \in Pair /\ lane[l].pick \in Cookie \cup {NoCookie} /\ lane[l].rounds \in 0..2
    BY <1>2 DEF Lane
  <1>4. pair.cookie \in Cookie \cup {NoCookie}
    BY <1>1 DEF Pair
  <1> QED BY <1>1, <1>2, <1>3, <1>4

LEMMA SavesConfig ==
  ASSUME AccountsInv, NEW l \in Lanes, NEW p \in Pair,
         LET wanted == [base[l] EXCEPT !["cookies"] = p] IN Save(l, wanted) \/ SaveRaises(l, wanted)
  PROVE  ConfigStep(l) /\ (pair' = pair \/ (base[l]["cookies"] = pair /\ pair' = p))
  <1> DEFINE wanted == [base[l] EXCEPT !["cookies"] = p]
  <1>1. wanted \in Accounts /\ wanted["cookies"] = p
    BY AccountAssumption DEF AccountsInv, ConfigOK, Accounts
  <1>2. CASE Save(l, wanted)
    BY <1>1, <1>2, AccountAssumption, MergedAccounts DEF AccountsInv, pair, ConfigStep
  <1>3. CASE SaveRaises(l, wanted)
    BY <1>1, <1>3 DEF SaveRaises, pair, ConfigStep
  <1> QED BY <1>2, <1>3

LEMMA Moves ==
  ASSUME AccountsInv, NEW l \in Lanes
  PROVE  /\ \A place \in Places \ {"save"} :
              /\ [lane[l] EXCEPT !.at = place] \in LaneOf(l)
              /\ Goes(l, place) => lane' = [lane EXCEPT ![l] = [lane[l] EXCEPT !.at = place]]
         /\ Rest \in LaneOf(l) /\ (Ends(l) => lane' = [lane EXCEPT ![l] = Rest])
  <1>1. lane[l] \in LaneOf(l) /\ lane \in [Lanes -> Lane]
    BY DEF AccountsInv, LanesOK
  <1> QED BY <1>1, PairTypes DEF LaneOf, Lane, Goes, Ends

\* A lane goes on to mark the account and to test the cookie.
LEMMA MarkAndTestOK ==
  ASSUME AccountsInv, NEW l \in Lanes, NEW rounds \in 1..2, MarkAndTest(l, rounds), AllWritten(l),
         UNCHANGED <<health, copy, loaded>>
  PROVE  /\ HealthOK'
         /\ lane' = [lane EXCEPT ![l] = [lane[l] EXCEPT !.at = "schedule", !.rounds = rounds]]
         /\ [lane[l] EXCEPT !.at = "schedule", !.rounds = rounds] \in LaneOf(l)
  <1>1. HealthOK'
    BY AccountAssumption, ChangeLists, BeginHealthOK DEF MarkAndTest, AccountsInv
  <1>2. lane[l] \in LaneOf(l) /\ lane \in [Lanes -> Lane]
    BY DEF AccountsInv, LanesOK
  <1>3. lane' = [lane EXCEPT ![l] = [lane[l] EXCEPT !.at = "schedule", !.rounds = rounds]]
    BY <1>2 DEF MarkAndTest
  <1>4. rounds \in 0..2 /\ "schedule" \in Places
    BY DEF Places
  <1>5. [lane[l] EXCEPT !.at = "schedule", !.rounds = rounds] \in Lane
    BY <1>2, <1>4 DEF Lane
  <1>6. [lane[l] EXCEPT !.at = "schedule", !.rounds = rounds] \in LaneOf(l)
    BY <1>2, <1>5 DEF LaneOf, Lane
  <1> QED BY <1>1, <1>3, <1>6

LEMMA RouteSavesInv ==
  ASSUME AccountsInv, NEW l \in Lanes, RouteSaves(l)
  PROVE  AccountsInv' /\ Orderly
  <1>1. /\ l \in {"user", "login"} /\ lane[l].at = "save" /\ AllWritten(l)
        /\ UNCHANGED <<health, copy, loaded, testVars, left>>
    BY DEF RouteSaves, Is
  <1>2. NewPair(l) \in Pair
    <2>1. lane[l].do \in {"save", "delete", "login"}
      BY <1>1, AccountTypes DEF LaneOf
    <2>2. lane[l].pair \in Pair /\ lane[l].pick \in Cookie \cup {NoCookie} /\ Empty \in Pair
      BY AccountTypes, PairTypes
    <2>3. CASE lane[l].do = "delete"
      BY <2>2, <2>3 DEF NewPair
    <2>4. CASE lane[l].do = "login"
      BY <2>2, <2>4 DEF NewPair, Pair
    <2>5. CASE lane[l].do = "save"
      BY <2>2, <2>5 DEF NewPair, Pair
    <2> QED BY <2>1, <2>3, <2>4, <2>5
  <1>3. ConfigStep(l)
    BY <1>2, SavesConfig DEF RouteSaves, Saves
  <1>4. CASE Ends(l) /\ UNCHANGED todo
    <2>1. HealthOK'
      BY <1>1, <1>4 DEF AccountsInv, HealthOK
    <2>2. Rest \in LaneOf(l) /\ lane' = [lane EXCEPT ![l] = Rest] /\ Rest.at # lane[l].at
      BY <1>1, <1>4, Moves DEF Rest
    <2>3. left' \in 0..Requests /\ l \in Lanes \ {"tester"}
      BY <1>1 DEF AccountsInv, LanesOK
    <2> QED BY <1>1, <1>3, <2>1, <2>2, <2>3, LaneMoves
  <1>5. CASE MarkAndTest(l, 1)
    <2> DEFINE x == [lane[l] EXCEPT !.at = "schedule", !.rounds = 1]
    <2>1. HealthOK' /\ x \in LaneOf(l) /\ lane' = [lane EXCEPT ![l] = x]
      <3>1. 1 \in 1..2
        OBVIOUS
      <3> QED BY <1>1, <1>5, <3>1, MarkAndTestOK
    <2>2. x.at # lane[l].at
      BY <1>1, AccountTypes DEF LaneOf, Lane
    <2>3. left' \in 0..Requests /\ l \in Lanes \ {"tester"}
      BY <1>1 DEF AccountsInv, LanesOK
    <2> QED BY <1>1, <1>3, <2>1, <2>2, <2>3, LaneMoves
  <1> QED BY <1>4, <1>5 DEF RouteSaves, Saves

\* A cookie is given to the thread that tests.
LEMMA GivenOn ==
  ASSUME Given, NEW c \in Cookie \cup {NoCookie}, test' = Scheduled(test, c), asked' = c,
         lane'["tester"].at # "idle"
  PROVE  Given' /\ test'.running
  <1> USE DEF Given
  <1>1. CASE ~ test.running
    BY <1>1 DEF Scheduled
  <1>2. CASE test.running /\ c = LastGiven(test)
    <2>1. test' = test
      BY <1>2 DEF Scheduled
    <2>2. CASE test.pending \ {NoCookie} = {}
      BY <1>2, <2>1, <2>2 DEF LastGiven
    <2>3. CASE test.pending \ {NoCookie} # {}
      <3>1. test.pending = {asked} /\ test.pending \ {NoCookie} = {asked}
        BY <2>3
      <3>2. c = asked
        BY <1>2, <3>1 DEF LastGiven
      <3> QED BY <1>2, <2>1, <3>1, <3>2
    <2> QED BY <2>2, <2>3
  <1>3. CASE test.running /\ c # LastGiven(test)
    BY <1>3 DEF Scheduled
  <1> QED BY <1>1, <1>2, <1>3

LEMMA ScheduleTestInv ==
  ASSUME AccountsInv, NEW l \in Lanes \ {"tester"}, ScheduleTest(l)
  PROVE  AccountsInv' /\ Orderly
  <1> DEFINE more == lane[l].rounds > 1
             x == IF more THEN [lane[l] EXCEPT !.rounds = @ - 1] ELSE Rest
             moved == [lane EXCEPT ![l] = x]
  <1>1. Schedule(lane[l].pick, moved) /\ UNCHANGED <<configVars, health, copy, loaded, left>> /\ AllWritten(l)
    BY DEF ScheduleTest, Is
  <1>2. x \in LaneOf(l)
    <2>1. lane[l] \in LaneOf(l) /\ lane[l].rounds \in 0..2
      BY AccountTypes
    <2>2. CASE more
      <3>1. lane[l].rounds - 1 \in 0..2
        BY <2>1, <2>2
      <3> QED BY <2>1, <2>2, <3>1 DEF LaneOf, Lane
    <2>3. CASE ~ more
      BY <2>3, PairTypes
    <2> QED BY <2>2, <2>3
  <1>3. /\ \A m \in Lanes : moved[m] = IF m = l THEN x ELSE lane[m]
        /\ moved \in [Lanes -> Lane] /\ moved["tester"] = lane["tester"]
    <2>1. lane \in [Lanes -> Lane] /\ l \in Lanes /\ "tester" \in Lanes /\ x \in Lane
      BY <1>2 DEF AccountsInv, LanesOK, Lanes, LaneOf
    <2>2. \A m \in Lanes : moved[m] = IF m = l THEN x ELSE lane[m]
      BY <2>1
    <2>3. moved \in [Lanes -> Lane]
      BY <2>1, <2>2
    <2> QED BY <2>1, <2>2, <2>3
  <1>4. HealthOK'
    <2>1. CASE more
      BY <1>1, <2>1, AccountAssumption, ChangeLists, BeginHealthOK DEF ScheduleTest, AccountsInv
    <2>2. CASE ~ more
      BY <1>1, <2>2 DEF ScheduleTest, AccountsInv, HealthOK
    <2> QED BY <2>1, <2>2
  <1>5. Tester \in LaneOf("tester") /\ Tester.at = "test"
    BY PairTypes DEF Tester, Rest, LaneOf, Lane, Places, Lanes
  <1>6. /\ lane' \in [Lanes -> Lane] /\ \A m \in Lanes : lane'[m] \in LaneOf(m)
        /\ lane'["tester"] = IF test.running THEN lane["tester"] ELSE Tester
    <2>1. CASE test.running
      BY <1>1, <1>2, <1>3, <2>1 DEF Schedule, AccountsInv, LanesOK
    <2>2. CASE ~ test.running
      <3>1. lane' = [moved EXCEPT !["tester"] = Tester] /\ Tester \in Lane
        BY <1>1, <1>5, <2>2 DEF Schedule, LaneOf
      <3> HIDE DEF moved, x
      <3>2. lane' \in [Lanes -> Lane] /\ \A m \in Lanes : lane'[m] = IF m = "tester" THEN Tester ELSE moved[m]
        BY <1>3, <3>1
      <3>3. \A m \in Lanes : lane'[m] \in LaneOf(m)
        BY <1>2, <1>3, <1>5, <3>2 DEF AccountsInv, LanesOK
      <3> QED BY <2>2, <3>2, <3>3 DEF Lanes
    <2> QED BY <2>1, <2>2
  <1>7. Given' /\ test'.running
    <2>1. lane'["tester"].at # "idle" /\ Given
      BY <1>5, <1>6 DEF AccountsInv, Given
    <2> QED BY <1>1, <2>1, AccountTypes, GivenOn DEF Schedule
  <1>8. ConfigOK' /\ LanesOK' /\ TesterSees'
    BY <1>1, <1>5, <1>6 DEF AccountsInv, ConfigOK, LanesOK, TesterSees, configVars
  <1>9. Orderly
    BY <1>1, <1>7 DEF Orderly, ConfigStep, configVars, pair
  <1> QED BY <1>4, <1>7, <1>8, <1>9 DEF AccountsInv

\* A step of one lane and the configuration.
LEMMA RestsMove ==
  ASSUME AccountsInv, NEW l \in Lanes \ {"tester"}, NEW x \in LaneOf(l), lane' = [lane EXCEPT ![l] = x],
         ConfigStep(l), Rests,
         pair'.cookie = pair.cookie \/ (l \in {"user", "login", "sync", "browser"} /\ x.at # lane[l].at)
  PROVE  AccountsInv' /\ Orderly
  <1>1. HealthOK' /\ UNCHANGED testVars /\ left' \in 0..Requests
    BY DEF Rests, healthVars, AccountsInv, HealthOK, LanesOK
  <1> QED BY <1>1, LaneMoves

LEMMA WritesInv ==
  ASSUME AccountsInv, NEW l \in Lanes, Writes(l)
  PROVE  AccountsInv' /\ Orderly
  <1>1. HealthOK' /\ UNCHANGED <<configVars, lane, testVars, left>>
    BY AccountAssumption, WriteHealthOK DEF Writes, AccountsInv
  <1> QED BY <1>1 DEF AccountsInv, ConfigOK, LanesOK, TesterSees, Given, Orderly, ConfigStep, configVars, testVars, pair

LEMMA LoginFailsInv ==
  ASSUME AccountsInv, LoginFails
  PROVE  AccountsInv' /\ Orderly
  <1>1. "login" \in Lanes \ {"tester"}
    BY DEF Lanes
  <1>2. Rest \in LaneOf("login") /\ lane' = [lane EXCEPT !["login"] = Rest]
    BY <1>1, Moves DEF LoginFails
  <1>3. ConfigStep("login") /\ pair' = pair /\ Rests
    BY DEF LoginFails, ConfigStep, Forget, pair
  <1> QED BY <1>1, <1>2, <1>3, RestsMove

LEMMA NoteLoadsInv ==
  ASSUME AccountsInv, NEW l \in Lanes \ {"tester"}, NoteLoads(l)
  PROVE  AccountsInv' /\ Orderly
  <1>1. ConfigStep(l) /\ pair' = pair /\ Rests
    BY DEF NoteLoads, Load, configVars, ConfigStep, pair
  <1>2. CASE Ends(l)
    BY <1>1, <1>2, Moves, RestsMove
  <1>3. CASE \E place \in {"noting", lane[l].next} : Goes(l, place)
    <2>1. PICK place \in {"noting", lane[l].next} : Goes(l, place)
      BY <1>3
    <2>2. place \in Places \ {"save"}
      BY AccountTypes DEF Afterwards, Places
    <2> QED BY <1>1, <2>1, <2>2, Moves, RestsMove
  <1> QED BY <1>2, <1>3 DEF NoteLoads

\* The browser's state is noted: the cookie is the one that was loaded.
LEMMA NoteSavesInv ==
  ASSUME AccountsInv, NEW l \in Lanes \ {"tester"}, NoteSaves(l)
  PROVE  AccountsInv' /\ Orderly
  <1>1. PICK note \in {"open", "off"} :
          LET p == [base[l]["cookies"] EXCEPT !.note = note, !.linked = @ \/ lane[l].next = "watch"]
          IN Saves(l, p,
                IF lane[l].next = "idle" THEN Ends(l)
                ELSE lane' = [lane EXCEPT ![l].at = lane[l].next,
                                          ![l].pair = IF lane[l].next = "watch" THEN p ELSE @],
                Ends(l))
    BY DEF NoteSaves
  <1> DEFINE old == base[l]["cookies"]
             p == [old EXCEPT !.note = note, !.linked = @ \/ lane[l].next = "watch"]
  <1>2. old \in Pair
    BY <1>1, AccountTypes DEF Saves, Save, SaveRaises
  <1>3. p \in Pair /\ p.cookie = old.cookie
    BY <1>2 DEF Pair
  <1>4. ConfigStep(l) /\ pair'.cookie = pair.cookie
    BY <1>1, <1>3, SavesConfig DEF Saves
  <1>5. CASE Ends(l)
    BY <1>4, <1>5, Moves, RestsMove DEF NoteSaves
  <1>6. CASE lane' = [lane EXCEPT ![l].at = lane[l].next, ![l].pair = IF lane[l].next = "watch" THEN p ELSE @]
    <2> DEFINE then == IF lane[l].next = "watch" THEN p ELSE lane[l].pair
               x == [lane[l] EXCEPT !.at = lane[l].next, !.pair = then]
    <2>1. lane[l] \in LaneOf(l) /\ lane[l].next \in Afterwards /\ then \in Pair
      BY <1>3, AccountTypes
    <2>2. x \in LaneOf(l)
      BY <2>1, ZenonT(60) DEF LaneOf, Lane, Afterwards, Places
    <2>3. lane' = [lane EXCEPT ![l] = x]
      BY <1>6 DEF AccountsInv, LanesOK, Lane
    <2> QED BY <1>4, <2>2, <2>3, RestsMove DEF NoteSaves
  <1> QED BY <1>1, <1>5, <1>6 DEF Saves

\* A lane goes to note that the browser did not come to a result.
LEMMA NotesNext ==
  ASSUME AccountsInv, NEW l \in Lanes, NEW next \in Afterwards
  PROVE  [lane[l] EXCEPT !.at = "note", !.next = next] \in LaneOf(l)
  <1>1. lane[l] \in LaneOf(l)
    BY AccountTypes
  <1> QED BY <1>1 DEF LaneOf, Lane, Afterwards, Places

LEMMA CollectFailsInv ==
  ASSUME AccountsInv, NEW l \in Lanes \ {"tester"}, CollectFails(l)
  PROVE  AccountsInv' /\ Orderly
  <1>1. ConfigStep(l) /\ pair' = pair /\ Rests
    BY DEF CollectFails, ConfigStep, configVars, pair
  <1>2. CASE lane' = [lane EXCEPT ![l] = [@ EXCEPT !.at = "note", !.next = "idle"]]
    <2>1. "idle" \in Afterwards /\ lane' = [lane EXCEPT ![l] = [lane[l] EXCEPT !.at = "note", !.next = "idle"]]
      BY <1>2 DEF Afterwards, AccountsInv, LanesOK
    <2> QED BY <1>1, <2>1, NotesNext, RestsMove
  <1>3. CASE Goes(l, "watch")
    <2>1. "watch" \in Places \ {"save"}
      BY DEF Places
    <2> QED BY <1>1, <1>3, <2>1, Moves, RestsMove
  <1> QED BY <1>2, <1>3 DEF CollectFails

LEMMA CollectsInv ==
  ASSUME AccountsInv, NEW l \in Lanes \ {"tester"}, Collects(l)
  PROVE  AccountsInv' /\ Orderly
  <1>1. ConfigStep(l) /\ pair' = pair /\ Rests
    BY DEF Collects, Load, ConfigStep, configVars, pair
  <1>2. CASE Ends(l)
    BY <1>1, <1>2, Moves, RestsMove
  <1>3. CASE \E c \in Cookie \cup {NoCookie} : lane' = [lane EXCEPT ![l] = [@ EXCEPT !.at = "storing", !.pick = c]]
    <2>1. PICK c \in Cookie \cup {NoCookie} : lane' = [lane EXCEPT ![l] = [@ EXCEPT !.at = "storing", !.pick = c]]
      BY <1>3
    <2> DEFINE x == [lane[l] EXCEPT !.at = "storing", !.pick = c]
    <2>2. lane[l] \in LaneOf(l) /\ lane' = [lane EXCEPT ![l] = x]
      BY <2>1, AccountTypes DEF AccountsInv, LanesOK
    <2>3. x \in LaneOf(l)
      BY <2>2 DEF LaneOf, Lane, Places
    <2> QED BY <1>1, <2>2, <2>3, RestsMove
  <1> QED BY <1>2, <1>3 DEF Collects

\* The session of the browser is stored: the only step by which a cookie comes
\* that no request named.
LEMMA StoreSavesInv ==
  ASSUME AccountsInv, NEW l \in {"user", "login", "sync", "browser"}, StoreSaves(l)
  PROVE  AccountsInv' /\ Orderly
  <1> DEFINE old == base[l]["cookies"]
             c == lane[l].pick
             changed == c # old.cookie
             rounds == (IF l = "sync" THEN 1 ELSE 0)
                       + (IF changed \/ (old.linked /\ old.note # "synced") THEN 1 ELSE 0)
             after == IF l = "browser" THEN Goes(l, "watch") ELSE Ends(l)
  <1>1. /\ l \in Lanes \ {"tester"} /\ lane[l].at = "storing" /\ AllWritten(l)
        /\ UNCHANGED <<health, copy, loaded, testVars, left>> /\ left' \in 0..Requests
    BY DEF StoreSaves, Is, Lanes, AccountsInv, LanesOK
  <1>2. PICK p : /\ Saves(l, p, TRUE, TRUE) /\ (old \in Pair => p \in Pair)
                 /\ \/ Ends(l) /\ Begin(l, <<"close">>)
                    \/ after /\ UNCHANGED todo
                    \/ Ends(l) /\ UNCHANGED todo
                    \/ rounds # 0 /\ MarkAndTest(l, rounds)
    <2>1. CASE c = NoCookie
      <3> DEFINE q == [old EXCEPT !.note = "off", !.linked = TRUE]
      <3>1. old \in Pair => q \in Pair
        BY DEF Pair
      <3>2. Saves(l, q, Ends(l) /\ Begin(l, <<"close">>), after /\ UNCHANGED todo)
        BY <2>1 DEF StoreSaves
      <3> HIDE DEF q, old, after
      <3> QED BY <3>1, <3>2 DEF Saves
    <2>2. CASE c # NoCookie
      <3> DEFINE q(t) == [cookie |-> c, tested |-> t, linked |-> TRUE, note |-> "synced"]
      <3>1. PICK t \in {c, old.tested} :
               Saves(l, q(t), IF rounds = 0 THEN Ends(l) /\ UNCHANGED todo ELSE MarkAndTest(l, rounds),
                     after /\ UNCHANGED todo)
        BY <2>2 DEF StoreSaves
      <3>2. old \in Pair => q(t) \in Pair
        BY <1>1, AccountTypes DEF Pair
      <3> HIDE DEF q, old, after, rounds
      <3> QED BY <3>1, <3>2 DEF Saves
    <2> QED BY <2>1, <2>2
  <1>3. old \in Pair
    BY <1>1, <1>2, AccountTypes DEF Saves, Save, SaveRaises
  <1>4. ConfigStep(l)
    BY <1>1, <1>2, <1>3, SavesConfig DEF Saves
  <1>5. rounds \in 0..2
    OBVIOUS
  <1>6. Rest.at # lane[l].at
    BY <1>1 DEF Rest
  <1> HIDE DEF old, rounds
  <1>7. CASE Ends(l) /\ Begin(l, <<"close">>)
    <2>1. HealthOK'
      BY <1>1, <1>7, AccountAssumption, ChangeLists, BeginHealthOK DEF AccountsInv
    <2> QED BY <1>1, <1>4, <1>6, <1>7, <2>1, Moves, LaneMoves
  <1>8. CASE (after \/ Ends(l)) /\ UNCHANGED todo
    <2>1. HealthOK'
      BY <1>1, <1>8 DEF AccountsInv, HealthOK
    <2>2. CASE Ends(l)
      BY <1>1, <1>4, <1>6, <2>1, <2>2, Moves, LaneMoves
    <2>3. CASE Goes(l, "watch")
      <3>1. "watch" \in Places \ {"save"}
        BY DEF Places
      <3> DEFINE x == [lane[l] EXCEPT !.at = "watch"]
      <3>2. x \in LaneOf(l) /\ lane' = [lane EXCEPT ![l] = x]
        BY <1>1, <2>3, <3>1, Moves
      <3>3. x.at # lane[l].at
        BY <1>1, AccountTypes DEF LaneOf, Lane
      <3> QED BY <1>1, <1>4, <2>1, <3>2, <3>3, LaneMoves
    <2> QED BY <1>8, <2>2, <2>3
  <1>9. CASE rounds # 0 /\ MarkAndTest(l, rounds)
    <2> DEFINE x == [lane[l] EXCEPT !.at = "schedule", !.rounds = rounds]
    <2>1. HealthOK' /\ x \in LaneOf(l) /\ lane' = [lane EXCEPT ![l] = x]
      <3>1. rounds \in 1..2
        BY <1>5, <1>9
      <3> QED BY <1>1, <1>9, <3>1, MarkAndTestOK
    <2>2. x.at # lane[l].at
      BY <1>1, AccountTypes DEF LaneOf, Lane
    <2> QED BY <1>1, <1>4, <2>1, <2>2, LaneMoves
  <1> QED BY <1>2, <1>7, <1>8, <1>9

LEMMA StartsBrowserInv ==
  ASSUME AccountsInv, StartsBrowser
  PROVE  AccountsInv' /\ Orderly
  <1> DEFINE opened == [Rest EXCEPT !.at = "prepare", !.pair = lane["user"].pair]
             other == IF Is("browser", "idle") THEN opened ELSE lane["browser"]
  <1>1. /\ {"user", "browser", "tester"} \subseteq Lanes /\ lane \in [Lanes -> Lane]
        /\ \A m \in Lanes : lane[m] \in LaneOf(m)
    BY DEF Lanes, AccountsInv, LanesOK
  <1>2. opened \in LaneOf("browser")
    BY <1>1, PairTypes, AccountTypes, ZenonT(60) DEF LaneOf, Lane, Places, Rest
  <1>3. other \in LaneOf("browser") /\ Rest \in LaneOf("user")
    BY <1>1, <1>2, PairTypes
  <1>4. \A m \in Lanes : lane'[m] = CASE m = "user" -> Rest [] m = "browser" -> other [] OTHER -> lane[m]
    BY <1>1 DEF StartsBrowser
  <1>5. lane' \in [Lanes -> Lane]
    <2>1. opened \in Lane /\ Rest \in Lane
      BY <1>2, <1>3 DEF LaneOf
    <2> QED BY <1>1, <2>1 DEF StartsBrowser
  <1> HIDE DEF other
  <1>6. LanesOK' /\ lane'["tester"] = lane["tester"]
    BY <1>1, <1>3, <1>4, <1>5 DEF LanesOK, StartsBrowser, Rests, AccountsInv
  <1> QED BY <1>6 DEF StartsBrowser, Rests, AccountsInv, ConfigOK, HealthOK, TesterSees, Given, Orderly, ConfigStep,
                      configVars, healthVars, testVars, pair, Lanes

LEMMA BrowserInv ==
  ASSUME AccountsInv, Prepared \/ Watches
  PROVE  AccountsInv' /\ Orderly
  <1>1. ConfigStep("browser") /\ pair' = pair /\ Rests /\ "browser" \in Lanes \ {"tester"}
    BY DEF Prepared, Watches, ConfigStep, configVars, pair, Lanes
  <1>2. CASE \E next \in {"watch", "idle"} :
               lane' = [lane EXCEPT !["browser"] = [@ EXCEPT !.at = "note", !.next = next]]
    <2>1. PICK next \in {"watch", "idle"} :
               lane' = [lane EXCEPT !["browser"] = [@ EXCEPT !.at = "note", !.next = next]]
      BY <1>2
    <2>2. /\ next \in Afterwards
          /\ lane' = [lane EXCEPT !["browser"] = [lane["browser"] EXCEPT !.at = "note", !.next = next]]
      BY <1>1, <2>1 DEF Afterwards, AccountsInv, LanesOK
    <2> QED BY <1>1, <2>2, NotesNext, RestsMove
  <1>3. CASE Ends("browser")
    BY <1>1, <1>3, Moves, RestsMove
  <1>4. CASE Goes("browser", "collect")
    <2>1. "collect" \in Places \ {"save"}
      BY DEF Places
    <2> QED BY <1>1, <1>4, <2>1, Moves, RestsMove
  <1> QED BY <1>2, <1>3, <1>4 DEF Prepared, Watches

(***************************************************************************)
(* The check of every 12 hours.                                            *)
(***************************************************************************)
LEMMA CheckInv ==
  ASSUME AccountsInv, CheckBegins \/ CheckApplies
  PROVE  AccountsInv' /\ Orderly
  <1>1. "check" \in Lanes \ {"tester"} /\ "check" \in Writer
    BY AccountAssumption DEF Lanes
  <1>2. CASE CheckBegins
    <2> DEFINE x == [Rest EXCEPT !.at = "apply", !.pick = pair.cookie]
    <2>1. x \in LaneOf("check")
      <3>1. Rest \in LaneOf("check") /\ pair.cookie \in Cookie \cup {NoCookie}
        BY <1>1, PairTypes, AccountTypes
      <3> QED BY <3>1 DEF LaneOf, Lane, Places
    <2>2. ConfigStep("check") /\ pair' = pair /\ UNCHANGED testVars /\ lane' = [lane EXCEPT !["check"] = x]
      BY <1>2 DEF CheckBegins, ConfigStep, configVars, pair
    <2>3. HealthOK' /\ left' \in 0..Requests
      BY <1>2, AccountAssumption DEF CheckBegins, AccountsInv, HealthOK, LanesOK, healthVars
    <2> QED BY <1>1, <2>1, <2>2, <2>3, LaneMoves
  <1>3. CASE CheckApplies
    <2>1. ConfigStep("check") /\ pair'.cookie = pair.cookie
      <3>1. CASE UNCHANGED configVars
        BY <3>1 DEF ConfigStep, configVars, pair
      <3>2. CASE Update("cookies", [pair EXCEPT !.tested = pair.cookie])
        <4> DEFINE q == [pair EXCEPT !.tested = pair.cookie]
        <4>1. pair \in Pair /\ pair.cookie \in Cookie \cup {NoCookie}
          BY <1>1, AccountTypes
        <4>2. q \in Pair /\ q.cookie = pair.cookie
          BY <4>1 DEF Pair
        <4>3. pair' = q
          BY <3>2, AccountAssumption DEF Update, pair, AccountsInv, ConfigOK, Accounts
        <4> HIDE DEF q
        <4> QED BY <3>2, <4>2, <4>3 DEF ConfigStep, q
      <3> QED BY <1>3, <3>1, <3>2 DEF CheckApplies
    <2>2. HealthOK'
      <3>1. HealthOK /\ AllWritten("check") /\ UNCHANGED <<health, copy, loaded>>
        BY <1>3 DEF CheckApplies, Is, AccountsInv
      <3>2. CASE UNCHANGED todo
        BY <3>1, <3>2 DEF HealthOK
      <3>3. CASE \E changes \in {<<"status">>, <<"status", "close">>} : Begin("check", changes)
        BY <1>1, <3>1, <3>3, ChangeLists, BeginHealthOK
      <3> QED BY <1>3, <3>2, <3>3 DEF CheckApplies
    <2>3. Rest \in LaneOf("check") /\ lane' = [lane EXCEPT !["check"] = Rest]
      BY <1>1, <1>3, Moves DEF CheckApplies
    <2>4. UNCHANGED testVars /\ left' \in 0..Requests
      BY <1>3 DEF CheckApplies, AccountsInv, LanesOK, testVars
    <2> QED BY <1>1, <2>1, <2>2, <2>3, <2>4, LaneMoves
  <1> QED BY <1>2, <1>3

(***************************************************************************)
(* The thread that tests.                                                  *)
(***************************************************************************)
LEMMA TesterMoves ==
  ASSUME AccountsInv, NEW x \in LaneOf("tester"), lane' = [lane EXCEPT !["tester"] = x], x.at # "idle",
         ConfigStep("tester"), pair'.cookie = pair.cookie, HealthOK', left' = left, Given',
         test'.running, x.at \in {"read", "save"} => x.pair = base'["tester"]["cookies"]
  PROVE  AccountsInv' /\ Orderly
  <1>0. "tester" \in Lanes
    BY DEF Lanes
  <1>1. ConfigOK'
    BY <1>0, ConfigKept DEF AccountsInv
  <1>2. LanesOK' /\ lane'["tester"] = x
    BY <1>0 DEF AccountsInv, LanesOK, LaneOf
  <1>3. TesterSees'
    BY <1>2 DEF TesterSees
  <1> QED BY <1>0, <1>1, <1>2, <1>3 DEF AccountsInv, Orderly

LEMMA TestRunsInv ==
  ASSUME AccountsInv, TestRaises \/ TestReturns \/ TestReports \/ TestSaves
  PROVE  AccountsInv' /\ Orderly
  <1>1. /\ "tester" \in Lanes /\ "tester" \in Writer /\ lane["tester"].at \in {"test", "read", "save"}
        /\ AllWritten("tester") /\ test.running
    BY AccountAssumption DEF TestRaises, TestReturns, TestReports, TestSaves, Is, Lanes, AccountsInv, Given
  <1>2. left' = left
    BY DEF TestRaises, TestReturns, TestReports, TestSaves, Rests
  <1> DEFINE finish == [lane["tester"] EXCEPT !.at = "finish"]
  <1>3. finish \in LaneOf("tester") /\ finish.at = "finish"
    <2>1. "finish" \in Places /\ lane["tester"] \in LaneOf("tester")
      BY <1>1, AccountTypes DEF Places
    <2> QED BY <2>1 DEF LaneOf, Lane
  <1>4. Goes("tester", "finish") => lane' = [lane EXCEPT !["tester"] = finish]
    BY <1>1 DEF Goes, AccountsInv, LanesOK
  <1>5. UNCHANGED testVars /\ lane'["tester"].at # "idle" => Given' /\ test'.running
    BY <1>1 DEF testVars, AccountsInv, Given
  <1>6. UNCHANGED healthVars => HealthOK'
    BY DEF healthVars, AccountsInv, HealthOK
  <1>7. \A x \in LaneOf("tester") : lane' = [lane EXCEPT !["tester"] = x] => lane'["tester"] = x
    BY <1>1 DEF AccountsInv, LanesOK
  <1>8. CASE TestRaises
    <2>1. ConfigStep("tester") /\ pair' = pair /\ HealthOK' /\ UNCHANGED testVars
      BY <1>6, <1>8 DEF TestRaises, Rests, ConfigStep, configVars, pair
    <2>2. lane' = [lane EXCEPT !["tester"] = finish]
      BY <1>4, <1>8 DEF TestRaises
    <2> HIDE DEF finish
    <2> QED BY <1>2, <1>3, <1>5, <1>7, <2>1, <2>2, TesterMoves
  <1>9. CASE TestReturns /\ pair.cookie # test.active
    <2>1. ConfigStep("tester") /\ pair' = pair /\ HealthOK' /\ Schedule(pair.cookie, [lane EXCEPT !["tester"].at = "finish"])
      BY <1>6, <1>9 DEF TestReturns, ConfigStep, configVars, pair
    <2>2. lane' = [lane EXCEPT !["tester"] = finish]
      BY <1>1, <2>1 DEF Schedule, AccountsInv, LanesOK
    <2> HIDE DEF finish
    <2>3. Given' /\ test'.running
      <3>1. lane'["tester"].at # "idle" /\ pair.cookie \in Cookie \cup {NoCookie}
        BY <1>1, <1>3, <1>7, <2>2, AccountTypes
      <3> QED BY <2>1, <3>1, GivenOn DEF Schedule, AccountsInv
    <2> QED BY <1>2, <1>3, <2>1, <2>2, <2>3, TesterMoves
  <1>10. CASE TestReturns /\ pair.cookie = test.active
    <2> DEFINE x == [lane["tester"] EXCEPT !.at = "read", !.pair = pair]
    <2>1. lane["tester"] \in LaneOf("tester") /\ pair \in Pair
      BY <1>1, AccountTypes
    <2>2. x \in LaneOf("tester") /\ x.at = "read" /\ x.pair = pair
      BY <2>1 DEF LaneOf, Lane, Places
    <2>3. lane' = [lane EXCEPT !["tester"] = x] /\ Load("tester") /\ UNCHANGED testVars /\ HealthOK'
      BY <1>1, <1>6, <1>10 DEF TestReturns, AccountsInv, LanesOK
    <2>4. ConfigStep("tester") /\ pair' = pair /\ base'["tester"]["cookies"] = pair
      BY <1>1, <2>3, AccountAssumption DEF ConfigStep, Load, pair, AccountsInv, ConfigOK
    <2> HIDE DEF x
    <2> QED BY <1>2, <1>5, <1>7, <2>2, <2>3, <2>4, TesterMoves
  <1>11. CASE TestReports
    <2> DEFINE x == [lane["tester"] EXCEPT !.at = "save"]
    <2>1. lane["tester"] \in LaneOf("tester")
      BY <1>1, AccountTypes
    <2>2. x \in LaneOf("tester") /\ x.at = "save" /\ x.pair = lane["tester"].pair
      BY <2>1 DEF LaneOf, Lane, Places
    <2>3. lane' = [lane EXCEPT !["tester"] = x] /\ UNCHANGED configVars /\ UNCHANGED testVars
      BY <1>1, <1>11 DEF TestReports, Goes, AccountsInv, LanesOK
    <2>4. ConfigStep("tester") /\ pair' = pair /\ x.pair = base'["tester"]["cookies"]
      BY <1>11, <2>2, <2>3 DEF TestReports, Is, ConfigStep, configVars, pair, AccountsInv, TesterSees
    <2>5. HealthOK'
      <3>1. PICK changes \in {<<"close">>, MarkOk, <<"status">>} : Begin("tester", changes)
        BY <1>11 DEF TestReports
      <3>2. changes \in Seq(Changes)
        BY ChangeLists
      <3> QED BY <1>1, <1>11, <3>1, <3>2, BeginHealthOK DEF TestReports, AccountsInv
    <2> HIDE DEF x
    <2> QED BY <1>2, <1>5, <1>7, <2>2, <2>3, <2>4, <2>5, TesterMoves
  <1>12. CASE TestSaves
    <2> DEFINE p == [lane["tester"].pair EXCEPT !.tested = test.active]
    <2>1. lane["tester"].pair \in Pair /\ test.active \in Cookie \cup {NoCookie}
      BY <1>1, AccountTypes DEF AccountsInv, Given
    <2>2. p \in Pair /\ p.cookie = lane["tester"].pair.cookie
      BY <2>1 DEF Pair
    <2>3. lane["tester"].pair = base["tester"]["cookies"]
      BY <1>12 DEF TestSaves, Is, AccountsInv, TesterSees
    <2>4. ConfigStep("tester") /\ pair'.cookie = pair.cookie
      BY <1>1, <1>12, <2>2, <2>3, SavesConfig DEF TestSaves, Saves
    <2>5. lane' = [lane EXCEPT !["tester"] = finish] /\ UNCHANGED testVars /\ HealthOK'
      BY <1>4, <1>6, <1>12 DEF TestSaves, Saves, Rests
    <2> HIDE DEF finish
    <2> QED BY <1>2, <1>3, <1>5, <1>7, <2>4, <2>5, TesterMoves
  <1> QED BY <1>8, <1>9, <1>10, <1>11, <1>12

LEMMA TestNextInv ==
  ASSUME AccountsInv, TestNext
  PROVE  AccountsInv' /\ Orderly
  <1>1. "tester" \in Lanes /\ test.running
    BY DEF TestNext, Is, Lanes, AccountsInv, Given
  <1>2. ConfigStep("tester") /\ pair' = pair /\ HealthOK' /\ left' = left /\ ConfigOK'
    BY DEF TestNext, ConfigStep, configVars, pair, healthVars, AccountsInv, HealthOK, ConfigOK
  <1>3. CASE test.pending = {}
    <2>1. /\ test' = [running |-> FALSE, active |-> NoCookie, pending |-> {}]
          /\ asked' = NoCookie /\ lane' = [lane EXCEPT !["tester"] = Rest]
      BY <1>1, <1>3, Moves DEF TestNext
    <2>2. Rest \in LaneOf("tester") /\ Rest.at = "idle"
      BY <1>1, PairTypes DEF Rest
    <2>3. LanesOK' /\ lane'["tester"] = Rest
      BY <1>1, <1>2, <2>1, <2>2 DEF AccountsInv, LanesOK, LaneOf
    <2>4. Given' /\ TesterSees'
      BY <2>1, <2>2, <2>3 DEF Given, TesterSees
    <2>5. test.active \in {asked, NoCookie}
      BY <1>1, <1>3 DEF AccountsInv, Given
    <2> QED BY <1>1, <1>2, <2>3, <2>4, <2>5 DEF AccountsInv, Orderly
  <1>4. CASE test.pending # {}
    <2>1. /\ test' = [test EXCEPT !.active = CHOOSE c \in test.pending : TRUE, !.pending = {}]
          /\ lane' = [lane EXCEPT !["tester"] = Tester] /\ UNCHANGED asked
      BY <1>4 DEF TestNext
    <2>2. Tester \in LaneOf("tester") /\ Tester.at = "test"
      BY <1>1, PairTypes DEF Tester, Rest, LaneOf, Lane, Places
    <2>3. lane'["tester"] = Tester
      BY <1>1, <2>1 DEF AccountsInv, LanesOK
    <2>4. test' = [running |-> TRUE, active |-> CHOOSE c \in test.pending : TRUE, pending |-> {}]
      BY <1>1, <2>1 DEF AccountsInv, Given
    <2>5. Given' /\ test'.running
      <3>1. CASE test.pending = {asked}
        BY <1>1, <2>1, <2>2, <2>3, <2>4, <3>1 DEF AccountsInv, Given
      <3>2. CASE test.pending = {NoCookie}
        BY <1>1, <2>1, <2>2, <2>3, <2>4, <3>2 DEF AccountsInv, Given
      <3> QED BY <1>4, <3>1, <3>2 DEF AccountsInv, Given
    <2> QED BY <1>2, <2>1, <2>2, <2>5, TesterMoves
  <1> QED BY <1>3, <1>4

-----------------------------------------------------------------------------
LEMMA InitInv == AccountsInit => AccountsInv
  <1> SUFFICES ASSUME AccountsInit PROVE AccountsInv
    OBVIOUS
  <1> DEFINE c == CHOOSE c \in Cookie : TRUE
  <1>1. c \in Cookie
    BY AccountAssumption
  <1>2. PICK p \in {Empty, [Empty EXCEPT !.cookie = c, !.tested = c, !.linked = TRUE]} : ConfigInit([f \in Field |-> p])
    BY DEF AccountsInit
  <1>3. p \in Pair
    <2>1. Empty \in Pair
      BY PairTypes
    <2>2. [Empty EXCEPT !.cookie = c, !.tested = c, !.linked = TRUE] \in Pair
      BY <1>1, <2>1 DEF Pair
    <2> QED BY <1>2, <2>1, <2>2
  <1>4. ConfigOK
    BY <1>2, <1>3, NothingHeld, AccountAssumption DEF ConfigInit, ConfigOK, Accounts
  <1>5. HealthOK
    BY DEF AccountsInit, HealthInit, HealthOK, Gate
  <1>6. lane = [l \in Lanes |-> Rest] /\ (\A l \in Lanes : Rest \in LaneOf(l)) /\ "tester" \in Lanes
    BY PairTypes DEF AccountsInit, Lanes
  <1>7. LanesOK
    BY <1>6, AccountAssumption DEF AccountsInit, LanesOK, LaneOf
  <1>8. TesterSees /\ Given
    <2>1. lane["tester"].at = "idle"
      BY <1>6 DEF Rest
    <2> QED BY <2>1 DEF AccountsInit, TesterSees, Given
  <1> QED BY <1>4, <1>5, <1>7, <1>8 DEF AccountsInv

LEMMA StepInv ==
  ASSUME AccountsInv, [AccountsNext]_accountVars
  PROVE  AccountsInv' /\ Orderly
  <1>1. CASE Requested \/ Reported
    BY <1>1, RequestedInv, ReportedInv
  <1>2. CASE \E l \in Lanes : LaneStep(l)
    <2>1. PICK l \in Lanes : LaneStep(l)
      BY <1>2
    <2>2. CASE Writes(l)
      BY <2>2, WritesInv
    <2>3. CASE l \in {"user", "login", "sync", "browser"} /\ RouteStep(l)
      <3>1. l \in Lanes \ {"tester"} /\ l \in {"user", "login", "sync", "browser"}
        BY <2>3
      <3> QED BY <2>3, <3>1, RouteSavesInv, ScheduleTestInv, NoteLoadsInv, NoteSavesInv, CollectFailsInv, CollectsInv,
                 StoreSavesInv DEF RouteStep
    <2>4. CASE StartsBrowser \/ LoginFails
      BY <2>4, StartsBrowserInv, LoginFailsInv
    <2>5. CASE TestRaises \/ TestReturns \/ TestReports \/ TestSaves \/ TestNext
      BY <2>5, TestRunsInv, TestNextInv
    <2>6. CASE Prepared \/ Watches \/ CheckBegins \/ CheckApplies
      BY <2>6, BrowserInv, CheckInv
    <2> QED BY <2>1, <2>2, <2>3, <2>4, <2>5, <2>6 DEF LaneStep
  <1>3. CASE UNCHANGED accountVars
    BY <1>3 DEF accountVars, AccountsInv, ConfigOK, HealthOK, LanesOK, TesterSees, Given, Orderly, ConfigStep,
                configVars, pair, Lanes
  <1> QED BY <1>1, <1>2, <1>3 DEF AccountsNext

LEMMA AlwaysInv == AccountsSpec => []AccountsInv
  <1>1. AccountsInv /\ [AccountsNext]_accountVars => AccountsInv'
    BY StepInv
  <1> QED BY <1>1, InitInv, PTL DEF AccountsSpec

(***************************************************************************)
(* Whatever requests, logins, synchronisations, checks and reports come    *)
(* in whatever order, the variables hold what the code can store in them,  *)
(* and ONLINE_ACCOUNT_TEST_RUNNING has the platform exactly while its      *)
(* thread runs (api/config.py).                                            *)
(***************************************************************************)
THEOREM AccountsTypeCorrect == AccountsSpec => []AccountsTypeOK
  <1>1. AccountsInv => AccountsTypeOK
    <2> SUFFICES ASSUME AccountsInv PROVE AccountsTypeOK
      OBVIOUS
    <2>1. Cardinality(test.pending) <= 1
      <3>1. PICK c : test.pending \in {{}, {c}}
        BY DEF AccountsInv, Given
      <3>2. Cardinality({}) = 0 /\ Cardinality({c}) = 1
        BY FS_EmptySet, FS_Singleton
      <3> QED BY <3>1, <3>2
    <2>2. config["cookies"] \in Pair /\ \A l \in Client : base[l]["cookies"] \in Pair \cup {Missing}
      BY AccountAssumption DEF AccountsInv, ConfigOK, Accounts
    <2>3. \A w \in Writer : \A i \in DOMAIN todo[w] : todo[w][i] \in Changes
      BY DEF AccountsInv, HealthOK
    <2> QED BY <2>1, <2>2, <2>3 DEF AccountsTypeOK, AccountsInv, ConfigOK, HealthOK, LanesOK, Given
  <1> QED BY <1>1, AlwaysInv, PTL

(***************************************************************************)
(* A test that ends late, a check that began under another cookie and a    *)
(* request that overtakes another never bring a replaced cookie back, and  *)
(* the thread that tests ends with the cookie that it was last given.      *)
(***************************************************************************)
THEOREM CookieHandedOnAlways == AccountsSpec => CookieHandedOn
  <1>1. AccountsInv /\ [AccountsNext]_accountVars =>
          /\ [pair'.cookie # pair.cookie => \E l \in {"user", "login", "sync", "browser"} : lane'[l] # lane[l]]_accountVars
          /\ [test.running /\ ~ test'.running => test.active \in {asked, NoCookie}]_accountVars
    BY StepInv DEF Orderly
  <1> QED BY <1>1, AlwaysInv, PTL DEF AccountsSpec, CookieHandedOn, CookieIsChosen, AskedIsTested

(***************************************************************************)
(* load, save, update and a failed save of JsonStore, used by all of the   *)
(* lanes at once, implement one register per field: no save replaces a     *)
(* value that its caller has not seen (core/store.py).                     *)
(***************************************************************************)
THEOREM ConfigIsRegisters == AccountsSpec => ConfigRefines
  <1>1. AccountsInit => Abstract!RegistersInit
    BY DEF AccountsInit, ConfigInit, Abstract!RegistersInit
  <1>2. AccountsInv /\ [AccountsNext]_accountVars => [Abstract!RegistersNext]_(Abstract!registerVars)
    <2> SUFFICES ASSUME AccountsInv, [AccountsNext]_accountVars PROVE [Abstract!RegistersNext]_(Abstract!registerVars)
      OBVIOUS
    <2>1. PICK l \in Lanes : ConfigStep(l)
      BY StepInv DEF Orderly
    <2> QED BY <2>1, ConfigStepRefines DEF AccountsInv
  <1> QED BY <1>1, <1>2, AlwaysInv, PTL DEF AccountsSpec, ConfigRefines, Abstract!RegistersSpec
=============================================================================
