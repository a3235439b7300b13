----------------------------- MODULE Accounts -----------------------------
(***************************************************************************)
(* The online account of a platform (app/api/config.py and                 *)
(* app/services/account_cookie_maintenance.py): its cookie, kept in the    *)
(* configuration (ConfigStore), and what is known about it, kept beside    *)
(* the cookie and in account_health (AccountHealth).                       *)
(*                                                                         *)
(* Lanes are what may be under way at one time: a route that does not wait *)
(* ("user": the event loop runs one at a time), a login and a browser      *)
(* synchronisation (routes that wait for a helper thread), the thread that *)
(* tests a cookie, the thread that opens the browser and watches it, the   *)
(* 12-hour check of the worker, and the worker's downloads, which report   *)
(* what they met at the gate.  Every load and every save is a step.        *)
(*                                                                         *)
(* The profile data of the account, the second platform and what a new     *)
(* cookie starts elsewhere (subscriptions, retries) are left out.          *)
(***************************************************************************)
EXTENDS ConfigStore, AccountHealth, FiniteSets

CONSTANTS
    Cookie,         \* cookies
    NoCookie,       \* the account is not logged in, or deleted
    Requests        \* a bound: requests of users, reports of downloads, and checks of a
                    \* cookie that was checked, in a behaviour

Lanes == {"user", "login", "sync", "tester", "browser", "check", "download"}
ASSUME AccountAssumption ==
    /\ Client = Lanes /\ Writer = Lanes /\ Field = {"cookies"}
    /\ Cookie # {} /\ NoCookie \notin Cookie /\ Requests \in Nat

VARIABLES
    lane,       \* lane[l]: where lane l is, with the account as it was when it began
    test,       \* ONLINE_ACCOUNT_TEST_RUNNING, _ACTIVE_COOKIE, _PENDING
    asked,      \* the cookie last given to the thread that runs
    left        \* requests and reports left

accountVars == <<config, base, holds, health, todo, copy, loaded, lane, test, asked, left>>

Pair == [cookie : Cookie \cup {NoCookie},   \* the cookie
         tested : Cookie \cup {NoCookie},   \* the cookie its status and message are about
         linked : BOOLEAN,                  \* browser_profile_id
         note   : {"off", "open", "synced"}]           \* browser_status
ASSUME MissingAssumption == Missing \notin Pair     \* no account is taken for a field that is not there
Empty == [cookie |-> NoCookie, tested |-> NoCookie, linked |-> FALSE, note |-> "off"]

Places == {"idle", "save", "schedule", "note", "noting", "collect", "storing", "prepare", "watch",
           "test", "read", "finish", "apply"}
Lane == [at : Places, do : {"", "save", "delete", "test", "open", "login", "sync"},
         pair : Pair, pick : Cookie \cup {NoCookie}, rounds : 0..2, next : Places]
Rest == [at |-> "idle", do |-> "", pair |-> Empty, pick |-> NoCookie, rounds |-> 0, next |-> "idle"]

pair == config["cookies"]
Is(l, place) == lane[l].at = place /\ AllWritten(l)
Goes(l, place) == lane' = [lane EXCEPT ![l].at = place]
Ends(l) == lane' = [lane EXCEPT ![l] = Rest]

AccountsInit ==
    /\ LET c == CHOOSE c \in Cookie : TRUE
       IN \E p \in {Empty, [Empty EXCEPT !.cookie = c, !.tested = c, !.linked = TRUE]} :
            ConfigInit([f \in Field |-> p])
    /\ HealthInit
    /\ lane = [l \in Lanes |-> Rest]
    /\ test = [running |-> FALSE, active |-> NoCookie, pending |-> {}]
    /\ asked = NoCookie
    /\ left = Requests

testVars == <<test, asked>>
Rests == UNCHANGED <<healthVars, testVars, left>>  \* of a step of lane and configuration

\* A save of lane l's object with another pair in it.
Saves(l, p, then, raised) ==
    LET wanted == [base[l] EXCEPT !["cookies"] = p]
    IN \/ Save(l, wanted) /\ then
       \/ SaveRaises(l, wanted) /\ raised

-----------------------------------------------------------------------------
(***************************************************************************)
(* _schedule_online_account_cookie_test, under ONLINE_ACCOUNT_TEST_LOCK:   *)
(* a thread starts, or the one that runs gets the cookie as its next.      *)
(***************************************************************************)
LastGiven(t) ==
    LET next == t.pending \ {NoCookie} IN IF next = {} THEN t.active ELSE CHOOSE c \in next : TRUE
DropWhenRunning(t, c) ==                                            \* mutant
    IF ~ t.running THEN [t EXCEPT !.running = TRUE, !.active = c, !.pending = {}] ELSE t
Scheduled(t, c) ==
    IF ~ t.running THEN [t EXCEPT !.running = TRUE, !.active = c, !.pending = {}]
    ELSE IF c = LastGiven(t) THEN t ELSE [t EXCEPT !.pending = {c}]
Tester == [Rest EXCEPT !.at = "test"]
Schedule(c, moved) ==
    /\ test' = Scheduled(test, c) /\ asked' = c
    /\ lane' = IF test.running THEN moved ELSE [moved EXCEPT !["tester"] = Tester]

-----------------------------------------------------------------------------
(***************************************************************************)
(* Requests, each with the load it begins with and what it refuses.        *)
(***************************************************************************)
Request(l, start) ==
    /\ Is(l, "idle") /\ left > 0
    /\ left' = left - 1
    /\ lane' = [lane EXCEPT ![l] = [start EXCEPT !.pair = pair]]
    /\ IF start.at = "save" THEN Load(l) ELSE UNCHANGED configVars
    /\ UNCHANGED <<healthVars, testVars>>
Doing(do, at) == [Rest EXCEPT !.do = do, !.at = at]

SavesCookies(c) ==
    /\ pair.linked => c = pair.cookie
    /\ Request("user", [Doing("save", "save") EXCEPT !.pick = c])
Deletes == Request("user", Doing("delete", "save"))
Tests ==
    /\ pair.cookie # NoCookie
    /\ Request("user", [Doing("test", "schedule") EXCEPT !.pick = pair.cookie, !.rounds = 1])
Opens == Request("user", [Doing("open", "note") EXCEPT !.next = "prepare"])
LogsIn(c) == ~ pair.linked /\ Request("login", [Doing("login", "save") EXCEPT !.pick = c])
Syncs == pair.linked /\ Request("sync", [Doing("sync", "note") EXCEPT !.next = "collect"])

\* retry_verified_missing_3mf
Verifies ==
    /\ Is("user", "idle") /\ left > 0
    /\ left' = left - 1
    /\ Begin("user", MarkOk)
    /\ UNCHANGED <<configVars, health, copy, loaded, lane, testVars>>
Requested ==
    \/ \E c \in Cookie \cup {NoCookie} : SavesCookies(c)
    \/ \E c \in Cookie : LogsIn(c)
    \/ Deletes \/ Tests \/ Opens \/ Syncs \/ Verifies

\* login_online_account, for which the route waits before it saves, raises.
LoginFails == Is("login", "save") /\ Ends("login") /\ Forget("login") /\ Rests

(***************************************************************************)
(* store.save of save_cookies, login_ and delete_config_online_account.  A *)
(* new cookie is marked as being checked (_mark_online_account_checking)   *)
(* and then tested.                                                        *)
(***************************************************************************)
NewPair(l) ==
    LET p == lane[l].pair  c == lane[l].pick
    IN CASE lane[l].do = "delete" -> Empty
         [] lane[l].do = "login" -> [p EXCEPT !.cookie = c, !.tested = c, !.note = "off"]
         [] lane[l].do = "save" -> [p EXCEPT !.cookie = c, !.tested = IF c = NoCookie THEN c ELSE @]
ChecksAfter(l) ==
    lane[l].do = "login" \/ (lane[l].do = "save" /\ lane[l].pick \notin {NoCookie, lane[l].pair.cookie})
MarkAndTest(l, rounds) ==
    /\ Begin(l, <<"check">>)
    /\ lane' = [lane EXCEPT ![l].at = "schedule", ![l].rounds = rounds]
RouteSaves(l) ==
    /\ Is(l, "save") /\ l \in {"user", "login"}
    /\ Saves(l, NewPair(l),
             IF ChecksAfter(l) THEN MarkAndTest(l, 1) ELSE Ends(l) /\ UNCHANGED todo,
             Ends(l) /\ UNCHANGED todo)
    /\ UNCHANGED <<health, copy, loaded, testVars, left>>

ScheduleTest(l) ==
    /\ Is(l, "schedule")
    /\ LET more == lane[l].rounds > 1
           after == IF more THEN [lane[l] EXCEPT !.rounds = @ - 1] ELSE Rest
       IN /\ Schedule(lane[l].pick, [lane EXCEPT ![l] = after])
          /\ IF more THEN Begin(l, <<"check">>) ELSE UNCHANGED todo
    /\ UNCHANGED <<configVars, health, copy, loaded, left>>

Writes(l) == WriteHealth(l) /\ UNCHANGED <<configVars, lane, testVars, left>>

-----------------------------------------------------------------------------
(***************************************************************************)
(* _run_and_store_online_account_cookie_test: the test; the account as it  *)
(* is now; a result for another cookie is dropped and that one tested; the *)
(* verdict to account_health; the status beside the cookie; the next.      *)
(***************************************************************************)
TestRaises == Is("tester", "test") /\ Goes("tester", "finish") /\ UNCHANGED configVars /\ Rests
BlindlyReturns ==                                                   \* mutant
    /\ Is("tester", "test") /\ test.active # NoCookie
    /\ lane' = [lane EXCEPT !["tester"].at = "read", !["tester"].pair = [pair EXCEPT !.cookie = test.active]]
    /\ Load("tester")
    /\ UNCHANGED <<testVars, healthVars, left>>
TestReturns ==
    /\ Is("tester", "test") /\ test.active # NoCookie
    /\ IF pair.cookie # test.active
       THEN /\ Schedule(pair.cookie, [lane EXCEPT !["tester"].at = "finish"])
            /\ UNCHANGED configVars
       ELSE /\ lane' = [lane EXCEPT !["tester"].at = "read", !["tester"].pair = pair]
            /\ Load("tester")
            /\ UNCHANGED testVars
    /\ UNCHANGED <<healthVars, left>>

\* _sync_account_health_from_online_account_test: an account that can be read
\* though the page cannot counts as ok.
TestReports ==
    /\ Is("tester", "read")
    /\ \E result \in {"ok", "readable", "bad"} :
         Begin("tester", IF result = "bad" THEN <<"close">>
                         ELSE IF result = "ok" /\ health = "checking" THEN MarkOk ELSE <<"status">>)
    /\ Goes("tester", "save")
    /\ UNCHANGED <<configVars, health, copy, loaded, testVars, left>>
TestSaves ==
    /\ Is("tester", "save")
    /\ Saves("tester", [lane["tester"].pair EXCEPT !.tested = test.active],
             Goes("tester", "finish"), Goes("tester", "finish"))
    /\ Rests

\* The thread takes the next cookie, or ends, under the lock.
EndsRunning ==                                                      \* mutant
    /\ Is("tester", "finish") /\ test.pending = {} /\ Ends("tester") /\ UNCHANGED testVars
    /\ UNCHANGED <<configVars, healthVars, left>>
TestNext ==
    /\ Is("tester", "finish")
    /\ IF test.pending = {}
       THEN /\ test' = [running |-> FALSE, active |-> NoCookie, pending |-> {}]
            /\ asked' = NoCookie /\ Ends("tester")
       ELSE /\ test' = [test EXCEPT !.active = CHOOSE c \in test.pending : TRUE, !.pending = {}]
            /\ lane' = [lane EXCEPT !["tester"] = Tester] /\ UNCHANGED asked
    /\ UNCHANGED <<configVars, healthVars, left>>

-----------------------------------------------------------------------------
(***************************************************************************)
(* _save_browser_status: load, and save a status unless the cookie is not  *)
(* the expected one.  Lanes "user" (the browser is opened), "sync" and     *)
(* "browser" (the thread that opens and watches it) use it.                *)
(***************************************************************************)
NoteLoads(l) ==
    /\ Is(l, "note")
    /\ IF lane[l].pair.cookie \in {NoCookie, pair.cookie}
       THEN Load(l) /\ Goes(l, "noting")
       ELSE /\ UNCHANGED configVars
            /\ IF l = "browser" \/ lane[l].next = "idle" THEN Ends(l) ELSE Goes(l, lane[l].next)
    /\ Rests
NoteSaves(l) ==
    /\ Is(l, "noting")
    /\ \E note \in IF lane[l].next = "idle" THEN {"open", "off"} ELSE {"open"} :
         LET p == [base[l]["cookies"] EXCEPT !.note = note, !.linked = @ \/ lane[l].next = "watch"]
         IN Saves(l, p,
               IF lane[l].next = "idle" THEN Ends(l)
               ELSE lane' = [lane EXCEPT ![l].at = lane[l].next,
                                         ![l].pair = IF lane[l].next = "watch" THEN p ELSE @],
               Ends(l))
    /\ Rests

\* _schedule_cloakbrowser_login: one thread for the platform.
StartsBrowser ==
    /\ Is("user", "prepare")
    /\ lane' = [lane EXCEPT !["user"] = Rest,
           !["browser"] = IF Is("browser", "idle")
                          THEN [Rest EXCEPT !.at = "prepare", !.pair = lane["user"].pair] ELSE @]
    /\ UNCHANGED configVars /\ Rests

\* prepare_browser_login returns or fails; _schedule_cloakbrowser_monitor follows.
Prepared ==
    /\ Is("browser", "prepare")
    /\ \E next \in {"watch", "idle"} :
         lane' = [lane EXCEPT !["browser"] = [@ EXCEPT !.at = "note", !.next = next]]
    /\ UNCHANGED configVars /\ Rests

\* The monitor sees another cookie and ends, reads the session, or gives up.
Watches ==
    /\ Is("browser", "watch")
    /\ \/ pair.cookie # lane["browser"].pair.cookie /\ Ends("browser")
       \/ pair.cookie = lane["browser"].pair.cookie /\ Goes("browser", "collect")
       \/ lane' = [lane EXCEPT !["browser"] = [@ EXCEPT !.at = "note", !.next = "idle"]]
    /\ UNCHANGED configVars /\ Rests

\* collect_browser_session raises.
CollectFails(l) ==
    /\ Is(l, "collect")
    /\ \/ lane' = [lane EXCEPT ![l] = [@ EXCEPT !.at = "note", !.next = "idle"]]
       \/ l = "browser" /\ Goes(l, "watch")
    /\ UNCHANGED configVars /\ Rests

(***************************************************************************)
(* It returns the session's cookie, or one without a login (NoCookie), and *)
(* _store_browser_session_result loads the account: with a profile in the  *)
(* target only the profile is compared, otherwise the cookie.  A delete    *)
(* leaves the pair in the list, without a profile, so the case of a        *)
(* removed account is never met.                                           *)
(***************************************************************************)
StaleResult(l) == ~ lane[l].pair.linked /\ pair.cookie # lane[l].pair.cookie
Collects(l) ==
    /\ Is(l, "collect")
    /\ IF StaleResult(l) THEN Ends(l) /\ UNCHANGED configVars
       ELSE /\ Load(l)
            /\ \E c \in Cookie \cup {NoCookie} :
                 lane' = [lane EXCEPT ![l] = [@ EXCEPT !.at = "storing", !.pick = c]]
    /\ Rests
StoreSaves(l) ==
    /\ Is(l, "storing")
    /\ LET old == base[l]["cookies"]
           c == lane[l].pick
           changed == c # old.cookie
           rounds == (IF l = "sync" THEN 1 ELSE 0)
                     + (IF changed \/ (old.linked /\ old.note # "synced") THEN 1 ELSE 0)
           after == IF l = "browser" THEN Goes(l, "watch") ELSE Ends(l)
       IN IF c = NoCookie
          THEN Saves(l, [old EXCEPT !.note = "off", !.linked = TRUE],
                     Ends(l) /\ Begin(l, <<"close">>), after /\ UNCHANGED todo)
          ELSE \E t \in {c, old.tested} :
                 /\ ~ changed => t = old.tested
                 /\ Saves(l, [cookie |-> c, tested |-> t, linked |-> TRUE, note |-> "synced"],
                          IF rounds = 0 THEN Ends(l) /\ UNCHANGED todo ELSE MarkAndTest(l, rounds),
                          after /\ UNCHANGED todo)
    /\ UNCHANGED <<health, copy, loaded, testVars, left>>

-----------------------------------------------------------------------------
(***************************************************************************)
(* run_account_cookie_maintenance_once, every 12 hours: test the cookie,   *)
(* store.update the account if it still has it, then account_health.       *)
(***************************************************************************)
CheckWhenUnknown ==                                                 \* mutant
    /\ Is("check", "idle") /\ pair.cookie # NoCookie /\ pair.tested = NoCookie
    /\ lane' = [lane EXCEPT !["check"] = [Rest EXCEPT !.at = "apply", !.pick = pair.cookie]]
    /\ UNCHANGED <<configVars, healthVars, testVars, left>>
CheckBegins ==
    /\ Is("check", "idle") /\ pair.cookie # NoCookie
    /\ IF pair.tested = pair.cookie THEN left > 0 /\ left' = left - 1 ELSE UNCHANGED left
    /\ lane' = [lane EXCEPT !["check"] = [Rest EXCEPT !.at = "apply", !.pick = pair.cookie]]
    /\ UNCHANGED <<configVars, healthVars, testVars>>
CheckApplies ==
    /\ Is("check", "apply")
    /\ IF pair.cookie = lane["check"].pick
       THEN /\ Update("cookies", [pair EXCEPT !.tested = pair.cookie])
            /\ \E changes \in {<<"status">>, <<"status", "close">>} : Begin("check", changes)
       ELSE UNCHANGED <<configVars, todo>>
    /\ Ends("check")
    /\ UNCHANGED <<health, copy, loaded, testVars, left>>

\* What the worker reports of a download, see ArchiveWorkers.
Reported ==
    /\ Is("download", "idle") /\ left > 0
    /\ \E changes \in {MarkOk, <<"close">>, <<"limit">>, <<"network">>, <<"open">>} : Begin("download", changes)
    /\ left' = left - 1
    /\ UNCHANGED <<configVars, health, copy, loaded, lane, testVars>>

-----------------------------------------------------------------------------
RouteStep(l) ==
    \/ RouteSaves(l) \/ ScheduleTest(l) \/ NoteLoads(l) \/ NoteSaves(l)
    \/ CollectFails(l) \/ Collects(l) \/ StoreSaves(l)
LaneStep(l) ==
    \/ Writes(l)
    \/ l \in {"user", "login", "sync", "browser"} /\ RouteStep(l)
    \/ l = "user" /\ StartsBrowser
    \/ l = "login" /\ LoginFails
    \/ l = "tester" /\ (TestRaises \/ TestReturns \/ TestReports \/ TestSaves \/ TestNext)
    \/ l = "browser" /\ (Prepared \/ Watches)
    \/ l = "check" /\ (CheckBegins \/ CheckApplies)

AccountsNext == Requested \/ Reported \/ \E l \in Lanes : LaneStep(l)
AccountsSpec == AccountsInit /\ [][AccountsNext]_accountVars

\* Every lane comes on, and the worker's main loop calls the check again and again.
AccountsFairSpec == AccountsSpec /\ \A l \in Lanes : WF_accountVars(LaneStep(l))

-----------------------------------------------------------------------------
\* The variables hold what the code can store in them, and the flag that the
\* testing thread runs is up exactly while it does.
AccountsTypeOK ==
    /\ test.running <=> lane["tester"].at # "idle"
    /\ Cardinality(test.pending) <= 1
    /\ config["cookies"] \in Pair
    /\ \A l \in Client : base[l]["cookies"] \in Pair \cup {Missing}
    /\ holds \in [Client -> BOOLEAN]
    /\ health \in Gate /\ copy \in [Writer -> Gate] /\ loaded \in [Writer -> BOOLEAN]
    /\ \A w \in Writer : \A i \in DOMAIN todo[w] : todo[w][i] \in Changes
    /\ lane \in [Lanes -> Lane]
    /\ test \in [running : BOOLEAN, active : Cookie \cup {NoCookie},
                 pending : SUBSET (Cookie \cup {NoCookie})]
    /\ asked \in Cookie \cup {NoCookie}
    /\ left \in 0..Requests

(***************************************************************************)
(* The cookie is what a user asked for, or what the browser he opened has: *)
(* the thread that tests and the 12-hour check, which both write the pair  *)
(* they read earlier, never bring back a cookie that was replaced.         *)
(***************************************************************************)
CookieIsChosen ==
    [][pair'.cookie # pair.cookie =>
         \E l \in {"user", "login", "sync", "browser"} : lane'[l] # lane[l]]_accountVars

(***************************************************************************)
(* When the testing thread ends, the cookie it was last given is the last  *)
(* it took, in whatever order requests and results came: unless the last   *)
(* it took is the empty one of an account that was deleted meanwhile.      *)
(***************************************************************************)
AskedIsTested ==
    [][test.running /\ ~ test'.running => test.active \in {asked, NoCookie}]_accountVars

\* What the lanes hand each other of a cookie, old results and overtaken requests
\* included, ends in the cookie that was asked for and in a test of it.
CookieHandedOn == CookieIsChosen /\ AskedIsTested

(***************************************************************************)
(* Once nobody asks for anything more, the status shown beside the cookie  *)
(* is in the end, and stays, the status of that cookie, whatever was lost  *)
(* to conflicts between the lanes on the way.                              *)
(***************************************************************************)
StatusSettles == <>[](pair.cookie = NoCookie \/ pair.tested = pair.cookie)

(***************************************************************************)
(* The configuration under all of the lanes is what the store promises:    *)
(* nobody replaces a value that he has not seen.                           *)
(***************************************************************************)
ConfigRefines == Abstract!RegistersSpec
=============================================================================
