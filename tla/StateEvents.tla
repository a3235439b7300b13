---------------------------- MODULE StateEvents ----------------------------
(***************************************************************************)
(* State events: processes append rows to makerhub_state_events and notify *)
(* the web process (services/state_events.py, core/database.py); each open *)
(* page has a stream that sends the rows after the last id it has sent     *)
(* (api/config.py, stream_state_events), and sleeps until it is woken.     *)
(***************************************************************************)
EXTENDS Naturals, FiniteSets

CONSTANTS
    Writer,   \* the connections that publish
    Page,     \* the open pages
    Events,   \* bound on the rows written
    Cuts      \* bound on lost listener connections and lost page connections

ASSUME EventsAssumption ==
    IsFiniteSet(Writer) /\ IsFiniteSet(Page) /\ {Events, Cuts} \subseteq Nat

VARIABLES
    sequence,   \* the identity column: ids given out so far
    open,       \* the id of a writer's row until its transaction commits, 0 without one
    rows,       \* the committed rows
    listening,  \* the listener thread has a connection
    notices,    \* notifications on their way to the listener: TRUE while there is one
    stream,     \* a page's stream: its step, the id it sent last, its event flag
    received,       \* the last id a page has received (lastEventId)
    cuts        \* bound left

eventVars == <<sequence, open, rows, listening, notices, stream, received, cuts>>

Highest(S) == CHOOSE n \in S \cup {0} : \A k \in S : k <= n

Wake(s) == [p \in Page |-> IF s[p].at = "closed" THEN s[p] ELSE [s[p] EXCEPT !.woken = TRUE]]

EventsInit ==
    /\ sequence = 0 /\ open = [w \in Writer |-> 0] /\ rows = {}
    /\ listening = FALSE /\ notices = FALSE
    /\ stream = [p \in Page |-> [at |-> "closed", last |-> 0, woken |-> FALSE]]
    /\ received = [p \in Page |-> 0]
    /\ cuts = Cuts

----------------------------------------------------------------------------
(* Writers                                                                 *)

\* append_state_event: the INSERT takes the next id, the NOTIFY is sent with the commit.
Insert(w) ==
    /\ open[w] = 0 /\ sequence < Events
    /\ sequence' = sequence + 1 /\ open' = [open EXCEPT ![w] = sequence + 1]
    /\ UNCHANGED <<rows, listening, notices, stream, received, cuts>>

\* A commit in another process reaches the pages through the listener only; in
\* the web process publish_state_event also wakes them itself.
CommitRow(w) ==
    /\ open[w] # 0
    /\ rows' = rows \cup {open[w]} /\ open' = [open EXCEPT ![w] = 0]
    /\ notices' = (notices \/ listening)
    /\ stream' \in {stream, Wake(stream)}
    /\ UNCHANGED <<sequence, listening, received, cuts>>

\* The transaction fails: the id is never used; publish_state_event hides the error.
Abort(w) ==
    /\ open[w] # 0 /\ open' = [open EXCEPT ![w] = 0]
    /\ UNCHANGED <<sequence, rows, listening, notices, stream, received, cuts>>

\* _should_persist_state_event: the same counts within 1.5 s only wake the streams.
Coalesced ==
    /\ stream' = Wake(stream)
    /\ UNCHANGED <<sequence, open, rows, listening, notices, received, cuts>>

----------------------------------------------------------------------------
(* The listener thread                                                     *)

Listen ==
    /\ ~listening /\ listening' = TRUE
    /\ UNCHANGED <<sequence, open, rows, notices, stream, received, cuts>>

Notified ==
    /\ listening /\ notices /\ notices' = FALSE
    /\ stream' = Wake(stream)
    /\ UNCHANGED <<sequence, open, rows, listening, received, cuts>>

\* The connection is lost, with the notifications sent until it is back.
Disconnect ==
    /\ listening /\ cuts > 0 /\ cuts' = cuts - 1
    /\ listening' = FALSE /\ notices' = FALSE
    /\ UNCHANGED <<sequence, open, rows, stream, received>>

----------------------------------------------------------------------------
(* The stream of a page                                                    *)

\* current_state_event_id.
Newest == Highest(rows)

\* ensureStateEventSource and the head of event_stream: it goes on after the id
\* the page names, or begins at the present one; then the waiter is registered.
Connect(p) ==
    /\ stream[p].at = "closed"
    /\ stream' = [stream EXCEPT ![p] =
                    [at |-> "fetch", woken |-> FALSE,
                     last |-> IF received[p] > 0 THEN received[p] ELSE Newest]]
    /\ UNCHANGED <<sequence, open, rows, listening, notices, received, cuts>>

\* What was sent arrives in order; the page keeps the id for its next connection.
Receive(p) ==
    /\ \E id \in {k \in rows : received[p] < k /\ k <= stream[p].last} : received' = [received EXCEPT ![p] = id]
    /\ UNCHANGED <<sequence, open, rows, listening, notices, stream, cuts>>

\* fetch_state_events_after, and the rows found are sent.  Without one it waits.
Fetch(p) ==
    /\ stream[p].at = "fetch"
    /\ LET found == {id \in rows : id > stream[p].last}
       IN  IF found = {}
           THEN stream' = [stream EXCEPT ![p].at = "wait"]
           ELSE stream' = [stream EXCEPT ![p].last = Highest(found)]
    /\ UNCHANGED <<sequence, open, rows, listening, notices, received, cuts>>

\* The query fails: fetch_state_events_after returns nothing.
FetchFails(p) ==
    /\ stream[p].at = "fetch" /\ cuts > 0 /\ cuts' = cuts - 1
    /\ stream' = [stream EXCEPT ![p].at = "wait"]
    /\ UNCHANGED <<sequence, open, rows, listening, notices, received>>

WaitUntilWoken(p) ==                                                       \* mutant
    /\ stream[p].at = "wait" /\ stream[p].woken
    /\ stream' = [stream EXCEPT ![p].at = "fetch", ![p].woken = FALSE]
    /\ UNCHANGED <<sequence, open, rows, listening, notices, received, cuts>>

\* StateEventWaiter.wait returns when it is woken or after 15 s, and clears the event.
Wait(p) ==
    /\ stream[p].at = "wait"
    /\ stream' = [stream EXCEPT ![p].at = "fetch", ![p].woken = FALSE]
    /\ UNCHANGED <<sequence, open, rows, listening, notices, received, cuts>>

\* The page's connection breaks, with what has not arrived.
Hangup(p) ==
    /\ stream[p].at # "closed" /\ cuts > 0 /\ cuts' = cuts - 1
    /\ stream' = [stream EXCEPT ![p] = [at |-> "closed", last |-> 0, woken |-> FALSE]]
    /\ UNCHANGED <<sequence, open, rows, listening, notices, received>>

EventsNext ==
    \/ \E w \in Writer : Insert(w) \/ CommitRow(w) \/ Abort(w)
    \/ Coalesced \/ Listen \/ Notified \/ Disconnect
    \/ \E p \in Page : Connect(p) \/ Receive(p) \/ Fetch(p) \/ FetchFails(p) \/ Wait(p) \/ Hangup(p)

EventsSpec == EventsInit /\ [][EventsNext]_eventVars

\* The web process serves its streams, and a page connects again after 5 s.
EventsFair == \A p \in Page : WF_eventVars(Connect(p)) /\ WF_eventVars(Receive(p)) /\ WF_eventVars(Fetch(p) \/ Wait(p))
EventsFairSpec == EventsSpec /\ EventsFair

----------------------------------------------------------------------------
(* Properties                                                              *)

EventsTypeOK ==
    /\ sequence \in 0 .. Events /\ open \in [Writer -> 0 .. Events] /\ rows \subseteq 1 .. Events
    /\ listening \in BOOLEAN /\ notices \in BOOLEAN /\ cuts \in 0 .. Cuts
    /\ \A p \in Page :
          /\ stream[p].at \in {"closed", "fetch", "wait"}
          /\ stream[p].last \in rows \cup {0} /\ received[p] \in rows \cup {0}
          /\ stream[p].at = "closed" => stream[p].last = 0

\* CHANGELOG.md:1086: pages are told of every change instead of polling.  A page
\* that has received an event and is behind catches up with the newest row,
\* however many notifications and connections are lost on the way.
Behind(p) == 0 < received[p] /\ received[p] < Highest(rows)
StreamCatchesUp == \A p \in Page : []<>(~ Behind(p))
=============================================================================
