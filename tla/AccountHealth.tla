--------------------------- MODULE AccountHealth ---------------------------
(***************************************************************************)
(* account_health (app/services/account_health.py): what MakerHub holds of *)
(* the account of a platform and of its permission to download 3MF files.  *)
(* It is one JSON document.  Every writer loads it, changes its copy and   *)
(* saves the copy whole, with no lock and no revision, so what another     *)
(* writer saved in between is lost.                                        *)
(*                                                                         *)
(* Of the two platforms of the document there is one, and of its snapshot  *)
(* the 3MF gate: the other fields (status, reason, texts, links, times)    *)
(* decide nothing here, but a change of them saves the gate that was       *)
(* loaded.  The gates verification_required, cookie_invalid and            *)
(* network_error are "closed"; "checking" is unknown with cookie_updated.  *)
(***************************************************************************)
EXTENDS Sequences

CONSTANTS
    Writer,     \* threads and routes, of both containers
    Apart       \* a bound: writers between whose load and save others may come

VARIABLES
    health,     \* the stored gate
    todo,       \* todo[w]: the changes writer w has still to make, in order
    copy,       \* copy[w]: the gate writer w has loaded
    loaded      \* loaded[w]: it is between its load and its save

healthVars == <<health, todo, copy, loaded>>

Gate == {"open", "closed", "limited", "checking"}
Changes == {"status", "clear", "open", "close", "limit", "network", "check"}

HealthInit ==
    /\ health = "open"
    /\ todo = [w \in Writer |-> <<>>]
    /\ copy = [w \in Writer |-> "open"]
    /\ loaded = [w \in Writer |-> FALSE]

\* mark_account_ok is two changes, each with a load and a save of its own.
MarkOk == <<"status", "clear">>

Changed(gate, change) ==
    CASE change = "status" -> gate                                  \* update_account_health
      [] change \in {"clear", "open"} -> "open"                     \* open_three_mf_gate
      [] change = "close" -> "closed"                               \* update_three_mf_gate
      [] change = "limit" -> "limited"
      [] change = "network" -> IF gate = "checking" THEN "open" ELSE gate
      [] change = "check" -> "checking"

Begin(w, changes) == todo' = [todo EXCEPT ![w] = changes]
AllWritten(w) == todo[w] = <<>>

\* mark_account_checking returns when it loads a daily limit.
Skips(w) == Head(todo[w]) = "check" /\ health = "limited"
Written(w) == todo' = [todo EXCEPT ![w] = Tail(@)]

LoadHealth(w) ==
    /\ todo[w] # <<>> /\ ~ loaded[w] /\ w \in Apart
    /\ IF Skips(w)
       THEN Written(w) /\ UNCHANGED <<copy, loaded>>
       ELSE /\ copy' = [copy EXCEPT ![w] = health]
            /\ loaded' = [loaded EXCEPT ![w] = TRUE]
            /\ UNCHANGED todo
    /\ UNCHANGED health

SaveHealth(w) ==
    /\ loaded[w] /\ Written(w)
    /\ health' = Changed(copy[w], Head(todo[w]))
    /\ copy' = [copy EXCEPT ![w] = "open"]
    /\ loaded' = [loaded EXCEPT ![w] = FALSE]

\* The load and the save of a writer that nobody gets between.
LoadAndSave(w) ==
    /\ todo[w] # <<>> /\ w \notin Apart /\ Written(w)
    /\ health' = IF Skips(w) THEN health ELSE Changed(health, Head(todo[w]))
    /\ UNCHANGED <<copy, loaded>>

WriteHealth(w) == LoadHealth(w) \/ SaveHealth(w) \/ LoadAndSave(w)
=============================================================================
