---------------------------- MODULE ConfigStore ----------------------------
(***************************************************************************)
(* The configuration (app/core/store.py): one JSON document in the         *)
(* database, which routes, threads and both containers load, change and    *)
(* save.  load() gives a client an object and remembers what it held;      *)
(* save() merges what the client changed into the document of the moment,  *)
(* in one transaction with the row locked, or raises ConfigConflictError;  *)
(* update() applies a function inside such a transaction.                  *)
(*                                                                         *)
(* A field stands for a path of the document at which the merge compares   *)
(* whole values (a list is compared as a whole).  Publishing the limits    *)
(* after each of the three is in ResourceLimiter.                          *)
(***************************************************************************)
EXTENDS Naturals

CONSTANTS
    Field,      \* paths of the document
    Value,      \* what a field may hold
    Missing,    \* the value of a field that the document does not have
    Client      \* routes and threads, of both containers

VARIABLES
    config,     \* the stored document
    base,       \* base[c]: what load() gave client c, _loaded_configs; Nothing when it has none
    holds       \* holds[c]: client c has loaded and not yet saved

configVars == <<config, base, holds>>
Nothing == [f \in Field |-> Missing]

(***************************************************************************)
(* _merge_config_changes for one field: what the client left alone keeps   *)
(* its stored value, what he changed is taken if nobody else changed it,   *)
(* or changed it to the same.                                              *)
(***************************************************************************)
LastWins(old, stored, wanted) == wanted                             \* mutant
Merge(old, stored, wanted) == IF wanted = old THEN stored ELSE wanted

Conflict(old, stored, wanted) ==
    \/ wanted # old /\ stored # old /\ stored # wanted
    \/ wanted = old /\ stored = Missing /\ old # Missing

ConfigInit(first) ==
    /\ config = first
    /\ base = [c \in Client |-> Nothing]
    /\ holds = [c \in Client |-> FALSE]

Load(c) ==
    /\ base' = [base EXCEPT ![c] = config]
    /\ holds' = [holds EXCEPT ![c] = TRUE]
    /\ UNCHANGED config

\* save() of the loaded object with the fields in wanted changed; the object is
\* not used again.
Mergeable(c, wanted) ==
    \/ wanted = base[c]
    \/ \A f \in Field : ~ Conflict(base[c][f], config[f], wanted[f])
Drop(c) == holds' = [holds EXCEPT ![c] = FALSE] /\ base' = [base EXCEPT ![c] = Nothing]
Save(c, wanted) ==
    /\ holds[c] /\ Mergeable(c, wanted)
    /\ config' = [f \in Field |-> Merge(base[c][f], config[f], wanted[f])]
    /\ Drop(c)

SaveRaises(c, wanted) ==
    /\ holds[c] /\ ~ Mergeable(c, wanted)
    /\ Drop(c)
    /\ UNCHANGED config

\* A client may let go of what it loaded: a route that returns early.
Forget(c) == holds[c] /\ Drop(c) /\ UNCHANGED config

\* update(): the function sees the stored document.
Update(f, v) == config' = [config EXCEPT ![f] = v] /\ UNCHANGED <<base, holds>>

(***************************************************************************)
(* The registers that the store implements: a client sees what it loaded   *)
(* until it saves, raises or lets go.                                      *)
(***************************************************************************)
Abstract == INSTANCE Registers WITH Blind <- Nothing, value <- config, view <- base
=============================================================================
