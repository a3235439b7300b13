----------------------------- MODULE Registers -----------------------------
(***************************************************************************)
(* What the configuration store promises its clients: one register per     *)
(* field.  A client looks at all of them and sets some, together, as one   *)
(* step; it replaces no value but one that it has looked at.  A revision   *)
(* is a function of what is stored at the moment and replaces one field.   *)
(***************************************************************************)
CONSTANTS
    Field, Client,
    Blind       \* the view of a client that has not looked, or has set

VARIABLES
    value,      \* value[f]: the field as stored
    view        \* view[c][f]: what client c saw in field f

registerVars == <<value, view>>

RegistersInit == view = [c \in Client |-> Blind]

Look(c) == view' = [view EXCEPT ![c] = value] /\ UNCHANGED value
Set(c) ==
    /\ view[c] # Blind /\ view' = [view EXCEPT ![c] = Blind]
    /\ \A f \in Field : value'[f] # value[f] => view[c][f] = value[f]
Revise(f) == (\A g \in Field \ {f} : value'[g] = value[g]) /\ UNCHANGED view

RegistersNext == (\E c \in Client : Look(c) \/ Set(c)) \/ \E f \in Field : Revise(f)
RegistersSpec == RegistersInit /\ [][RegistersNext]_registerVars
=============================================================================
