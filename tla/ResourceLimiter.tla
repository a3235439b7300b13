-------------------------- MODULE ResourceLimiter --------------------------
(***************************************************************************)
(* One resource of app/services/resource_limiter.py.  A thread that uses   *)
(* it first passes the gate of its own process (a condition variable with  *)
(* a priority line) and then takes a slot that all processes share: a file *)
(* locked by flock.  How many slots there are stands in a control file,    *)
(* which the configuration store (app/core/store.py) writes anew whenever  *)
(* a process loads or saves the configuration; it may grow or shrink while *)
(* slots are held.  A process may die at any moment; the system then drops *)
(* its file locks.                                                         *)
(*                                                                         *)
(* A slot that is not below the published capacity is "retired": whoever   *)
(* holds it goes on, and no slot is given out until it is free.            *)
(***************************************************************************)
EXTENDS Naturals, Sequences, FiniteSets

CONSTANTS
    Process,        \* app, worker and job processes
    Thread,
    ProcessOf,      \* ProcessOf[t]: the process of thread t
    Priority,       \* Priority[t]: the priority t asks with
    Nobody,
    Largest,        \* the largest limit the configuration allows
    Default,        \* the limit a process starts with (environment)
    Depth           \* a bound: how deep a thread nests its uses

ASSUME ThreadAssumption == /\ ProcessOf \in [Thread -> Process]
                           /\ Nobody \notin Thread /\ Nobody \notin Process
ASSUME LimitAssumption == /\ Largest \in Nat \ {0} /\ Default \in 1..Largest
                          /\ Depth \in Nat \ {0}

VARIABLES
    at,         \* at[t]: where thread t is
    depth,      \* _owners: how often t is in the gate
    line,       \* line[p]: _waiters of p's gate, by ticket
    active,     \* active[p]: threads p's gate counts
    capacity,   \* capacity[p]: capacity of p's gate
    slot,       \* slot[n]: who holds n.lock
    control,    \* who holds capacity.lock
    shared,     \* capacity.control
    seen,       \* seen[t]: what t read there
    limit,      \* the limit in the saved configuration
    store       \* the process that holds the lock of the configuration store

gateVars == <<depth, line, active, capacity>>
slotVars == <<slot, control, shared, seen>>
configVars == <<limit, store>>
vars == <<at, gateVars, slotVars, configVars>>

Slots == 0..(Largest - 1)
Limits == 1..Largest
Places == {"out", "waiting", "polling", "reading", "taking", "in", "leaving"}

Go(t, place) == at' = [at EXCEPT ![t] = place]
Held == {n \in Slots : slot[n] # Nobody}

Init ==
    /\ at = [t \in Thread |-> "out"] /\ depth = [t \in Thread |-> 0]
    /\ line = [p \in Process |-> <<>>] /\ active = [p \in Process |-> 0]
    /\ capacity = [p \in Process |-> Default]
    /\ slot = [n \in Slots |-> Nobody] /\ control = Nobody
    /\ shared = 1 /\ seen = [t \in Thread |-> 1]
    /\ limit = Default /\ store = Nobody

-----------------------------------------------------------------------------
(***************************************************************************)
(* The gate of one process: _ResourceGate.acquire and release.             *)
(***************************************************************************)
Ask(t) ==
    LET p == ProcessOf[t]
    IN /\ at[t] = "out"
       /\ line' = [line EXCEPT ![p] = Append(@, t)]
       /\ Go(t, "waiting")
       /\ UNCHANGED <<depth, active, capacity, slotVars, configVars>>

\* The waiter with the highest priority, and of those the one with the first ticket.
Foremost(waiters, i) ==
    \A j \in DOMAIN waiters : j # i =>
       \/ Priority[waiters[j]] < Priority[waiters[i]]
       \/ Priority[waiters[j]] = Priority[waiters[i]] /\ i < j

Without(waiters, i) == SubSeq(waiters, 1, i - 1) \o SubSeq(waiters, i + 1, Len(waiters))

Enter(t) ==
    LET p == ProcessOf[t]
    IN /\ at[t] = "waiting"
       /\ active[p] < capacity[p]
       /\ \E i \in DOMAIN line[p] :
            /\ line[p][i] = t /\ Foremost(line[p], i)
            /\ line' = [line EXCEPT ![p] = Without(@, i)]
       /\ active' = [active EXCEPT ![p] = @ + 1]
       /\ depth' = [depth EXCEPT ![t] = 1]
       /\ Go(t, "polling")
       /\ UNCHANGED <<capacity, slotVars, configVars>>

\* A thread inside the gate enters again; it neither waits nor takes a slot.
Nest(t) ==
    /\ at[t] = "in" /\ depth[t] < Depth
    /\ depth' = [depth EXCEPT ![t] = @ + 1]
    /\ UNCHANGED <<at, line, active, capacity, slotVars, configVars>>

LeaveNested(t) ==
    /\ at[t] = "in" /\ depth[t] > 1
    /\ depth' = [depth EXCEPT ![t] = @ - 1]
    /\ UNCHANGED <<at, line, active, capacity, slotVars, configVars>>

FreeNothing(t) ==                                                   \* mutant
    /\ at[t] = "in" /\ depth[t] = 1 /\ Go(t, "leaving")
    /\ UNCHANGED <<gateVars, slotVars, configVars>>

\* The slot is given back first, the gate is left after that.
FreeSlot(t) ==
    /\ at[t] = "in" /\ depth[t] = 1
    /\ slot' = [n \in Slots |-> IF slot[n] = t THEN Nobody ELSE slot[n]]
    /\ Go(t, "leaving")
    /\ UNCHANGED <<gateVars, control, shared, seen, configVars>>

Leave(t) ==
    /\ at[t] = "leaving"
    /\ depth' = [depth EXCEPT ![t] = 0]
    /\ active' = [active EXCEPT ![ProcessOf[t]] = IF @ > 0 THEN @ - 1 ELSE 0]
    /\ Go(t, "out")
    /\ UNCHANGED <<line, capacity, slotVars, configVars>>

-----------------------------------------------------------------------------
(***************************************************************************)
(* The shared slots: _try_acquire_global_slot, tried again and again.      *)
(***************************************************************************)
LockControl(t) ==
    /\ at[t] = "polling" /\ control = Nobody
    /\ control' = t
    /\ seen' = [seen EXCEPT ![t] = shared]
    /\ Go(t, "reading")
    /\ UNCHANGED <<gateVars, slot, shared, configVars>>

\* _retired_global_slots_are_draining.  The slots are looked at one by one, but
\* none is taken meanwhile: what was found free still is at the end.
Draining(t) == \E n \in Held : n >= seen[t]

ScanNothing(t) ==                                                   \* mutant
    /\ at[t] = "reading"
    /\ control' = control /\ Go(t, "taking")
    /\ UNCHANGED <<gateVars, slot, shared, seen, configVars>>

ScanKeepsLock(t) ==                                                 \* mutant
    /\ at[t] = "reading"
    /\ control' = control /\ Go(t, IF Draining(t) THEN "polling" ELSE "taking")
    /\ UNCHANGED <<gateVars, slot, shared, seen, configVars>>

Scan(t) ==
    /\ at[t] = "reading"
    /\ IF Draining(t) THEN control' = Nobody /\ Go(t, "polling")
                      ELSE control' = control /\ Go(t, "taking")
    /\ UNCHANGED <<gateVars, slot, shared, seen, configVars>>

Take(t) ==
    /\ at[t] = "taking"
    /\ LET free == {n \in Slots : n < seen[t] /\ slot[n] = Nobody}
       IN IF free = {} THEN Go(t, "polling") /\ UNCHANGED slot
          ELSE \E n \in free : /\ \A m \in free : n <= m
                               /\ slot' = [slot EXCEPT ![n] = t]
                               /\ Go(t, "in")
    /\ control' = Nobody
    /\ UNCHANGED <<gateVars, shared, seen, configVars>>

-----------------------------------------------------------------------------
(***************************************************************************)
(* JsonStore.save and load: under the store's file lock the limit is saved *)
(* or read, the gate gets it (configure_resource_limits), and it is        *)
(* published under capacity.lock.                                          *)
(***************************************************************************)
Save(p, new) ==
    /\ store = Nobody
    /\ store' = p /\ limit' = new
    /\ capacity' = [capacity EXCEPT ![p] = new]
    /\ UNCHANGED <<at, depth, line, active, slotVars>>

Load(p) == Save(p, limit)

PublishLastSlot(p) ==                                               \* mutant
    /\ store = p /\ control = Nobody
    /\ shared' = capacity[p] - 1
    /\ store' = Nobody
    /\ UNCHANGED <<at, gateVars, slot, control, seen, limit>>

Publish(p) ==
    /\ store = p /\ control = Nobody
    /\ shared' = capacity[p]
    /\ store' = Nobody
    /\ UNCHANGED <<at, gateVars, slot, control, seen, limit>>

SpawnedPublishes(p, new) ==                                         \* mutant
    /\ store # p /\ control = Nobody
    /\ capacity' = [capacity EXCEPT ![p] = new]
    /\ shared' = new
    /\ UNCHANGED <<at, depth, line, active, slot, control, seen, configVars>>

\* A job process gets its limits from its parent and publishes nothing.
Spawned(p, new) ==
    /\ store # p
    /\ capacity' = [capacity EXCEPT ![p] = new]
    /\ UNCHANGED <<at, depth, line, active, slotVars, configVars>>

\* The process dies and starts again: its locks are gone, and its gate is new.
Die(p) ==
    LET dead == {t \in Thread : ProcessOf[t] = p}
    IN /\ at' = [t \in Thread |-> IF t \in dead THEN "out" ELSE at[t]]
       /\ depth' = [t \in Thread |-> IF t \in dead THEN 0 ELSE depth[t]]
       /\ line' = [line EXCEPT ![p] = <<>>]
       /\ active' = [active EXCEPT ![p] = 0]
       /\ capacity' = [capacity EXCEPT ![p] = Default]
       /\ slot' = [n \in Slots |-> IF slot[n] \in dead THEN Nobody ELSE slot[n]]
       /\ control' = IF control \in dead THEN Nobody ELSE control
       /\ store' = IF store = p THEN Nobody ELSE store
       /\ UNCHANGED <<shared, seen, limit>>

Use(t) == Nest(t) \/ LeaveNested(t)
Advance(t) == Enter(t) \/ LockControl(t) \/ Scan(t) \/ Take(t)
Finish(t) == FreeSlot(t) \/ Leave(t)

Next ==
    \/ \E t \in Thread : Ask(t) \/ Use(t) \/ Advance(t) \/ Finish(t)
    \/ \E p \in Process, new \in Limits : Save(p, new) \/ Spawned(p, new)
    \/ \E p \in Process : Load(p) \/ Publish(p) \/ Die(p)

Spec == Init /\ [][Next]_vars

-----------------------------------------------------------------------------
(***************************************************************************)
(* Properties.                                                             *)
(***************************************************************************)

\* Every variable has its type.
TypeOK == /\ at \in [Thread -> Places] /\ depth \in [Thread -> 0..Depth]
          /\ line \in [Process -> Seq(Thread)]
          /\ active \in [Process -> Nat] /\ capacity \in [Process -> Limits]
          /\ slot \in [Slots -> Thread \cup {Nobody}] /\ control \in Thread \cup {Nobody}
          /\ shared \in Limits /\ seen \in [Thread -> Limits]
          /\ limit \in Limits /\ store \in Process \cup {Nobody}

\* A thread that uses the resource holds one slot, any other thread none: no slot
\* is lost when threads, processes and limits come and go.
SlotsOwned ==
    \A t \in Thread :
       Cardinality({n \in Slots : slot[n] = t}) = IF at[t] = "in" THEN 1 ELSE 0

\* "The reading of the capacity, the scan of retired slots and the taking of a new
\* one are under one lock": when a slot is given out, every slot in use is below
\* the capacity published at that moment, so all processes together use no more.
Granted == \E n \in Slots : slot[n] = Nobody /\ slot'[n] # Nobody
WithinCapacity == \A n \in Slots : slot'[n] # Nobody => n < shared'
GrantsWithinCapacity == [][Granted => WithinCapacity]_vars

\* The control file is only ever changed to the limit that is configured: neither
\* a process with old limits nor a slow writer puts an outdated one back.
PublishedIsConfigured == [][shared' # shared => shared' = limit']_vars

(***************************************************************************)
(* Fairness: a thread goes on polling, leaves when its use is over, and a  *)
(* process publishes what it has loaded.  Nothing is assumed of requests,  *)
(* of changes of the configuration or of deaths.                           *)
(***************************************************************************)
FairSpec ==
    /\ Spec
    /\ \A t \in Thread : WF_vars(Advance(t)) /\ WF_vars(Finish(t))
    /\ \A p \in Process : WF_vars(Publish(p))

\* Once the configuration and the processes are left alone, a thread that waits
\* or polls brings some thread to its use: gates, slots, retired slots and the
\* two locks never wait for one another.
ThreadStep == \E t \in Thread : Ask(t) \/ Use(t) \/ Advance(t) \/ Finish(t)
Quiet == <>[][ThreadStep \/ \E p \in Process : Publish(p)]_vars
Wanted == \E t \in Thread : at[t] \in {"waiting", "polling", "reading", "taking"}
InUse == \E t \in Thread : at[t] = "in"
NoStall == Quiet => []<>(Wanted => InUse)

=============================================================================
