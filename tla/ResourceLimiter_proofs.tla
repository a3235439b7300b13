----------------------- MODULE ResourceLimiter_proofs -----------------------
(* Theorems about ResourceLimiter, for every value of its constants.       *)
EXTENDS ResourceLimiter, TLAPS, SequenceTheorems, FiniteSetTheorems

(***************************************************************************)
(* Types.                                                                  *)
(***************************************************************************)
LEMMA WithoutType ==
  ASSUME NEW S, NEW waiters \in Seq(S), NEW i \in DOMAIN waiters
  PROVE  Without(waiters, i) \in Seq(S)
  <1>1. i \in 1..Len(waiters) /\ Len(waiters) \in Nat
    OBVIOUS
  <1>2. SubSeq(waiters, 1, i - 1) \in Seq(S)
    BY <1>1, SubSeqProperties
  <1>3. SubSeq(waiters, i + 1, Len(waiters)) \in Seq(S)
    BY <1>1, SubSeqProperties
  <1> QED BY <1>2, <1>3, ConcatProperties DEF Without

LEMMA GateType ==
  ASSUME TypeOK, NEW t \in Thread, Ask(t) \/ Enter(t) \/ Nest(t) \/ LeaveNested(t) \/ Leave(t)
  PROVE  TypeOK'
  <1>0. ProcessOf[t] \in Process
    BY ThreadAssumption
  <1>1. CASE Ask(t)
    BY <1>0, <1>1, AppendProperties DEF Ask, Go, TypeOK, Places, slotVars, configVars
  <1>2. CASE Enter(t)
    <2> DEFINE p == ProcessOf[t]
    <2>1. line' \in [Process -> Seq(Thread)]
      BY <1>0, <1>2, WithoutType DEF Enter, TypeOK
    <2>2. active' \in [Process -> Nat] /\ depth' \in [Thread -> 0..Depth]
      BY <1>0, <1>2, LimitAssumption DEF Enter, TypeOK
    <2> QED BY <1>2, <2>1, <2>2 DEF Enter, Go, TypeOK, Places, slotVars, configVars
  <1>3. CASE Nest(t)
    <2>1. depth' \in [Thread -> 0..Depth]
      BY <1>3, LimitAssumption DEF Nest, TypeOK
    <2> QED BY <1>3, <2>1 DEF Nest, TypeOK, slotVars, configVars
  <1>4. CASE LeaveNested(t)
    <2>1. depth' \in [Thread -> 0..Depth]
      BY <1>4, LimitAssumption DEF LeaveNested, TypeOK
    <2> QED BY <1>4, <2>1 DEF LeaveNested, TypeOK, slotVars, configVars
  <1>5. CASE Leave(t)
    <2>1. active' \in [Process -> Nat] /\ depth' \in [Thread -> 0..Depth]
      BY <1>0, <1>5, LimitAssumption DEF Leave, TypeOK
    <2> QED BY <1>5, <2>1 DEF Leave, Go, TypeOK, Places, slotVars, configVars
  <1> QED BY <1>1, <1>2, <1>3, <1>4, <1>5

LEMMA SlotType ==
  ASSUME TypeOK, NEW t \in Thread, LockControl(t) \/ Scan(t) \/ Take(t) \/ FreeSlot(t)
  PROVE  TypeOK'
  <1>1. CASE LockControl(t)
    BY <1>1 DEF LockControl, Go, TypeOK, Places, gateVars, configVars
  <1>2. CASE Scan(t)
    BY <1>2 DEF Scan, Go, TypeOK, Places, gateVars, configVars
  <1>3. CASE Take(t)
    BY <1>3 DEF Take, Go, TypeOK, Places, gateVars, configVars
  <1>4. CASE FreeSlot(t)
    BY <1>4 DEF FreeSlot, Go, TypeOK, Places, gateVars, configVars
  <1> QED BY <1>1, <1>2, <1>3, <1>4

LEMMA ConfigType ==
  ASSUME TypeOK, NEW p \in Process, NEW new \in Limits,
         Save(p, new) \/ Load(p) \/ Spawned(p, new) \/ Publish(p) \/ Die(p)
  PROVE  TypeOK'
  <1>1. CASE Save(p, new)
    BY <1>1 DEF Save, TypeOK, slotVars
  <1>2. CASE Load(p)
    BY <1>2 DEF Load, Save, TypeOK, slotVars
  <1>3. CASE Spawned(p, new)
    BY <1>3 DEF Spawned, TypeOK, slotVars, configVars
  <1>4. CASE Publish(p)
    BY <1>4 DEF Publish, TypeOK, gateVars
  <1>5. CASE Die(p)
    <2>1. at' \in [Thread -> Places] /\ depth' \in [Thread -> 0..Depth]
      BY <1>5, LimitAssumption DEF Die, TypeOK, Places
    <2>2. /\ line' \in [Process -> Seq(Thread)] /\ active' \in [Process -> Nat]
          /\ capacity' \in [Process -> Limits]
      <3>1. <<>> \in Seq(Thread) /\ Default \in Limits /\ 0 \in Nat
        BY LimitAssumption DEF Limits
      <3> QED BY <1>5, <3>1 DEF Die, TypeOK
    <2>3. /\ slot' \in [Slots -> Thread \cup {Nobody}] /\ control' \in Thread \cup {Nobody}
          /\ store' \in Process \cup {Nobody}
      BY <1>5 DEF Die, TypeOK
    <2> QED BY <1>5, <2>1, <2>2, <2>3 DEF Die, TypeOK
  <1> QED BY <1>1, <1>2, <1>3, <1>4, <1>5

(***************************************************************************)
(* The invariant behind the theorems.  Whoever is between reading the      *)
(* capacity and taking a slot holds capacity.lock, so what it read is what *)
(* is published; once it has scanned, no retired slot is in use.  A thread *)
(* holds one slot while it uses the resource and none else.  Whoever holds *)
(* the lock of the configuration store has the saved limit in its gate.    *)
(***************************************************************************)
LockHeld == \A t \in Thread : at[t] \in {"reading", "taking"} => control = t /\ seen[t] = shared
Scanned == \A t \in Thread : at[t] = "taking" => \A n \in Slots : slot[n] # Nobody => n < shared
OneSlot == \A t \in Thread :
             /\ at[t] = "in" => \E n \in Slots : \A m \in Slots : slot[m] = t <=> m = n
             /\ at[t] # "in" => \A m \in Slots : slot[m] # t
Saved == store \in Process => capacity[store] = limit
LimiterInv == TypeOK /\ LockHeld /\ Scanned /\ OneSlot /\ Saved

LEMMA InitInv == Init => LimiterInv
  <1> SUFFICES ASSUME Init PROVE LimiterInv
    OBVIOUS
  <1>0. 0 \in 0..Depth /\ Default \in Limits /\ 1 \in Limits /\ <<>> \in Seq(Thread)
    BY LimitAssumption DEF Limits
  <1>1. TypeOK
    BY <1>0 DEF Init, TypeOK, Places
  <1>2. LockHeld /\ Scanned /\ Saved
    BY ThreadAssumption DEF Init, LockHeld, Scanned, Saved
  <1>3. OneSlot
    BY ThreadAssumption DEF Init, OneSlot
  <1> QED BY <1>1, <1>2, <1>3 DEF LimiterInv

LEMMA GateInv ==
  ASSUME LimiterInv, NEW t \in Thread,
         Ask(t) \/ Enter(t) \/ Nest(t) \/ LeaveNested(t) \/ Leave(t)
  PROVE  LimiterInv'
  <1> USE DEF LimiterInv
  <1>1. TypeOK'
    BY GateType
  <1>2. /\ UNCHANGED <<slot, control, shared, seen, limit, store, capacity>>
        /\ \A u \in Thread : \/ at'[u] = at[u]
                             \/ /\ at[u] \in {"out", "waiting", "leaving"}
                                /\ at'[u] \in {"waiting", "polling", "out"}
    BY DEF Ask, Enter, Nest, LeaveNested, Leave, Go, TypeOK, slotVars, configVars
  <1>3. LockHeld' /\ Scanned' /\ OneSlot' /\ Saved'
    BY <1>2 DEF LockHeld, Scanned, OneSlot, Saved
  <1> QED BY <1>1, <1>3

LEMMA SlotInv ==
  ASSUME LimiterInv, NEW t \in Thread, LockControl(t) \/ Scan(t) \/ Take(t) \/ FreeSlot(t)
  PROVE  LimiterInv'
  <1> USE ThreadAssumption DEF LimiterInv
  <1>1. TypeOK'
    BY SlotType
  <1>2. Saved'
    BY DEF LockControl, Scan, Take, FreeSlot, gateVars, configVars, Saved
  <1>3. CASE LockControl(t)
    <2>1. LockHeld'
      BY <1>3 DEF LockControl, Go, LockHeld, TypeOK
    <2>2. Scanned' /\ OneSlot'
      BY <1>3 DEF LockControl, Go, Scanned, OneSlot, TypeOK
    <2> QED BY <1>1, <1>2, <2>1, <2>2
  <1>4. CASE Scan(t)
    <2>0. /\ at[t] = "reading" /\ UNCHANGED <<slot, shared, seen>>
          /\ \A u \in Thread \ {t} : at'[u] = at[u]
          /\ \/ at'[t] = "polling" /\ control' = Nobody
             \/ at'[t] = "taking" /\ control' = control
      BY <1>4 DEF Scan, Go, TypeOK
    <2>1. LockHeld' /\ OneSlot'
      <3>1. \A u \in Thread \ {t} : at[u] \notin {"reading", "taking"}
        BY <2>0 DEF LockHeld
      <3>2. LockHeld'
        BY <2>0, <3>1 DEF LockHeld
      <3>3. OneSlot'
        BY <2>0 DEF OneSlot
      <3> QED BY <3>2, <3>3
    <2>2. Scanned'
      <3>1. CASE Draining(t)
        BY <1>4, <3>1 DEF Scan, Go, Scanned, TypeOK
      <3>2. CASE ~ Draining(t)
        <4>1. \A n \in Slots : slot[n] # Nobody => n < seen[t]
          BY <3>2 DEF Draining, Held, TypeOK, Slots, Limits
        <4> QED BY <1>4, <3>2, <4>1 DEF Scan, Go, Scanned, LockHeld, TypeOK
      <3> QED BY <3>1, <3>2
    <2> QED BY <1>1, <1>2, <2>1, <2>2
  <1>5. CASE Take(t)
    <2>1. \A u \in Thread \ {t} : at'[u] = at[u] /\ at[u] \notin {"reading", "taking"}
      BY <1>5 DEF Take, Go, LockHeld, TypeOK
    <2>2. at'[t] \in {"polling", "in"}
      BY <1>5 DEF Take, Go, TypeOK
    <2>3. LockHeld' /\ Scanned'
      BY <2>1, <2>2 DEF LockHeld, Scanned
    <2>4. \A u \in Thread \ {t}, m \in Slots : slot'[m] = u <=> slot[m] = u
      BY <1>5 DEF Take, TypeOK
    <2>5. \A m \in Slots : slot[m] # t
      BY <1>5 DEF Take, OneSlot
    <2>6. /\ at'[t] = "in" => \E n \in Slots : \A m \in Slots : slot'[m] = t <=> m = n
          /\ at'[t] # "in" => \A m \in Slots : slot'[m] # t
      <3> DEFINE free == {n \in Slots : n < seen[t] /\ slot[n] = Nobody}
      <3>1. CASE free = {}
        BY <1>5, <2>5, <3>1 DEF Take, Go, TypeOK
      <3>2. CASE free # {}
        <4>1. PICK n \in free : slot' = [slot EXCEPT ![n] = t] /\ Go(t, "in")
          BY <1>5, <3>2 DEF Take
        <4>2. at'[t] = "in"
          BY <4>1 DEF Go, TypeOK
        <4>3. \A m \in Slots : slot'[m] = t <=> m = n
          BY <2>5, <4>1 DEF TypeOK
        <4> QED BY <4>2, <4>3
      <3> QED BY <3>1, <3>2
    <2>7. OneSlot'
      BY <2>1, <2>4, <2>6 DEF OneSlot
    <2> QED BY <1>1, <1>2, <2>3, <2>7
  <1>6. CASE FreeSlot(t)
    <2>1. LockHeld' /\ Scanned'
      BY <1>6 DEF FreeSlot, Go, LockHeld, Scanned, TypeOK
    <2>2. OneSlot'
      <3>1. /\ \A u \in Thread \ {t} : at'[u] = at[u]
            /\ at'[t] = "leaving"
            /\ \A m \in Slots : slot'[m] = IF slot[m] = t THEN Nobody ELSE slot[m]
        BY <1>6 DEF FreeSlot, Go, TypeOK
      <3>2. \A u \in Thread \ {t}, m \in Slots : slot'[m] = u <=> slot[m] = u
        BY <3>1
      <3>3. \A m \in Slots : slot'[m] # t
        BY <3>1
      <3> QED BY <3>1, <3>2, <3>3 DEF OneSlot
    <2> QED BY <1>1, <1>2, <2>1, <2>2
  <1> QED BY <1>3, <1>4, <1>5, <1>6

LEMMA ConfigInv ==
  ASSUME LimiterInv, NEW p \in Process, NEW new \in Limits,
         Save(p, new) \/ Load(p) \/ Spawned(p, new) \/ Publish(p) \/ Die(p)
  PROVE  LimiterInv'
  <1> USE ThreadAssumption DEF LimiterInv
  <1>1. TypeOK'
    BY ConfigType
  <1>2. CASE Save(p, new) \/ Load(p)
    <2>1. PICK l \in Limits : Save(p, l)
      BY <1>2 DEF Load, TypeOK
    <2>2. LockHeld' /\ Scanned' /\ OneSlot'
      BY <2>1 DEF Save, slotVars, LockHeld, Scanned, OneSlot
    <2>3. Saved'
      BY <2>1 DEF Save, Saved, TypeOK
    <2> QED BY <1>1, <2>2, <2>3
  <1>3. CASE Spawned(p, new)
    <2>1. LockHeld' /\ Scanned' /\ OneSlot'
      BY <1>3 DEF Spawned, slotVars, LockHeld, Scanned, OneSlot
    <2>2. Saved'
      BY <1>3 DEF Spawned, configVars, Saved, TypeOK
    <2> QED BY <1>1, <2>1, <2>2
  <1>4. CASE Publish(p)
    <2>1. \A t \in Thread : at[t] \notin {"reading", "taking"}
      BY <1>4 DEF Publish, LockHeld
    <2>2. LockHeld' /\ Scanned' /\ OneSlot' /\ Saved'
      BY <1>4, <2>1 DEF Publish, LockHeld, Scanned, OneSlot, Saved
    <2> QED BY <1>1, <2>2
  <1>5. CASE Die(p)
    <2> DEFINE dead == {t \in Thread : ProcessOf[t] = p}
    <2>1. /\ \A t \in Thread : at'[t] = IF t \in dead THEN "out" ELSE at[t]
          /\ \A n \in Slots : slot'[n] = IF slot[n] \in dead THEN Nobody ELSE slot[n]
          /\ control' = IF control \in dead THEN Nobody ELSE control
          /\ UNCHANGED <<shared, seen, limit>>
      BY <1>5 DEF Die
    <2>2. Saved'
      BY <1>5 DEF Die, Saved, TypeOK
    <2> HIDE DEF dead
    <2>3. LockHeld' /\ Scanned'
      BY <2>1 DEF LockHeld, Scanned
    <2>4. OneSlot'
      BY <2>1 DEF OneSlot
    <2> QED BY <1>1, <2>2, <2>3, <2>4
  <1> QED BY <1>2, <1>3, <1>4, <1>5

LEMMA StepInv == LimiterInv /\ [Next]_vars => LimiterInv'
  <1> SUFFICES ASSUME LimiterInv, [Next]_vars PROVE LimiterInv'
    OBVIOUS
  <1>1. ASSUME NEW t \in Thread, Ask(t) \/ Use(t) \/ Advance(t) \/ Finish(t)
        PROVE  LimiterInv'
    BY <1>1, GateInv, SlotInv DEF Use, Advance, Finish
  <1>2. ASSUME NEW p \in Process, NEW new \in Limits, Save(p, new) \/ Spawned(p, new)
        PROVE  LimiterInv'
    BY <1>2, ConfigInv
  <1>3. ASSUME NEW p \in Process, Load(p) \/ Publish(p) \/ Die(p)
        PROVE  LimiterInv'
    <2>1. Default \in Limits
      BY LimitAssumption DEF Limits
    <2> QED BY <1>3, <2>1, ConfigInv
  <1>4. CASE UNCHANGED vars
    BY <1>4 DEF vars, gateVars, slotVars, configVars, LimiterInv, TypeOK, LockHeld, Scanned,
                OneSlot, Saved
  <1> QED BY <1>1, <1>2, <1>3, <1>4 DEF Next

(***************************************************************************)
(* Theorems.                                                               *)
(***************************************************************************)

\* Every variable keeps its type.
THEOREM LimiterTypeCorrect == Spec => []TypeOK
  <1>1. LimiterInv => TypeOK
    BY DEF LimiterInv
  <1> QED BY InitInv, StepInv, <1>1, PTL DEF Spec

LEMMA InvSlots == LimiterInv => SlotsOwned
  <1> SUFFICES ASSUME LimiterInv, NEW t \in Thread
               PROVE  Cardinality({n \in Slots : slot[n] = t}) = IF at[t] = "in" THEN 1 ELSE 0
    BY DEF SlotsOwned
  <1>1. CASE at[t] = "in"
    <2>1. PICK n \in Slots : \A m \in Slots : slot[m] = t <=> m = n
      BY <1>1 DEF LimiterInv, OneSlot
    <2>2. {m \in Slots : slot[m] = t} = {n}
      BY <2>1
    <2> QED BY <1>1, <2>2, FS_Singleton
  <1>2. CASE at[t] # "in"
    <2>1. {m \in Slots : slot[m] = t} = {}
      BY <1>2 DEF LimiterInv, OneSlot
    <2> QED BY <1>2, <2>1, FS_EmptySet
  <1> QED BY <1>1, <1>2

\* No slot is lost or held twice, whatever threads, processes and limits do.
THEOREM SlotsAreOwned == Spec => []SlotsOwned
  BY InitInv, StepInv, InvSlots, PTL DEF Spec

LEMMA GrantedByTake ==
  ASSUME LimiterInv, Next, Granted
  PROVE  \E t \in Thread : Take(t)
  <1>1. ASSUME NEW t \in Thread, Ask(t) \/ Use(t) \/ Enter(t) \/ Leave(t) \/ LockControl(t)
                                  \/ Scan(t)
        PROVE  FALSE
    BY <1>1 DEF Ask, Use, Nest, LeaveNested, Enter, Leave, LockControl, Scan, slotVars, Granted
  <1>2. ASSUME NEW t \in Thread, FreeSlot(t) PROVE FALSE
    BY <1>2 DEF FreeSlot, Granted
  <1>3. ASSUME NEW p \in Process, NEW new \in Limits,
               Save(p, new) \/ Spawned(p, new) \/ Load(p) \/ Publish(p)
        PROVE  FALSE
    BY <1>3 DEF Save, Spawned, Load, Publish, slotVars, Granted
  <1>4. ASSUME NEW p \in Process, Die(p) PROVE FALSE
    BY <1>4 DEF Die, Granted
  <1>5. ASSUME NEW p \in Process, Load(p) \/ Publish(p) PROVE FALSE
    BY <1>5 DEF Save, Load, Publish, slotVars, Granted
  <1> QED BY <1>1, <1>2, <1>3, <1>4, <1>5 DEF Next, Advance, Finish

LEMMA TakeWithin ==
  ASSUME LimiterInv, NEW t \in Thread, Take(t)
  PROVE  WithinCapacity
  <1>1. seen[t] = shared /\ shared' = shared /\ \A n \in Slots : slot[n] # Nobody => n < shared
    BY DEF Take, LimiterInv, LockHeld, Scanned
  <1>2. \A n \in Slots : slot'[n] = slot[n] \/ n < seen[t]
    BY DEF Take, LimiterInv, TypeOK
  <1> QED BY <1>1, <1>2 DEF WithinCapacity

\* When a slot is given out, every slot in use is below the published capacity:
\* a smaller limit takes effect before anything new is started.
THEOREM NothingBeyondCapacity == Spec => GrantsWithinCapacity
  <1>1. LimiterInv /\ [Next]_vars => [Granted => WithinCapacity]_vars
    BY GrantedByTake, TakeWithin
  <1> QED BY InitInv, StepInv, <1>1, PTL DEF Spec, GrantsWithinCapacity

LEMMA PublishOnly ==
  ASSUME LimiterInv, Next, shared' # shared
  PROVE  shared' = limit'
  <1>1. ASSUME NEW t \in Thread, Ask(t) \/ Use(t) \/ Advance(t) \/ Finish(t) PROVE FALSE
    BY <1>1 DEF Ask, Use, Nest, LeaveNested, Advance, Enter, LockControl, Scan, Take, Finish,
                FreeSlot, Leave, slotVars
  <1>2. ASSUME NEW p \in Process, NEW new \in Limits, Save(p, new) \/ Spawned(p, new)
        PROVE  FALSE
    BY <1>2 DEF Save, Spawned, slotVars
  <1>3. ASSUME NEW p \in Process, Load(p) \/ Die(p) PROVE FALSE
    BY <1>3 DEF Load, Save, Die, slotVars
  <1>4. ASSUME NEW p \in Process, Publish(p) PROVE shared' = limit'
    BY <1>4 DEF Publish, LimiterInv, Saved
  <1> QED BY <1>1, <1>2, <1>3, <1>4 DEF Next

\* The control file only ever changes to the limit that is configured.
THEOREM ConfiguredIsPublished == Spec => PublishedIsConfigured
  <1>1. LimiterInv /\ [Next]_vars => [shared' # shared => shared' = limit']_vars
    BY PublishOnly
  <1> QED BY InitInv, StepInv, <1>1, PTL DEF Spec, PublishedIsConfigured

=============================================================================
