---------------------------- MODULE RegistryProofs ----------------------------
(***************************************************************************)
(* Proofs about Registry, for every value of its constants.                *)
(***************************************************************************)
EXTENDS Registry, SequenceTheorems, NaturalFacts, TLAPS

(***************************************************************************)
(* What can happen to a registry: a step of Next, or an instance recorded  *)
(* under any day or nonce.  MaxIndex bounds the indices of the runs, and   *)
(* nothing proved here depends on it.                                      *)
(***************************************************************************)
RegistryStep ==
    Next \/ \E p \in Programs, c \in Creators, i \in Nat : RecordInstance(p, c, i)

LEMMA StatusOfRegistered ==
    ASSUME TypeOK, NEW p \in Programs, release[p].status # "none"
    PROVE  release[p] \in ReleaseType /\ p \in Registered
BY DEF TypeOK, NoRelease, Registered

(***************************************************************************)
(* A lifecycle instruction of release p that moves it to `changed`.        *)
(***************************************************************************)
LEMMA LifecycleType ==
    ASSUME TypeOK, NEW p \in Programs, NEW actor \in Actors, NEW changed \in ReleaseType,
           release[p].status # "none", changed.sequence = release[p].sequence,
           Lifecycle(p, actor, changed)
    PROVE  /\ TypeOK'
           /\ release' = [release EXCEPT ![p] = changed]
           /\ UNCHANGED <<instances, code, registry_immutable>>
<1>1. /\ release' = [release EXCEPT ![p] = changed]
      /\ records' = Recorded(p, actor)
      /\ config' = [config EXCEPT !.record_count = @ + 1]
      /\ UNCHANGED <<now, instances, business, code, registry_immutable>>
  BY DEF Lifecycle, loader
<1>2. /\ release \in [Programs -> {NoRelease} \cup ReleaseType]
      /\ config \in [initialized: BOOLEAN, release_count: Nat,
                     record_count: Nat, instance_count: Nat]
      /\ records \in Seq(RecordType) /\ now \in Nat
  BY RegistryAssumption DEF TypeOK
<1>3. release' \in [Programs -> {NoRelease} \cup ReleaseType] /\ release'[p] = changed
  BY <1>1, <1>2
<1>4. /\ config' \in [initialized: BOOLEAN, release_count: Nat,
                      record_count: Nat, instance_count: Nat]
      /\ config'.release_count = config.release_count
  BY <1>1, <1>2
<1>5. records' \in Seq(RecordType)
  <2> DEFINE record == [release |-> p, actor |-> actor, status |-> release'[p].status,
                        successor |-> release'[p].successor, timestamp |-> now]
  <2>1. record \in RecordType  BY <1>2, <1>3 DEF ReleaseType, RecordType
  <2>2. records' = Append(records, record)  BY <1>1 DEF Recorded
  <2> HIDE DEF record
  <2> QED  BY <1>2, <2>1, <2>2
<1>6. /\ Registered' = Registered
      /\ \A q \in Registered : release'[q].sequence = release[q].sequence
  <2>1. changed.status # "none"  BY DEF ReleaseType, Statuses
  <2> QED  BY <1>1, <1>2, <2>1 DEF Registered
<1>7. InstanceType' = InstanceType  BY <1>1 DEF InstanceType
<1> QED  BY <1>1, <1>3, <1>4, <1>5, <1>6, <1>7 DEF TypeOK

LEMMA ActivateType ==
    ASSUME TypeOK, NEW p \in Programs, NEW actor \in Actors, Activate(p, actor)
    PROVE  /\ TypeOK' /\ CodeFixed(p)
           /\ release[p].status \notin {"none", "discontinued"}
           /\ release' = [release EXCEPT ![p] = [release[p] EXCEPT !.status = "active"]]
           /\ UNCHANGED <<instances, code, registry_immutable>>
<1> DEFINE changed == [release[p] EXCEPT !.status = "active"]
<1>1. /\ CodeFixed(p) /\ Lifecycle(p, actor, changed)
      /\ release[p].status \notin {"none", "discontinued"}
  BY DEF Activate, Activatable
<1>2. release[p] \in ReleaseType  BY <1>1, StatusOfRegistered
<1>3. changed \in ReleaseType /\ changed.sequence = release[p].sequence
  BY <1>2 DEF ReleaseType, Statuses
<1> HIDE DEF changed
<1>4. /\ TypeOK' /\ release' = [release EXCEPT ![p] = changed]
      /\ UNCHANGED <<instances, code, registry_immutable>>
  BY <1>1, <1>3, LifecycleType
<1> QED  BY <1>1, <1>4 DEF changed

LEMMA PauseType ==
    ASSUME TypeOK, NEW p \in Programs, NEW actor \in Actors, Pause(p, actor)
    PROVE  /\ TypeOK'
           /\ release[p].status = "active"
           /\ release' = [release EXCEPT ![p] = Paused(release[p])]
           /\ Paused(release[p]).status = "paused"
           /\ UNCHANGED <<instances, code, registry_immutable>>
<1> DEFINE changed == Paused(release[p])
<1>1. /\ Lifecycle(p, actor, changed) /\ release[p].status = "active"
  BY DEF Pause
<1>2. release[p] \in ReleaseType  BY <1>1, StatusOfRegistered
<1>3. now + ActivationDelay \in Nat  BY RegistryAssumption DEF TypeOK
<1>4. /\ changed \in ReleaseType /\ changed.sequence = release[p].sequence
      /\ changed.status = "paused"
  BY <1>2, <1>3 DEF Paused, ReleaseType, Statuses
<1> HIDE DEF changed
<1>5. /\ TypeOK' /\ release' = [release EXCEPT ![p] = changed]
      /\ UNCHANGED <<instances, code, registry_immutable>>
  BY <1>1, <1>4, LifecycleType
<1> QED  BY <1>1, <1>4, <1>5 DEF changed

LEMMA DiscontinueType ==
    ASSUME TypeOK, NEW p \in Programs, NEW actor \in Actors, Discontinue(p, actor)
    PROVE  /\ TypeOK'
           /\ release' = [release EXCEPT ![p] = [release[p] EXCEPT !.status = "discontinued"]]
           /\ release[p] \in ReleaseType
           /\ UNCHANGED <<instances, code, registry_immutable>>
<1> DEFINE changed == [release[p] EXCEPT !.status = "discontinued"]
<1>1. Lifecycle(p, actor, changed) /\ release[p].status # "none"  BY DEF Discontinue
<1>2. release[p] \in ReleaseType  BY <1>1, StatusOfRegistered
<1>3. changed \in ReleaseType /\ changed.sequence = release[p].sequence
  BY <1>2 DEF ReleaseType, Statuses
<1> HIDE DEF changed
<1>4. /\ TypeOK' /\ release' = [release EXCEPT ![p] = changed]
      /\ UNCHANGED <<instances, code, registry_immutable>>
  BY <1>1, <1>3, LifecycleType
<1> QED  BY <1>2, <1>4 DEF changed

LEMMA SetSuccessorType ==
    ASSUME TypeOK, NEW p \in Programs, NEW q \in Programs, NEW actor \in Actors,
           SetSuccessor(p, actor, q)
    PROVE  /\ TypeOK'
           /\ release[p].status = "discontinued"
           /\ release' = [release EXCEPT ![p] = [release[p] EXCEPT !.successor = q]]
           /\ [release[p] EXCEPT !.successor = q].status = "discontinued"
           /\ UNCHANGED <<instances, code, registry_immutable>>
<1> DEFINE changed == [release[p] EXCEPT !.successor = q]
<1>1. Lifecycle(p, actor, changed) /\ release[p].status = "discontinued"
  BY DEF SetSuccessor
<1>2. release[p] \in ReleaseType  BY <1>1, StatusOfRegistered
<1>3. /\ changed \in ReleaseType /\ changed.sequence = release[p].sequence
      /\ changed.status = "discontinued"
  BY <1>1, <1>2 DEF ReleaseType
<1> HIDE DEF changed
<1>4. /\ TypeOK' /\ release' = [release EXCEPT ![p] = changed]
      /\ UNCHANGED <<instances, code, registry_immutable>>
  BY <1>1, <1>3, LifecycleType
<1> QED  BY <1>1, <1>3, <1>4 DEF changed

LEMMA RegisterType ==
    ASSUME TypeOK, NEW p \in Programs, NEW domain \in Domains, NEW series \in Series,
           NEW hash \in Hashes, Register(p, domain, series, hash)
    PROVE  /\ TypeOK'
           /\ release[p].status = "none" /\ release'[p].status = "registered"
           /\ \A q \in Programs : q # p => release'[q] = release[q]
           /\ UNCHANGED <<instances, code, registry_immutable>>
<1> DEFINE fresh == [status |-> "registered", domain |-> domain, series |-> series,
                     executable_hash |-> hash, sequence |-> NextSequence,
                     registered_slot |-> now, eligible_at |-> now + ActivationDelay,
                     successor |-> NoProgram]
<1>1. /\ release[p].status = "none"
      /\ config' = [config EXCEPT !.release_count = @ + 1]
      /\ release' = [release EXCEPT ![p] = fresh]
      /\ UNCHANGED <<now, records, instances, business, code, registry_immutable>>
  BY DEF Register, loader
<1>2. /\ release \in [Programs -> {NoRelease} \cup ReleaseType]
      /\ config \in [initialized: BOOLEAN, release_count: Nat,
                     record_count: Nat, instance_count: Nat]
      /\ now \in Nat
      /\ \A q \in Registered : release[q].sequence <= config.release_count
      /\ \A q, r \in Registered : q # r => release[q].sequence # release[r].sequence
  BY RegistryAssumption DEF TypeOK
<1>3. fresh \in ReleaseType /\ fresh.sequence = config.release_count + 1
  BY <1>2, RegistryAssumption DEF ReleaseType, Statuses, NextSequence
<1>4. fresh.status = "registered"  OBVIOUS
<1> HIDE DEF fresh
<1>5. release' \in [Programs -> {NoRelease} \cup ReleaseType] /\ release'[p] = fresh
  BY <1>1, <1>2, <1>3
<1>6. /\ config' \in [initialized: BOOLEAN, release_count: Nat,
                      record_count: Nat, instance_count: Nat]
      /\ config'.release_count = config.release_count + 1
  BY <1>1, <1>2
<1>7. \A q \in Programs : q # p => release'[q] = release[q]  BY <1>1, <1>2
<1>8. \A q \in Registered' : q = p \/ (q \in Registered /\ release'[q] = release[q])
  BY <1>7 DEF Registered
<1>9. \A q \in Registered : release[q] \in ReleaseType /\ release[q].sequence \in Nat
  BY <1>2 DEF Registered, NoRelease, ReleaseType
<1>10. \A q \in Registered' : release'[q].sequence <= config'.release_count
  BY <1>2, <1>3, <1>5, <1>6, <1>8, <1>9
<1>11. \A q, r \in Registered' : q # r => release'[q].sequence # release'[r].sequence
  BY <1>2, <1>3, <1>5, <1>8, <1>9
<1>12. InstanceType' = InstanceType  BY <1>1 DEF InstanceType
<1> QED
  BY <1>1, <1>4, <1>5, <1>6, <1>7, <1>10, <1>11, <1>12 DEF TypeOK, RecordType

LEMMA RecordInstanceType ==
    ASSUME TypeOK, NEW p \in Programs, NEW creator \in Creators, NEW index \in Nat,
           RecordInstance(p, creator, index)
    PROVE  /\ TypeOK'
           /\ release[p].status = "active"
           /\ \E new : new.release = p /\ instances' = Append(instances, new)
           /\ UNCHANGED <<release, code, registry_immutable>>
<1> DEFINE key == BusinessKey(p, creator, index)
           new == [release |-> p, creator |-> creator, index |-> index,
                   business_key |-> key, created_slot |-> now]
<1>1. /\ release[p].status = "active"
      /\ config' = [config EXCEPT !.instance_count = @ + 1]
      /\ business' = business \cup {key}
      /\ instances' = Append(instances, new)
      /\ UNCHANGED <<now, release, records, code, registry_immutable>>
  BY DEF RecordInstance, Recordable, loader
<1>2. /\ config \in [initialized: BOOLEAN, release_count: Nat,
                     record_count: Nat, instance_count: Nat]
      /\ now \in Nat /\ instances \in Seq(InstanceType)
  BY RegistryAssumption DEF TypeOK
<1>3. InstanceType \in SUBSET InstanceType'
  <2> HIDE DEF key
  <2> QED  BY <1>1 DEF InstanceType
<1>4. new \in InstanceType'
  <2> HIDE DEF key
  <2> QED  BY <1>1, <1>2 DEF InstanceType
<1>5. new.release = p  OBVIOUS
<1> HIDE DEF new
<1>6. instances' \in Seq(InstanceType')
  <2> DEFINE T == InstanceType'
  <2>1. instances \in Seq(T)
    <3>1. /\ Len(instances) \in Nat
          /\ instances \in [1..Len(instances) -> InstanceType]
      BY <1>2, LenProperties
    <3>2. InstanceType \in SUBSET T  BY <1>3
    <3> HIDE DEF T
    <3>3. instances \in [1..Len(instances) -> T]  BY <3>1, <3>2
    <3> QED  BY <3>1, <3>3, SeqDef
  <2>2. new \in T  BY <1>4
  <2> HIDE DEF T
  <2>3. Append(instances, new) \in Seq(T)  BY <2>1, <2>2
  <2> QED  BY <1>1, <2>3 DEF T
<1>7. /\ config' \in [initialized: BOOLEAN, release_count: Nat,
                      record_count: Nat, instance_count: Nat]
      /\ config'.release_count = config.release_count
  <2>1. config' = [config EXCEPT !.instance_count = config.instance_count + 1]  BY <1>1
  <2>2. config.instance_count + 1 \in Nat  BY <1>2
  <2> QED  BY <1>2, <2>1, <2>2
<1>8. Registered' = Registered /\ RecordType' = RecordType  BY <1>1 DEF Registered, RecordType
<1> QED  BY <1>1, <1>5, <1>6, <1>7, <1>8 DEF TypeOK

(***************************************************************************)
(* Steps that change no release: the loader's, the clock's, Initialize.    *)
(***************************************************************************)
LEMMA OtherType ==
    ASSUME TypeOK,
           \/ Tick \/ Initialize \/ FreezeRegistry \/ UNCHANGED vars
           \/ \E p \in Programs : Freeze(p) \/ \E h \in Hashes : Upgrade(p, h)
    PROVE  /\ TypeOK'
           /\ UNCHANGED <<release, instances>>
           /\ registry_immutable => registry_immutable'
           /\ \A p \in Programs : code[p].immutable => code'[p] = code[p]
<1>1. /\ now \in 1..Horizon /\ code \in [Programs -> [hash: Hashes, immutable: BOOLEAN]]
      /\ config \in [initialized: BOOLEAN, release_count: Nat,
                     record_count: Nat, instance_count: Nat]
  BY DEF TypeOK
<1>2. CASE Tick
  <2>1. now' \in 1..Horizon  BY <1>1, <1>2, RegistryAssumption DEF Tick
  <2> QED  BY <1>2, <2>1 DEF Tick, TypeOK, loader, Registered, RecordType, InstanceType
<1>3. CASE Initialize
  <2>1. /\ config' \in [initialized: BOOLEAN, release_count: Nat,
                        record_count: Nat, instance_count: Nat]
        /\ config'.release_count = config.release_count
    BY <1>1, <1>3 DEF Initialize
  <2> QED
    BY <1>3, <2>1 DEF Initialize, TypeOK, loader, Registered, RecordType, InstanceType
<1>4. CASE FreezeRegistry
  BY <1>4 DEF FreezeRegistry, TypeOK, Registered, RecordType, InstanceType
<1>5. CASE UNCHANGED vars
  BY <1>5 DEF vars, loader, TypeOK, Registered, RecordType, InstanceType
<1>6. CASE \E p \in Programs : Freeze(p) \/ \E h \in Hashes : Upgrade(p, h)
  <2>1. PICK p \in Programs : Freeze(p) \/ \E h \in Hashes : Upgrade(p, h)  BY <1>6
  <2>2. /\ code' \in [Programs -> [hash: Hashes, immutable: BOOLEAN]]
        /\ \A q \in Programs : code[q].immutable => code'[q] = code[q]
    <3>1. CASE Freeze(p)
      <4>1. code' = [code EXCEPT ![p] = [code[p] EXCEPT !.immutable = TRUE]]
            /\ ~code[p].immutable
        BY <3>1 DEF Freeze
      <4>2. [code[p] EXCEPT !.immutable = TRUE] \in [hash: Hashes, immutable: BOOLEAN]
        BY <1>1
      <4> QED  BY <1>1, <4>1, <4>2
    <3>2. ASSUME NEW h \in Hashes, Upgrade(p, h)
          PROVE  /\ code' \in [Programs -> [hash: Hashes, immutable: BOOLEAN]]
                 /\ \A q \in Programs : code[q].immutable => code'[q] = code[q]
      <4>1. code' = [code EXCEPT ![p] = [code[p] EXCEPT !.hash = h]]
            /\ ~code[p].immutable
        BY <3>2 DEF Upgrade
      <4>2. [code[p] EXCEPT !.hash = h] \in [hash: Hashes, immutable: BOOLEAN]
        BY <1>1
      <4> QED  BY <1>1, <4>1, <4>2
    <3> QED  BY <2>1, <3>1, <3>2
  <2>3. UNCHANGED <<now, config, release, records, instances, business, registry_immutable>>
    BY <2>1 DEF Freeze, Upgrade
  <2> QED  BY <2>2, <2>3 DEF TypeOK, Registered, RecordType, InstanceType
<1> QED  BY <1>2, <1>3, <1>4, <1>5, <1>6

LEMMA TypeInit == Init => TypeOK
<1> SUFFICES ASSUME Init  PROVE TypeOK
  OBVIOUS
<1>1. release \in [Programs -> {NoRelease} \cup ReleaseType] /\ Registered = {}
  <2>1. release = [p \in Programs |-> NoRelease]  BY DEF Init
  <2>2. NoRelease.status = "none"  BY DEF NoRelease
  <2> QED  BY <2>1, <2>2 DEF Registered
<1>2. code \in [Programs -> [hash: Hashes, immutable: BOOLEAN]]  BY DEF Init
<1>3. now \in 1..Horizon  BY RegistryAssumption DEF Init
<1>4. config \in [initialized: BOOLEAN, release_count: Nat,
                 record_count: Nat, instance_count: Nat]
  BY DEF Init
<1>5. records \in Seq(RecordType) /\ instances \in Seq(InstanceType)
  <2>1. \A T : << >> \in Seq(T)  OBVIOUS
  <2> QED  BY <2>1 DEF Init
<1>6. registry_immutable \in BOOLEAN  BY DEF Init
<1> QED  BY <1>1, <1>2, <1>3, <1>4, <1>5, <1>6 DEF TypeOK

(***************************************************************************)
(* An active release stays audited because both halves of the condition    *)
(* Activate checks can no longer be undone: an immutable program stays as  *)
(* it is.                                                                  *)
(***************************************************************************)
AuditInv == TypeOK /\ ActiveIsAudited

LEMMA AuditNext ==
    ASSUME AuditInv, [RegistryStep]_vars
    PROVE  AuditInv' /\ DiscontinuedKept
<1>1. TypeOK /\ ActiveIsAudited  BY DEF AuditInv
<1>2. /\ release \in [Programs -> {NoRelease} \cup ReleaseType]
      /\ code \in [Programs -> [hash: Hashes, immutable: BOOLEAN]]
      /\ instances \in Seq(InstanceType)
  BY <1>1 DEF TypeOK
<1>3. \A p \in Programs : release[p].status = "active" =>
         /\ code[p] = [hash |-> release[p].executable_hash, immutable |-> TRUE]
         /\ registry_immutable
  BY <1>1 DEF ActiveIsAudited, Registered
<1>4. CASE \/ Tick \/ Initialize \/ FreezeRegistry \/ UNCHANGED vars
           \/ \E p \in Programs : Freeze(p) \/ \E h \in Hashes : Upgrade(p, h)
  <2>1. /\ TypeOK' /\ UNCHANGED <<release, instances>>
        /\ registry_immutable => registry_immutable'
        /\ \A p \in Programs : code[p].immutable => code'[p] = code[p]
    BY <1>1, <1>4, OtherType
  <2>2. ActiveIsAudited'  BY <1>3, <2>1 DEF ActiveIsAudited, Registered
  <2> QED  BY <2>1, <2>2 DEF AuditInv, DiscontinuedKept
<1>5. CASE \E p \in Programs, d \in Domains, s \in Series, h \in Hashes : Register(p, d, s, h)
  <2>1. PICK p \in Programs, d \in Domains, s \in Series, h \in Hashes : Register(p, d, s, h)
    BY <1>5
  <2>2. /\ TypeOK' /\ release[p].status = "none" /\ release'[p].status = "registered"
        /\ \A q \in Programs : q # p => release'[q] = release[q]
        /\ UNCHANGED <<instances, code, registry_immutable>>
    BY <1>1, <2>1, RegisterType
  <2>3. ActiveIsAudited'  BY <1>3, <2>2 DEF ActiveIsAudited, Registered
  <2>4. DiscontinuedKept  BY <2>2 DEF DiscontinuedKept, Registered
  <2> QED  BY <2>2, <2>3, <2>4 DEF AuditInv
<1>6. CASE \E p \in Programs, a \in Actors : Activate(p, a)
  <2>1. PICK p \in Programs, a \in Actors : Activate(p, a)  BY <1>6
  <2>2. /\ TypeOK' /\ CodeFixed(p)
        /\ release[p].status \notin {"none", "discontinued"}
        /\ release' = [release EXCEPT ![p] = [release[p] EXCEPT !.status = "active"]]
        /\ UNCHANGED <<instances, code, registry_immutable>>
    BY <1>1, <2>1, ActivateType
  <2>3. release[p] \in ReleaseType  BY <1>1, <2>2, StatusOfRegistered
  <2>4. /\ release'[p].executable_hash = release[p].executable_hash
        /\ \A q \in Programs : q # p => release'[q] = release[q]
    BY <1>2, <2>2, <2>3 DEF ReleaseType
  <2>5. code[p] = [hash |-> release[p].executable_hash, immutable |-> TRUE]
    BY <1>2, <2>2 DEF CodeFixed
  <2>6. registry_immutable  BY <2>2 DEF CodeFixed
  <2>7. ActiveIsAudited'
    BY <1>3, <2>2, <2>4, <2>5, <2>6 DEF ActiveIsAudited, Registered
  <2>8. DiscontinuedKept  BY <2>2, <2>4 DEF DiscontinuedKept, Registered
  <2> QED  BY <2>2, <2>7, <2>8 DEF AuditInv
<1>7. CASE \E p \in Programs, a \in Actors : Pause(p, a)
  <2>1. PICK p \in Programs, a \in Actors : Pause(p, a)  BY <1>7
  <2>2. /\ TypeOK' /\ release[p].status = "active"
        /\ release' = [release EXCEPT ![p] = Paused(release[p])]
        /\ Paused(release[p]).status = "paused"
        /\ UNCHANGED <<instances, code, registry_immutable>>
    BY <1>1, <2>1, PauseType
  <2>3. /\ release'[p].status = "paused"
        /\ \A q \in Programs : q # p => release'[q] = release[q]
    BY <1>2, <2>2
  <2>4. ActiveIsAudited'  BY <1>3, <2>2, <2>3 DEF ActiveIsAudited, Registered
  <2>5. DiscontinuedKept  BY <2>2, <2>3 DEF DiscontinuedKept, Registered
  <2> QED  BY <2>2, <2>4, <2>5 DEF AuditInv
<1>8. CASE \E p \in Programs, a \in Actors : Discontinue(p, a)
  <2>1. PICK p \in Programs, a \in Actors : Discontinue(p, a)  BY <1>8
  <2>2. /\ TypeOK' /\ release[p] \in ReleaseType
        /\ release' = [release EXCEPT ![p] = [release[p] EXCEPT !.status = "discontinued"]]
        /\ UNCHANGED <<instances, code, registry_immutable>>
    BY <1>1, <2>1, DiscontinueType
  <2>3. /\ release'[p].status = "discontinued"
        /\ \A q \in Programs : q # p => release'[q] = release[q]
    BY <1>2, <2>2 DEF ReleaseType
  <2>4. ActiveIsAudited'  BY <1>3, <2>2, <2>3 DEF ActiveIsAudited, Registered
  <2>5. DiscontinuedKept  BY <2>2, <2>3 DEF DiscontinuedKept, Registered
  <2> QED  BY <2>2, <2>4, <2>5 DEF AuditInv
<1>9. CASE \E p, q \in Programs, a \in Actors : SetSuccessor(p, a, q)
  <2>1. PICK p \in Programs, q \in Programs, a \in Actors : SetSuccessor(p, a, q)  BY <1>9
  <2>2. /\ TypeOK' /\ release[p].status = "discontinued"
        /\ release' = [release EXCEPT ![p] = [release[p] EXCEPT !.successor = q]]
        /\ [release[p] EXCEPT !.successor = q].status = "discontinued"
        /\ UNCHANGED <<instances, code, registry_immutable>>
    BY <1>1, <2>1, SetSuccessorType
  <2>3. /\ release'[p].status = "discontinued"
        /\ \A r \in Programs : r # p => release'[r] = release[r]
    BY <1>2, <2>2
  <2>4. ActiveIsAudited'  BY <1>3, <2>2, <2>3 DEF ActiveIsAudited, Registered
  <2>5. DiscontinuedKept  BY <2>2, <2>3 DEF DiscontinuedKept, Registered
  <2> QED  BY <2>2, <2>4, <2>5 DEF AuditInv
<1>10. CASE \E p \in Programs, c \in Creators, i \in Nat : RecordInstance(p, c, i)
  <2>1. PICK p \in Programs, c \in Creators, i \in Nat : RecordInstance(p, c, i)
    BY <1>10
  <2>2. /\ TypeOK' /\ release[p].status = "active"
        /\ \E new : new.release = p /\ instances' = Append(instances, new)
        /\ UNCHANGED <<release, code, registry_immutable>>
    BY <1>1, <2>1, RecordInstanceType
  <2>3. PICK new : new.release = p /\ instances' = Append(instances, new)  BY <2>2
  <2>4. ActiveIsAudited'  BY <1>3, <2>2 DEF ActiveIsAudited, Registered
  <2>5. \A j \in DOMAIN instances' : j \notin DOMAIN instances => instances'[j].release = p
    <3>1. /\ DOMAIN instances = 1..Len(instances) /\ Len(instances) \in Nat
          /\ DOMAIN instances' = 1..(Len(instances) + 1)
          /\ instances'[Len(instances) + 1] = new
      BY <1>2, <2>3
    <3> QED  BY <2>3, <3>1
  <2>6. DiscontinuedKept  BY <2>2, <2>5 DEF DiscontinuedKept
  <2> QED  BY <2>2, <2>4, <2>6 DEF AuditInv
<1>11. \A i \in 1..MaxIndex : i \in Nat  BY RegistryAssumption
<1> QED
  BY <1>4, <1>5, <1>6, <1>7, <1>8, <1>9, <1>10, <1>11 DEF RegistryStep, Next

LEMMA AuditInit == Init => AuditInv
<1>1. Init => ActiveIsAudited  BY DEF Init, ActiveIsAudited, Registered, NoRelease
<1> QED  BY <1>1, TypeInit DEF AuditInv

LEMMA AuditAlways == Spec => []AuditInv
<1>1. AuditInv /\ [Next]_vars => AuditInv'  BY AuditNext DEF RegistryStep
<1> QED  BY <1>1, AuditInit, PTL DEF Spec

(* Releases, records and inventory entries keep their types, and releases
   their distinct sequence numbers. *)
THEOREM TypeCorrect == Spec => []TypeOK
<1>1. AuditInv => TypeOK  BY DEF AuditInv
<1> QED  BY <1>1, AuditAlways, PTL

(* Whoever pauses, resumes, upgrades or freezes what and when, an active
   release runs the registered binary and can run no other. *)
THEOREM ActiveAudited == Spec => []ActiveIsAudited
<1>1. AuditInv => ActiveIsAudited  BY DEF AuditInv
<1> QED  BY <1>1, AuditAlways, PTL

(* Discontinuing a release is final: it never comes back and never gets
   another instance. *)
THEOREM DiscontinuedIsFinal == Spec => DiscontinuedForGood
<1>1. AuditInv /\ [Next]_vars => AuditInv'  BY AuditNext DEF RegistryStep
<1>2. AuditInv /\ [Next]_vars => [DiscontinuedKept]_vars  BY AuditNext DEF RegistryStep
<1> QED  BY <1>1, <1>2, AuditInit, PTL DEF Spec, DiscontinuedForGood

------------------------------------------------------------------------------
(***************************************************************************)
(* The trail, the notice, successors and business keys.  What each step    *)
(* does to the releases, the records and the inventory: nothing, a new     *)
(* release, a lifecycle move with its record, or a new instance.           *)
(***************************************************************************)
Kept(rel, p) ==
    /\ rel \in ReleaseType
    /\ rel.sequence = release[p].sequence
    /\ rel.registered_slot = release[p].registered_slot
    /\ rel.domain = release[p].domain
    /\ rel.series = release[p].series

Resumed(p, rel) ==
    /\ rel.status = "active" /\ now >= release[p].eligible_at
    /\ rel.eligible_at = release[p].eligible_at
    /\ rel.successor = release[p].successor

Suspended(p, rel) ==
    /\ rel.status = "paused" /\ rel.eligible_at = now + ActivationDelay
    /\ rel.successor = release[p].successor

Ended(p, rel) ==
    /\ rel.status = "discontinued" /\ rel.eligible_at = release[p].eligible_at
    /\ \/ rel.successor = release[p].successor
       \/ /\ rel.successor \in Registered
          /\ release[rel.successor].sequence > release[p].sequence

Moved(p, rel) ==
    /\ p \in Registered /\ Kept(rel, p)
    /\ Resumed(p, rel) \/ Suspended(p, rel) \/ Ended(p, rel)
    /\ release' = [release EXCEPT ![p] = rel]
    /\ \E record : /\ records' = Append(records, record)
                   /\ record.release = p /\ record.status = rel.status
                   /\ record.successor = rel.successor /\ record.timestamp = now
    /\ UNCHANGED <<now, instances, business>>

Joined(p) ==
    /\ p \notin Registered
    /\ release'[p] \in ReleaseType
    /\ release'[p].status = "registered" /\ release'[p].successor = NoProgram
    /\ release'[p].registered_slot = now
    /\ release'[p].eligible_at = now + ActivationDelay
    /\ \A q \in Programs : q # p => release'[q] = release[q]
    /\ UNCHANGED <<now, records, instances, business>>

Opened(p, creator, index) ==
    /\ p \in Registered
    /\ BusinessKey(p, creator, index) \notin business
    /\ business' = business \cup {BusinessKey(p, creator, index)}
    /\ instances' = Append(instances,
          [release |-> p, creator |-> creator, index |-> index,
           business_key |-> BusinessKey(p, creator, index), created_slot |-> now])
    /\ UNCHANGED <<now, release, records>>

Still == UNCHANGED <<release, records, instances, business>> /\ now' \in Nat /\ now' >= now

LEMMA LifecycleMoves ==
    ASSUME TypeOK, NEW p \in Programs, NEW actor \in Actors, NEW changed \in ReleaseType,
           p \in Registered, Kept(changed, p),
           Resumed(p, changed) \/ Suspended(p, changed) \/ Ended(p, changed),
           Lifecycle(p, actor, changed)
    PROVE  Moved(p, changed)
<1>1. /\ release' = [release EXCEPT ![p] = changed]
      /\ records' = Recorded(p, actor)
      /\ UNCHANGED <<now, instances, business>>
  BY DEF Lifecycle
<1>2. release'[p] = changed  BY <1>1 DEF TypeOK
<1> DEFINE record == [release |-> p, actor |-> actor, status |-> changed.status,
                      successor |-> changed.successor, timestamp |-> now]
<1>3. records' = Append(records, record)  BY <1>1, <1>2 DEF Recorded
<1>4. /\ record.release = p /\ record.status = changed.status
      /\ record.successor = changed.successor /\ record.timestamp = now
  OBVIOUS
<1> HIDE DEF record
<1> QED  BY <1>1, <1>3, <1>4 DEF Moved

LEMMA StepKinds ==
    ASSUME TypeOK, [RegistryStep]_vars
    PROVE  \/ Still
           \/ \E p \in Programs : Joined(p)
           \/ \E p \in Programs, rel \in ReleaseType : Moved(p, rel)
           \/ \E p \in Programs, c \in Creators, i \in Nat : Opened(p, c, i)
<1>1. now \in Nat /\ now + ActivationDelay \in Nat
      /\ release \in [Programs -> {NoRelease} \cup ReleaseType]
  BY RegistryAssumption DEF TypeOK
<1>2. CASE \/ Tick \/ Initialize \/ FreezeRegistry \/ UNCHANGED vars
           \/ \E p \in Programs : Freeze(p) \/ \E h \in Hashes : Upgrade(p, h)
  <2>1. UNCHANGED <<release, records, instances, business>>
    BY <1>2 DEF Tick, Initialize, FreezeRegistry, vars, Freeze, Upgrade
  <2>2. now' = now \/ now' = now + 1
    BY <1>2 DEF Tick, Initialize, FreezeRegistry, vars, Freeze, Upgrade
  <2> QED  BY <1>1, <2>1, <2>2 DEF Still
<1>3. ASSUME NEW p \in Programs, NEW d \in Domains, NEW s \in Series, NEW h \in Hashes,
             Register(p, d, s, h)
      PROVE  Joined(p)
  <2> DEFINE fresh == [status |-> "registered", domain |-> d, series |-> s,
                       executable_hash |-> h, sequence |-> NextSequence,
                       registered_slot |-> now, eligible_at |-> now + ActivationDelay,
                       successor |-> NoProgram]
  <2>1. /\ release[p].status = "none"
        /\ release' = [release EXCEPT ![p] = fresh]
        /\ UNCHANGED <<now, records, instances, business>>
    BY <1>3 DEF Register
  <2>2. NextSequence \in Nat  BY DEF TypeOK, NextSequence
  <2>3. fresh \in ReleaseType  BY <1>1, <2>2 DEF ReleaseType, Statuses
  <2>4. /\ fresh.status = "registered" /\ fresh.successor = NoProgram
        /\ fresh.registered_slot = now /\ fresh.eligible_at = now + ActivationDelay
    OBVIOUS
  <2> HIDE DEF fresh
  <2>5. release'[p] = fresh /\ \A q \in Programs : q # p => release'[q] = release[q]
    BY <1>1, <2>1
  <2> QED  BY <2>1, <2>3, <2>4, <2>5 DEF Joined, Registered
<1>4. ASSUME NEW p \in Programs, NEW a \in Actors, Activate(p, a)
      PROVE  \E rel \in ReleaseType : Moved(p, rel)
  <2> DEFINE changed == [release[p] EXCEPT !.status = "active"]
  <2>1. /\ Lifecycle(p, a, changed) /\ now >= release[p].eligible_at
        /\ release[p].status # "none"
    BY <1>4 DEF Activate, Activatable
  <2>2. release[p] \in ReleaseType /\ p \in Registered  BY <2>1, StatusOfRegistered
  <2>3. /\ changed \in ReleaseType
        /\ Kept(changed, p) /\ Resumed(p, changed)
    BY <2>1, <2>2 DEF ReleaseType, Statuses, Kept, Resumed
  <2> HIDE DEF changed
  <2> QED  BY <2>1, <2>2, <2>3, LifecycleMoves
<1>5. ASSUME NEW p \in Programs, NEW a \in Actors, Pause(p, a)
      PROVE  \E rel \in ReleaseType : Moved(p, rel)
  <2> DEFINE changed == Paused(release[p])
  <2>1. Lifecycle(p, a, changed) /\ release[p].status = "active"  BY <1>5 DEF Pause
  <2>2. release[p] \in ReleaseType /\ p \in Registered  BY <2>1, StatusOfRegistered
  <2>3. changed \in ReleaseType /\ Kept(changed, p) /\ Suspended(p, changed)
    BY <1>1, <2>2 DEF ReleaseType, Statuses, Kept, Suspended, Paused
  <2> HIDE DEF changed
  <2> QED  BY <2>1, <2>2, <2>3, LifecycleMoves
<1>6. ASSUME NEW p \in Programs, NEW a \in Actors, Discontinue(p, a)
      PROVE  \E rel \in ReleaseType : Moved(p, rel)
  <2> DEFINE changed == [release[p] EXCEPT !.status = "discontinued"]
  <2>1. Lifecycle(p, a, changed) /\ release[p].status # "none"  BY <1>6 DEF Discontinue
  <2>2. release[p] \in ReleaseType /\ p \in Registered  BY <2>1, StatusOfRegistered
  <2>3. changed \in ReleaseType /\ Kept(changed, p) /\ Ended(p, changed)
    BY <2>2 DEF ReleaseType, Statuses, Kept, Ended
  <2> HIDE DEF changed
  <2> QED  BY <2>1, <2>2, <2>3, LifecycleMoves
<1>7. ASSUME NEW p \in Programs, NEW q \in Programs, NEW a \in Actors, SetSuccessor(p, a, q)
      PROVE  \E rel \in ReleaseType : Moved(p, rel)
  <2> DEFINE changed == [release[p] EXCEPT !.successor = q]
  <2>1. /\ Lifecycle(p, a, changed) /\ release[p].status = "discontinued"
        /\ q \in Registered /\ release[q].sequence > release[p].sequence
    BY <1>7 DEF SetSuccessor, MaySucceed
  <2>2. release[p] \in ReleaseType /\ p \in Registered  BY <2>1, StatusOfRegistered
  <2>3. changed \in ReleaseType /\ Kept(changed, p) /\ Ended(p, changed)
    BY <2>1, <2>2 DEF ReleaseType, Kept, Ended
  <2> HIDE DEF changed
  <2> QED  BY <2>1, <2>2, <2>3, LifecycleMoves
<1>8. ASSUME NEW p \in Programs, NEW c \in Creators, NEW i \in Nat,
             RecordInstance(p, c, i)
      PROVE  Opened(p, c, i)
  <2>1. release[p].status = "active"  BY <1>8 DEF RecordInstance, Recordable
  <2>2. p \in Registered  BY <2>1 DEF Registered
  <2> QED  BY <1>8, <2>2 DEF RecordInstance, Opened
<1>9. \A i \in 1..MaxIndex : i \in Nat  BY RegistryAssumption
<1> QED
  BY <1>2, <1>3, <1>4, <1>5, <1>6, <1>7, <1>8, <1>9 DEF RegistryStep, Next

(***************************************************************************)
(* What the trail, the notice, the successors and the keys rest on:        *)
(*  - the last record of a release tells its state, and no record is of a  *)
(*    program that was never registered;                                   *)
(*  - a release may next be activated only after the delay from its        *)
(*    registration and from each pause on record;                          *)
(*  - a successor is registered, and later than the release it succeeds;   *)
(*  - an instance holds the key of its release, creator and index, and no  *)
(*    two hold the same.                                                   *)
(***************************************************************************)
TrailInv ==
    \A p \in Programs :
        /\ RecordsOf(p) # {} => p \in Registered
        /\ p \in Registered /\ RecordsOf(p) = {} =>
              release[p].status = "registered" /\ release[p].successor = NoProgram
        /\ \A i \in RecordsOf(p) : (\A j \in RecordsOf(p) : j <= i) =>
              /\ records[i].status = release[p].status
              /\ records[i].successor = release[p].successor

NoticeInv ==
    /\ \A p \in Registered :
          /\ release[p].registered_slot <= now
          /\ release[p].eligible_at >= release[p].registered_slot + ActivationDelay
    /\ \A i \in DOMAIN records :
          /\ records[i].timestamp <= now
          /\ records[i].status = "paused" =>
                release[records[i].release].eligible_at >= records[i].timestamp + ActivationDelay
    /\ NoticeGiven

SuccessionInv ==
    \A p \in Registered : release[p].successor # NoProgram =>
        /\ release[p].successor \in Registered
        /\ release[release[p].successor].sequence > release[p].sequence

KeyInv ==
    /\ \A i \in DOMAIN instances :
          /\ instances[i].release \in Registered
          /\ instances[i].business_key =
                BusinessKey(instances[i].release, instances[i].creator, instances[i].index)
          /\ instances[i].business_key \in business
    /\ \A i, j \in DOMAIN instances :
          i # j => instances[i].business_key # instances[j].business_key

HistoryInv == TypeOK /\ TrailInv /\ NoticeInv /\ SuccessionInv /\ KeyInv

(***************************************************************************)
(* The state after a lifecycle move, and after an announcement.            *)
(***************************************************************************)
LEMMA MovedState ==
    ASSUME TypeOK, NEW p \in Programs, NEW rel \in ReleaseType, Moved(p, rel)
    PROVE  /\ Registered' = Registered
           /\ release'[p] = rel
           /\ \A q \in Programs : q # p => release'[q] = release[q]
           /\ \A q \in Programs : q \in Registered => release'[q] \in ReleaseType
           /\ Len(records) \in Nat /\ DOMAIN records = 1..Len(records)
           /\ DOMAIN records' = 1..(Len(records) + 1)
           /\ \A i \in DOMAIN records : records'[i] = records[i]
           /\ LET record == records'[Len(records) + 1]
              IN  /\ record.release = p /\ record.status = rel.status
                  /\ record.successor = rel.successor /\ record.timestamp = now
<1>1. /\ release \in [Programs -> {NoRelease} \cup ReleaseType]
      /\ records \in Seq(RecordType)
  BY DEF TypeOK
<1>2. release' = [release EXCEPT ![p] = rel] /\ p \in Registered  BY DEF Moved
<1>3. rel.status # "none"  BY DEF ReleaseType, Statuses
<1>4. Registered' = Registered  BY <1>1, <1>2, <1>3 DEF Registered
<1>5. PICK record : /\ records' = Append(records, record)
                    /\ record.release = p /\ record.status = rel.status
                    /\ record.successor = rel.successor /\ record.timestamp = now
  BY DEF Moved
<1>6. /\ Len(records) \in Nat /\ DOMAIN records = 1..Len(records)
      /\ DOMAIN records' = 1..(Len(records) + 1)
      /\ \A i \in DOMAIN records : records'[i] = records[i]
      /\ records'[Len(records) + 1] = record
  BY <1>1, <1>5
<1>7. \A q \in Registered : release[q] \in ReleaseType
  BY <1>1 DEF Registered, NoRelease
<1> QED  BY <1>1, <1>2, <1>4, <1>5, <1>6, <1>7

LEMMA JoinedState ==
    ASSUME TypeOK, NEW p \in Programs, Joined(p)
    PROVE  /\ Registered' = Registered \cup {p} /\ p \notin Registered
           /\ \A q \in Programs : q # p => release'[q] = release[q]
           /\ \A q \in Registered : release'[q] = release[q]
<1>1. /\ p \notin Registered /\ release'[p] \in ReleaseType
      /\ \A q \in Programs : q # p => release'[q] = release[q]
  BY DEF Joined
<1>2. release'[p].status # "none"  BY <1>1 DEF ReleaseType, Statuses
<1> QED  BY <1>1, <1>2 DEF Registered

LEMMA TrailNext ==
    ASSUME TypeOK, TrailInv, [RegistryStep]_vars
    PROVE  TrailInv'
<1>1. CASE Still  BY <1>1 DEF Still, TrailInv, Registered, RecordsOf
<1>2. ASSUME NEW p \in Programs, Joined(p)
      PROVE  TrailInv'
  <2>1. /\ Registered' = Registered \cup {p} /\ p \notin Registered
        /\ \A q \in Programs : q # p => release'[q] = release[q]
    BY <1>2, JoinedState
  <2>2. /\ records' = records
        /\ release'[p].status = "registered" /\ release'[p].successor = NoProgram
    BY <1>2 DEF Joined
  <2>3. \A q \in Programs : RecordsOf(q)' = RecordsOf(q)  BY <2>2 DEF RecordsOf
  <2>4. RecordsOf(p) = {}  BY <2>1 DEF TrailInv
  <2> QED  BY <2>1, <2>2, <2>3, <2>4 DEF TrailInv
<1>3. ASSUME NEW p \in Programs, NEW rel \in ReleaseType, Moved(p, rel)
      PROVE  TrailInv'
  <2>1. /\ Registered' = Registered /\ release'[p] = rel
        /\ \A q \in Programs : q # p => release'[q] = release[q]
        /\ Len(records) \in Nat /\ DOMAIN records = 1..Len(records)
        /\ DOMAIN records' = 1..(Len(records) + 1)
        /\ \A i \in DOMAIN records : records'[i] = records[i]
        /\ records'[Len(records) + 1].release = p
        /\ records'[Len(records) + 1].status = rel.status
        /\ records'[Len(records) + 1].successor = rel.successor
    BY <1>3, MovedState
  <2>2. p \in Registered  BY <1>3 DEF Moved
  <2>3. RecordsOf(p)' = RecordsOf(p) \cup {Len(records) + 1}  BY <2>1 DEF RecordsOf
  <2>4. \A q \in Programs : q # p => RecordsOf(q)' = RecordsOf(q)  BY <2>1 DEF RecordsOf
  <2>5. ASSUME NEW i \in RecordsOf(p)', \A j \in RecordsOf(p)' : j <= i
        PROVE  i = Len(records) + 1
    BY <2>1, <2>3, <2>5 DEF RecordsOf
  <2>6. \A q \in Programs : \A i \in RecordsOf(q) : i \in DOMAIN records  BY DEF RecordsOf
  <2> QED
    <3> SUFFICES ASSUME NEW q \in Programs
                 PROVE  /\ RecordsOf(q)' # {} => q \in Registered
                        /\ q \in Registered /\ RecordsOf(q)' = {} =>
                              /\ release'[q].status = "registered"
                              /\ release'[q].successor = NoProgram
                        /\ \A i \in RecordsOf(q)' : (\A j \in RecordsOf(q)' : j <= i) =>
                              /\ records'[i].status = release'[q].status
                              /\ records'[i].successor = release'[q].successor
      BY <2>1 DEF TrailInv
    <3>1. CASE q = p
      <4>1. RecordsOf(p)' # {} /\ p \in Registered  BY <2>2, <2>3
      <4>2. \A i \in RecordsOf(p)' : (\A j \in RecordsOf(p)' : j <= i) =>
                /\ records'[i].status = release'[p].status
                /\ records'[i].successor = release'[p].successor
        BY <2>1, <2>5
      <4> QED  BY <3>1, <4>1, <4>2
    <3>2. CASE q # p
      <4>1. RecordsOf(q)' = RecordsOf(q) /\ release'[q] = release[q]  BY <2>1, <2>4, <3>2
      <4> QED  BY <2>1, <2>6, <4>1 DEF TrailInv
    <3> QED  BY <3>1, <3>2
<1>4. ASSUME NEW p \in Programs, NEW c \in Creators, NEW i \in Nat, Opened(p, c, i)
      PROVE  TrailInv'
  BY <1>4 DEF Opened, TrailInv, Registered, RecordsOf
<1> QED  BY <1>1, <1>2, <1>3, <1>4, StepKinds

LEMMA NoticeNext ==
    ASSUME TypeOK, TrailInv, NoticeInv, [RegistryStep]_vars
    PROVE  NoticeInv'
<1>1. now \in Nat /\ ActivationDelay \in Nat /\ records \in Seq(RecordType)
  BY RegistryAssumption DEF TypeOK
<1>2. \A i \in DOMAIN records : records[i] \in RecordType  BY <1>1
<1>3. \A i \in DOMAIN records :
          /\ records[i].release \in Programs /\ records[i].timestamp \in Nat
          /\ records[i].release \in Registered
  BY <1>2 DEF RecordType, TrailInv, RecordsOf
<1>4. \A q \in Registered : release[q] \in ReleaseType
  BY DEF TypeOK, Registered, NoRelease
<1>5. DOMAIN records = 1..Len(records) /\ Len(records) \in Nat  BY <1>1
<1>6. \A q \in Registered :
          release[q].registered_slot \in Nat /\ release[q].eligible_at \in Nat
  BY <1>4 DEF ReleaseType
<1>7. CASE Still
  <2>1. UNCHANGED <<release, records>> /\ now' \in Nat /\ now' >= now
    BY <1>7 DEF Still
  <2>2. Registered' = Registered /\ NoticeGiven'  BY <2>1 DEF Registered, NoticeGiven, NoticeInv
  <2> QED  BY <1>1, <1>3, <1>6, <2>1, <2>2 DEF NoticeInv
<1>8. ASSUME NEW p \in Programs, Joined(p)
      PROVE  NoticeInv'
  <2>1. /\ Registered' = Registered \cup {p}
        /\ \A q \in Registered : release'[q] = release[q]
    BY <1>8, JoinedState
  <2>2. /\ UNCHANGED <<now, records>>
        /\ release'[p].registered_slot = now
        /\ release'[p].eligible_at = now + ActivationDelay
    BY <1>8 DEF Joined
  <2>3. NoticeGiven'  BY <1>3, <2>1, <2>2 DEF NoticeGiven, NoticeInv
  <2> QED  BY <1>1, <1>3, <2>1, <2>2, <2>3 DEF NoticeInv
<1>9. ASSUME NEW p \in Programs, NEW rel \in ReleaseType, Moved(p, rel)
      PROVE  NoticeInv'
  <2> DEFINE last == Len(records) + 1
  <2>1. /\ Registered' = Registered /\ release'[p] = rel
        /\ \A q \in Programs : q # p => release'[q] = release[q]
        /\ DOMAIN records' = 1..last
        /\ \A i \in DOMAIN records : records'[i] = records[i]
        /\ records'[last].release = p /\ records'[last].status = rel.status
        /\ records'[last].timestamp = now
    BY <1>9, MovedState
  <2>2. /\ now' = now /\ p \in Registered
        /\ rel.registered_slot = release[p].registered_slot
        /\ Resumed(p, rel) \/ Suspended(p, rel) \/ Ended(p, rel)
    BY <1>9 DEF Moved, Kept
  <2>3. rel.eligible_at \in Nat /\ rel.registered_slot \in Nat  BY DEF ReleaseType
  <2>4. /\ rel.status = "active" =>
              now >= release[p].eligible_at /\ rel.eligible_at = release[p].eligible_at
        /\ rel.eligible_at = release[p].eligible_at \/ rel.eligible_at = now + ActivationDelay
        /\ rel.status = "paused" => rel.eligible_at = now + ActivationDelay
    BY <2>2 DEF Resumed, Suspended, Ended
  <2>5. ASSUME NEW q \in Registered'
        PROVE  /\ release'[q].registered_slot <= now'
               /\ release'[q].eligible_at >= release'[q].registered_slot + ActivationDelay
    <3>1. CASE q = p  BY <1>1, <1>6, <2>1, <2>2, <2>3, <2>4, <3>1 DEF NoticeInv
    <3>2. CASE q # p
      <4>1. q \in Programs  BY <2>1 DEF Registered
      <4>2. release'[q] = release[q]  BY <2>1, <3>2, <4>1
      <4> QED  BY <2>1, <2>2, <4>2 DEF NoticeInv
    <3> QED  BY <3>1, <3>2
  <2>6. ASSUME NEW i \in DOMAIN records'
        PROVE  /\ records'[i].timestamp <= now'
               /\ records'[i].status = "paused" =>
                     release'[records'[i].release].eligible_at
                         >= records'[i].timestamp + ActivationDelay
    <3>1. CASE i = last  BY <1>1, <2>1, <2>2, <2>4, <3>1
    <3>2. CASE i # last
      <4>1. i \in DOMAIN records  BY <1>5, <2>1, <3>2
      <4>2. records'[i] = records[i]  BY <2>1, <4>1
      <4>3. CASE records[i].release = p
        <5>1. records[i].timestamp <= now /\ records[i].timestamp \in Nat
          BY <1>1, <1>3, <4>1 DEF NoticeInv
        <5>2. records[i].status = "paused" =>
                  release[p].eligible_at >= records[i].timestamp + ActivationDelay
          BY <4>1, <4>3 DEF NoticeInv
        <5>3. rel.eligible_at >= release[p].eligible_at \/ rel.eligible_at = now + ActivationDelay
          BY <1>1, <1>6, <2>2, <2>4
        <5> QED
          <6>1. /\ records'[i].timestamp = records[i].timestamp
                /\ records'[i].status = records[i].status
                /\ release'[records'[i].release].eligible_at = rel.eligible_at
                /\ now' = now
            BY <2>1, <2>2, <4>2, <4>3
          <6>2. PICK a, b, c, d, t : /\ a = release[p].eligible_at /\ b = rel.eligible_at
                                     /\ c = ActivationDelay /\ d = now
                                     /\ t = records[i].timestamp
            OBVIOUS
          <6>3. a \in Nat /\ b \in Nat /\ c \in Nat /\ d \in Nat /\ t \in Nat
            BY <1>1, <1>6, <2>2, <2>3, <5>1, <6>2
          <6>4. t <= d /\ (b >= a \/ b = d + c)  BY <5>1, <5>3, <6>2
          <6>5. a >= t + c => b >= t + c  BY <6>3, <6>4
          <6> QED  BY <5>1, <5>2, <6>1, <6>2, <6>5
      <4>4. CASE records[i].release # p
        BY <1>3, <2>1, <2>2, <4>1, <4>2, <4>4 DEF NoticeInv
      <4> QED  BY <4>3, <4>4
    <3> QED  BY <3>1, <3>2
  <2>7. \A q \in Registered : release'[q].registered_slot = release[q].registered_slot
    BY <2>1, <2>2 DEF Registered
  <2>8. NoticeGiven'
    <3> SUFFICES ASSUME NEW i \in DOMAIN records', records'[i].status = "active"
                 PROVE  /\ records'[i].timestamp
                              >= release'[records'[i].release].registered_slot + ActivationDelay
                        /\ \A j \in 1..(i - 1) :
                              records'[j].release = records'[i].release
                                /\ records'[j].status = "paused"
                                    => records'[i].timestamp
                                          >= records'[j].timestamp + ActivationDelay
      BY DEF NoticeGiven
    <3>1. CASE i = last
      <4>1. now >= release[p].eligible_at  BY <2>1, <2>4, <3>1
      <4>2. now >= release'[p].registered_slot + ActivationDelay
        BY <1>1, <1>6, <2>2, <2>7, <4>1 DEF NoticeInv
      <4>3. ASSUME NEW j \in 1..(i - 1), records'[j].release = p, records'[j].status = "paused"
            PROVE  now >= records'[j].timestamp + ActivationDelay
        <5>1. j \in DOMAIN records  BY <1>5, <3>1
        <5>2. records'[j] = records[j]  BY <2>1, <5>1
        <5>3. release[p].eligible_at >= records[j].timestamp + ActivationDelay
          BY <4>3, <5>1, <5>2 DEF NoticeInv
        <5> QED  BY <1>1, <1>3, <1>6, <2>2, <4>1, <5>1, <5>2, <5>3
      <4> QED  BY <2>1, <3>1, <4>2, <4>3
    <3>2. CASE i # last
      <4>1. i \in DOMAIN records /\ \A j \in 1..(i - 1) : j \in DOMAIN records
        BY <1>5, <2>1, <3>2
      <4>2. records'[i] = records[i] /\ \A j \in 1..(i - 1) : records'[j] = records[j]
        BY <2>1, <4>1
      <4> QED  BY <1>3, <2>7, <4>1, <4>2 DEF NoticeInv, NoticeGiven
    <3> QED  BY <3>1, <3>2
  <2> QED  BY <2>5, <2>6, <2>8 DEF NoticeInv
<1>10. ASSUME NEW p \in Programs, NEW c \in Creators, NEW i \in Nat, Opened(p, c, i)
       PROVE  NoticeInv'
  BY <1>10 DEF Opened, NoticeInv, NoticeGiven, Registered
<1> QED  BY <1>7, <1>8, <1>9, <1>10, StepKinds

LEMMA SuccessionNext ==
    ASSUME TypeOK, TrailInv, SuccessionInv, [RegistryStep]_vars
    PROVE  SuccessionInv'
<1>1. CASE Still  BY <1>1 DEF Still, SuccessionInv, Registered
<1>2. ASSUME NEW p \in Programs, Joined(p)
      PROVE  SuccessionInv'
  <2>1. /\ Registered' = Registered \cup {p}
        /\ \A q \in Registered : release'[q] = release[q]
    BY <1>2, JoinedState
  <2>2. release'[p].successor = NoProgram  BY <1>2 DEF Joined
  <2> QED  BY <2>1, <2>2 DEF SuccessionInv
<1>3. ASSUME NEW p \in Programs, NEW rel \in ReleaseType, Moved(p, rel)
      PROVE  SuccessionInv'
  <2>1. /\ Registered' = Registered /\ release'[p] = rel
        /\ \A q \in Programs : q # p => release'[q] = release[q]
    BY <1>3, MovedState
  <2>2. /\ p \in Registered /\ rel.sequence = release[p].sequence
        /\ \/ rel.successor = release[p].successor
           \/ /\ rel.successor \in Registered
              /\ release[rel.successor].sequence > release[p].sequence
    BY <1>3 DEF Moved, Kept, Resumed, Suspended, Ended
  <2>3. \A q \in Registered : q \in Programs /\ release'[q].sequence = release[q].sequence
    BY <2>1, <2>2 DEF Registered
  <2>4. ASSUME NEW q \in Registered, release'[q].successor # NoProgram
        PROVE  /\ release'[q].successor \in Registered
               /\ release[release'[q].successor].sequence > release[q].sequence
    <3>1. CASE q = p  BY <2>1, <2>2, <2>4, <3>1 DEF SuccessionInv
    <3>2. CASE q # p
      <4>1. release'[q] = release[q]  BY <2>1, <2>3, <3>2
      <4> QED  BY <2>4, <4>1 DEF SuccessionInv
    <3> QED  BY <3>1, <3>2
  <2> QED  BY <2>1, <2>3, <2>4 DEF SuccessionInv
<1>4. ASSUME NEW p \in Programs, NEW c \in Creators, NEW i \in Nat, Opened(p, c, i)
      PROVE  SuccessionInv'
  BY <1>4 DEF Opened, SuccessionInv, Registered
<1> QED  BY <1>1, <1>2, <1>3, <1>4, StepKinds

(***************************************************************************)
(* The key of an instance does not change with its release: domain and     *)
(* series are set once.                                                    *)
(***************************************************************************)
LEMMA KeysUnmoved ==
    ASSUME TypeOK, KeyInv, Registered \subseteq Registered',
           \A q \in Registered : /\ release'[q].domain = release[q].domain
                                 /\ release'[q].series = release[q].series,
           UNCHANGED <<instances, business>>
    PROVE  KeyInv'
<1>1. \A q \in Registered : \A c, i : BusinessKey(q, c, i)' = BusinessKey(q, c, i)
  BY DEF BusinessKey
<1> QED  BY <1>1 DEF KeyInv

LEMMA KeyNext ==
    ASSUME TypeOK, KeyInv, [RegistryStep]_vars
    PROVE  KeyInv'
<1>1. CASE Still  BY <1>1, KeysUnmoved DEF Still, Registered
<1>2. ASSUME NEW p \in Programs, Joined(p)
      PROVE  KeyInv'
  <2>1. /\ Registered' = Registered \cup {p}
        /\ \A q \in Registered : release'[q] = release[q]
    BY <1>2, JoinedState
  <2> QED  BY <1>2, <2>1, KeysUnmoved DEF Joined
<1>3. ASSUME NEW p \in Programs, NEW rel \in ReleaseType, Moved(p, rel)
      PROVE  KeyInv'
  <2>1. /\ Registered' = Registered /\ release'[p] = rel
        /\ \A q \in Programs : q # p => release'[q] = release[q]
    BY <1>3, MovedState
  <2>2. /\ rel.domain = release[p].domain /\ rel.series = release[p].series
        /\ UNCHANGED <<instances, business>>
    BY <1>3 DEF Moved, Kept
  <2>3. \A q \in Registered : /\ release'[q].domain = release[q].domain
                              /\ release'[q].series = release[q].series
    BY <2>1, <2>2 DEF Registered
  <2> QED  BY <2>1, <2>2, <2>3, KeysUnmoved
<1>4. ASSUME NEW p \in Programs, NEW c \in Creators, NEW i \in Nat, Opened(p, c, i)
      PROVE  KeyInv'
  <2> DEFINE key == BusinessKey(p, c, i)
             new == [release |-> p, creator |-> c, index |-> i, business_key |-> key,
                     created_slot |-> now]
             last == Len(instances) + 1
  <2>1. /\ p \in Registered /\ key \notin business
        /\ business' = business \cup {key}
        /\ instances' = Append(instances, new)
        /\ release' = release
    BY <1>4 DEF Opened
  <2>2. /\ new.release = p /\ new.creator = c /\ new.index = i /\ new.business_key = key
    OBVIOUS
  <2>3. \A q, d, j : BusinessKey(q, d, j)' = BusinessKey(q, d, j)
    BY <2>1 DEF BusinessKey
  <2>4. instances \in Seq(InstanceType)  BY DEF TypeOK
  <2>5. Registered' = Registered  BY <2>1 DEF Registered
  <2>6. BusinessKey(p, c, i) = key  OBVIOUS
  <2> HIDE DEF key, new
  <2>7. /\ DOMAIN instances = 1..Len(instances) /\ Len(instances) \in Nat
        /\ DOMAIN instances' = 1..last
        /\ \A j \in DOMAIN instances : instances'[j] = instances[j]
        /\ instances'[last] = new
    BY <2>1, <2>4
  <2>8. \A j \in DOMAIN instances' : j \in DOMAIN instances \/ j = last  BY <2>7
  <2>9. ASSUME NEW j \in DOMAIN instances'
        PROVE  /\ instances'[j].release \in Registered
               /\ instances'[j].business_key =
                     BusinessKey(instances'[j].release, instances'[j].creator,
                                 instances'[j].index)
               /\ instances'[j].business_key \in business'
    <3>1. CASE j = last  BY <2>1, <2>2, <2>6, <2>7, <3>1
    <3>2. CASE j \in DOMAIN instances
      <4>1. instances'[j] = instances[j]  BY <2>7, <3>2
      <4> QED  BY <2>1, <3>2, <4>1 DEF KeyInv
    <3> QED  BY <2>8, <3>1, <3>2
  <2>10. \A j, k \in DOMAIN instances' :
             j # k => instances'[j].business_key # instances'[k].business_key
    <3>1. \A j \in DOMAIN instances : instances'[j].business_key # key
      BY <2>1, <2>7 DEF KeyInv
    <3>2. \A j, k \in DOMAIN instances :
             j # k => instances'[j].business_key # instances'[k].business_key
      BY <2>7 DEF KeyInv
    <3>3. instances'[last].business_key = key  BY <2>2, <2>7
    <3> QED  BY <2>8, <3>1, <3>2, <3>3
  <2> QED  BY <2>3, <2>5, <2>9, <2>10 DEF KeyInv
<1> QED  BY <1>1, <1>2, <1>3, <1>4, StepKinds

LEMMA HistoryInit == Init => HistoryInv
<1> SUFFICES ASSUME Init  PROVE HistoryInv
  OBVIOUS
<1>1. /\ Registered = {} /\ DOMAIN records = {} /\ DOMAIN instances = {}
      /\ \A p : RecordsOf(p) = {}
  BY DEF Init, Registered, NoRelease, RecordsOf
<1>2. TrailInv /\ NoticeInv /\ SuccessionInv /\ KeyInv
  BY <1>1 DEF TrailInv, NoticeInv, NoticeGiven, SuccessionInv, KeyInv
<1> QED  BY <1>2, TypeInit DEF HistoryInv

LEMMA HistoryAlways == Spec => []HistoryInv
<1>1. TypeOK /\ TypeOK' /\ HistoryInv /\ [Next]_vars => HistoryInv'
  BY TrailNext, NoticeNext, SuccessionNext, KeyNext DEF HistoryInv, RegistryStep
<1>2. HistoryInv => TypeOK  BY DEF HistoryInv
<1>3. Spec => []TypeOK  BY TypeCorrect
<1> QED  BY <1>1, <1>2, <1>3, HistoryInit, PTL DEF Spec

(* The records alone, read in order, give the current status and successor
   of every release: none is changed without leaving a record. *)
THEOREM TrailComplete == Spec => []TrailTellsAll
<1>1. TypeOK /\ TrailInv => TrailTellsAll
  <2> SUFFICES ASSUME TypeOK, TrailInv, NEW p \in Registered, RecordsOf(p) # {}
               PROVE  LET last == CHOOSE i \in RecordsOf(p) : \A j \in RecordsOf(p) : j <= i
                      IN  /\ records[last].status = release[p].status
                          /\ records[last].successor = release[p].successor
    BY DEF TrailTellsAll, TrailInv, Registered
  <2>1. p \in Programs  BY DEF Registered
  <2>2. Len(records) \in Nat /\ DOMAIN records = 1..Len(records)  BY DEF TypeOK
  <2>3. /\ RecordsOf(p) \in SUBSET Nat
        /\ \A i \in RecordsOf(p) : i <= Len(records)
    BY <2>2 DEF RecordsOf
  <2>4. \E i \in RecordsOf(p) : \A j \in RecordsOf(p) : j <= i
    BY <2>2, <2>3, GreatestNatural
  <2> QED  BY <2>1, <2>4 DEF TrailInv
<1> QED  BY <1>1, HistoryAlways, PTL DEF HistoryInv

(* No release is activated or resumed within the activation delay of its
   registration or of any of its earlier pauses. *)
THEOREM NoticeAlwaysGiven == Spec => []NoticeGiven
<1>1. HistoryInv => NoticeGiven  BY DEF HistoryInv, NoticeInv
<1> QED  BY <1>1, HistoryAlways, PTL

(* Whatever successors are set and corrected, no set of releases is closed
   under succession: the member registered last has its successor outside. *)
THEOREM SuccessionEnds == Spec => []SuccessorsEnd
<1>1. TypeOK /\ SuccessionInv => SuccessorsEnd
  <2> SUFFICES ASSUME TypeOK, SuccessionInv, NEW S \in SUBSET Registered, S # {}
               PROVE  \E p \in S : release[p].successor \notin S
    BY DEF SuccessorsEnd
  <2> DEFINE Sequences == {release[p].sequence : p \in S}
  <2>1. \A p \in S : /\ p \in Programs /\ release[p].sequence \in Nat
                     /\ release[p].sequence <= config.release_count
    BY DEF TypeOK, Registered, NoRelease, ReleaseType
  <2>2. config.release_count \in Nat  BY DEF TypeOK
  <2>3. Sequences \in SUBSET Nat /\ Sequences # {}  BY <2>1
  <2>4. \A n \in Sequences : n <= config.release_count  BY <2>1
  <2>5. PICK n \in Sequences : \A m \in Sequences : m <= n
    <3> HIDE DEF Sequences
    <3> QED  BY <2>2, <2>3, <2>4, GreatestNatural
  <2>6. PICK p \in S : release[p].sequence = n  OBVIOUS
  <2>7. SUFFICES ASSUME release[p].successor \in S  PROVE FALSE
    BY <2>6
  <2>8. release[p].successor # NoProgram  BY <2>1, <2>7, RegistryAssumption
  <2>9. release[release[p].successor].sequence > release[p].sequence
    BY <2>6, <2>8 DEF SuccessionInv
  <2>10. release[release[p].successor].sequence <= n  BY <2>5, <2>7
  <2> QED  BY <2>1, <2>6, <2>7, <2>9, <2>10
<1> QED  BY <1>1, HistoryAlways, PTL DEF HistoryInv

(* No two instances of a series are for the same day, and no creator uses a
   giveaway nonce twice, whichever releases opened them. *)
THEOREM BusinessKeysUnique == Spec => []OnePerBusinessKey
<1>1. KeyInv => OnePerBusinessKey
  <2> SUFFICES ASSUME KeyInv, NEW i \in DOMAIN instances, NEW j \in DOMAIN instances, i # j,
                      release[instances[i].release].domain = release[instances[j].release].domain,
                      instances[i].index = instances[j].index,
                      IF release[instances[i].release].domain = "daily"
                      THEN release[instances[i].release].series
                               = release[instances[j].release].series
                      ELSE instances[i].creator = instances[j].creator
               PROVE  FALSE
    BY DEF OnePerBusinessKey
  <2>1. BusinessKey(instances[i].release, instances[i].creator, instances[i].index)
            = BusinessKey(instances[j].release, instances[j].creator, instances[j].index)
    BY DEF BusinessKey
  <2> QED  BY <2>1 DEF KeyInv
<1> QED  BY <1>1, HistoryAlways, PTL DEF HistoryInv
===============================================================================
