---------------------------- MODULE CreationProofs ----------------------------
(***************************************************************************)
(* Proofs about Creation, for every value of its constants.                *)
(***************************************************************************)
EXTENDS Creation, RegistryProofs

(***************************************************************************)
(* The registry's part.  What the programs rely on: releases keep what     *)
(* they were registered for, records are only added, with the time of the  *)
(* step, and an instance is recorded only for an active release.           *)
(***************************************************************************)
RegistryInv == AuditInv /\ HistoryInv /\ Registered = Programs

LEMMA RegistryNext ==
    ASSUME RegistryInv, [RegistryStep]_vars
    PROVE  /\ RegistryInv'
           /\ now \in Nat /\ now' \in Nat /\ now' >= now
           /\ \A p \in Programs : /\ release'[p].domain = release[p].domain
                                  /\ release'[p].series = release[p].series
           /\ \A i \in DOMAIN records : i \in DOMAIN records' /\ records'[i] = records[i]
           /\ \A i \in DOMAIN records' \ DOMAIN records : records'[i].timestamp = now
<1>1. TypeOK /\ AuditInv /\ HistoryInv /\ Registered = Programs
  BY DEF RegistryInv, HistoryInv
<1>2. AuditInv' /\ TypeOK'  BY <1>1, AuditNext DEF AuditInv
<1>3. HistoryInv'
  BY <1>1, <1>2, TrailNext, NoticeNext, SuccessionNext, KeyNext DEF HistoryInv
<1>4. now \in Nat /\ records \in Seq(RecordType)  BY <1>1, RegistryAssumption DEF TypeOK
<1> DEFINE Effect ==
      /\ Registered' = Programs
      /\ now' \in Nat /\ now' >= now
      /\ \A p \in Programs : /\ release'[p].domain = release[p].domain
                             /\ release'[p].series = release[p].series
      /\ \A i \in DOMAIN records : i \in DOMAIN records' /\ records'[i] = records[i]
      /\ \A i \in DOMAIN records' \ DOMAIN records : records'[i].timestamp = now
<1>5. ASSUME Still
      PROVE  Effect
  <2>1. UNCHANGED <<release, records>> /\ now' \in Nat /\ now' >= now  BY <1>5 DEF Still
  <2>2. Registered' = Registered  BY <2>1 DEF Registered
  <2> QED  BY <1>1, <2>1, <2>2
<1>6. ASSUME NEW p \in Programs, Joined(p)
      PROVE  Effect
  BY <1>1, <1>6 DEF Joined
<1>7. ASSUME NEW p \in Programs, NEW rel \in ReleaseType, Moved(p, rel)
      PROVE  Effect
  <2>1. /\ Registered' = Registered /\ release'[p] = rel
        /\ \A q \in Programs : q # p => release'[q] = release[q]
        /\ DOMAIN records = 1..Len(records) /\ Len(records) \in Nat
        /\ DOMAIN records' = 1..(Len(records) + 1)
        /\ \A i \in DOMAIN records : records'[i] = records[i]
        /\ records'[Len(records) + 1].timestamp = now
    BY <1>1, <1>7, MovedState
  <2>2. rel.domain = release[p].domain /\ rel.series = release[p].series /\ now' = now
    BY <1>7 DEF Moved, Kept
  <2>3. \A i \in DOMAIN records' \ DOMAIN records : i = Len(records) + 1  BY <2>1
  <2> QED  BY <1>1, <1>4, <2>1, <2>2, <2>3
<1>8. ASSUME NEW p \in Programs, NEW c \in Creators, NEW i \in Nat, Opened(p, c, i)
      PROVE  Effect
  BY <1>1, <1>4, <1>8 DEF Opened, Registered
<1> HIDE DEF Effect
<1>9. Effect  BY <1>1, <1>5, <1>6, <1>7, <1>8, StepKinds
<1> QED  BY <1>2, <1>3, <1>4, <1>9 DEF Effect, RegistryInv

(***************************************************************************)
(* An active release has a last record, and that record says so.           *)
(***************************************************************************)
LEMMA ActiveOnRecord ==
    ASSUME RegistryInv, NEW p \in Programs, release[p].status = "active"
    PROVE  \E r \in RecordsOf(p) :
              /\ records[r].status = "active" /\ records[r].timestamp <= now
              /\ \A s \in RecordsOf(p) : s <= r
<1>1. TypeOK /\ TrailInv /\ NoticeInv /\ p \in Registered  BY DEF RegistryInv, HistoryInv
<1>2. Len(records) \in Nat /\ DOMAIN records = 1..Len(records)  BY <1>1 DEF TypeOK
<1>3. RecordsOf(p) # {}  BY <1>1 DEF TrailInv
<1>4. RecordsOf(p) \in SUBSET Nat /\ \A i \in RecordsOf(p) : i <= Len(records)
  BY <1>2 DEF RecordsOf
<1>5. PICK r \in RecordsOf(p) : \A s \in RecordsOf(p) : s <= r
  BY <1>2, <1>3, <1>4, GreatestNatural
<1>6. records[r].status = "active"  BY <1>1, <1>5 DEF TrailInv
<1>7. records[r].timestamp <= now  BY <1>1 DEF NoticeInv, RecordsOf
<1> QED  BY <1>5, <1>6, <1>7

LEMMA RegistryInit == CreationInit => RegistryInv
<1> SUFFICES ASSUME CreationInit  PROVE RegistryInv
  OBVIOUS
<1> DEFINE N == Cardinality(Programs)
<1>1. N \in Nat  BY CreationAssumption, FS_CardinalityType
<1>2. PICK d \in [Programs -> Domains], s \in [Programs -> Series],
           h \in [Programs -> Hashes], o \in Orders :
           release = [p \in Programs |-> Announced(d[p], s[p], h[p], o[p])]
  BY DEF CreationInit
<1>3. /\ now = 1 /\ records = << >> /\ instances = << >> /\ business = {}
      /\ config = [initialized |-> TRUE, release_count |-> N,
                   record_count |-> 0, instance_count |-> 0]
      /\ code \in [Programs -> [hash: Hashes, immutable: BOOLEAN]]
      /\ registry_immutable \in BOOLEAN
  BY DEF CreationInit
<1>4. /\ o \in [Programs -> 1..N]
      /\ \A p, q \in Programs : p # q => o[p] # o[q]
  BY DEF Orders
<1> HIDE DEF N
<1>5. /\ 1 \in Nat /\ ActivationDelay \in Nat /\ 1 + ActivationDelay \in Nat
      /\ 1 \in 1..Horizon
  BY RegistryAssumption
<1>6. \A p \in Programs :
         /\ release[p] \in ReleaseType
         /\ release[p].status = "registered" /\ release[p].successor = NoProgram
         /\ release[p].sequence = o[p]
         /\ release[p].registered_slot = 1
         /\ release[p].eligible_at = 1 + ActivationDelay
  <2> SUFFICES ASSUME NEW p \in Programs
               PROVE  /\ release[p] \in ReleaseType
                      /\ release[p].status = "registered"
                      /\ release[p].successor = NoProgram
                      /\ release[p].sequence = o[p]
                      /\ release[p].registered_slot = 1
                      /\ release[p].eligible_at = 1 + ActivationDelay
    OBVIOUS
  <2>1. release[p] = Announced(d[p], s[p], h[p], o[p])  BY <1>2
  <2>2. d[p] \in Domains /\ s[p] \in Series /\ h[p] \in Hashes /\ o[p] \in Nat
    BY <1>1, <1>4
  <2> QED  BY <1>5, <2>1, <2>2 DEF Announced, ReleaseType, Statuses
<1>7. Registered = Programs  BY <1>6 DEF Registered
<1>8. release \in [Programs -> {NoRelease} \cup ReleaseType]  BY <1>2, <1>6
<1>9. records \in Seq(RecordType) /\ instances \in Seq(InstanceType)
  <2>1. \A T : << >> \in Seq(T)  OBVIOUS
  <2> QED  BY <1>3, <2>1
<1>10. /\ config \in [initialized: BOOLEAN, release_count: Nat,
                      record_count: Nat, instance_count: Nat]
       /\ config.release_count = N
  BY <1>1, <1>3
<1>11. \A p \in Programs : release[p].sequence <= config.release_count
  BY <1>1, <1>4, <1>6, <1>10
<1>12. TypeOK  BY <1>3, <1>4, <1>5, <1>6, <1>7, <1>8, <1>9, <1>10, <1>11 DEF TypeOK
<1>13. ActiveIsAudited  BY <1>6, <1>7 DEF ActiveIsAudited
<1>14. DOMAIN records = {} /\ DOMAIN instances = {} /\ \A p : RecordsOf(p) = {}
  BY <1>3 DEF RecordsOf
<1>15. TrailInv /\ SuccessionInv /\ KeyInv
  BY <1>6, <1>7, <1>14 DEF TrailInv, SuccessionInv, KeyInv
<1>16. NoticeInv  BY <1>3, <1>5, <1>6, <1>7, <1>14 DEF NoticeInv, NoticeGiven
<1> QED  BY <1>7, <1>12, <1>13, <1>15, <1>16 DEF RegistryInv, AuditInv, HistoryInv

------------------------------------------------------------------------------
(***************************************************************************)
(* The programs' part.  What the steps of Creation come to: the registry   *)
(* moves alone, a Config account is set up or changed, a creation is       *)
(* signed, or a signed creation runs.                                      *)
(***************************************************************************)
Administered == /\ [RegistryStep]_vars
                /\ UNCHANGED <<instances, business, program_vars>>

\* new is the Config account of p after Initialize, an update or a binding
Configured(p, new) ==
    /\ new \in SettingsType
    /\ settings' = [settings EXCEPT ![p] = new]
    /\ \/ ~settings[p].initialized /\ new.count = 0 /\ ~new.bound
       \/ /\ settings[p].initialized /\ new.count = settings[p].count
          /\ \/ new.bound = settings[p].bound
             \/ Validated(p) /\ new.bound
    /\ UNCHANGED <<vars, kind, signed, opened>>

Signed(tx) ==
    /\ tx \in SignedType
    /\ settings[tx.program].initialized /\ settings[tx.program].bound
    /\ tx.start = NoStart => kind[tx.program] = "daily"
    /\ signed' = signed \cup {tx}
    /\ UNCHANGED <<vars, kind, settings, opened>>

Account(tx, start, index) ==
    LET p == tx.program
    IN  [id |-> NextId(p), creator |-> tx.creator, authority |-> settings[p].authority,
         fee |-> settings[p].fee, start |-> start, index |-> index, created_at |-> now]

Created(tx, start, index) ==
    LET p == tx.program
    IN  /\ Agrees(tx) /\ Validated(p)
        /\ RecordInstance(p, tx.creator, index)
        /\ kind[p] = "daily" => index = start \div DayLength
        /\ opened' = [opened EXCEPT ![p] = Append(@, Account(tx, start, index))]
        /\ settings' = [settings EXCEPT ![p].count = NextId(p)]
        /\ signed' = signed \ {tx}
        /\ UNCHANGED kind

(***************************************************************************)
(* A creation is signed for a bound program, and without a start only for  *)
(* a lottery.                                                              *)
(***************************************************************************)
SignedInv ==
    \A tx \in signed :
        /\ settings[tx.program].initialized /\ settings[tx.program].bound
        /\ tx.start = NoStart => kind[tx.program] = "daily"

LEMMA DayIsNatural == \A n \in Nat : n \div DayLength \in Nat
BY CreationAssumption

LEMMA NonceIsNatural == 
    ASSUME RegistryInv, NEW w, NEW n \in Nonces(w)
    PROVE  n \in Nat
<1> DEFINE Used == {i \in DOMAIN instances : instances[i].creator = w}
<1>1. TypeOK  BY DEF RegistryInv, AuditInv
<1>2. DOMAIN instances = 1..Len(instances) /\ Len(instances) \in Nat  BY <1>1 DEF TypeOK
<1>3. IsFiniteSet(DOMAIN instances)  BY <1>2, FS_Interval
<1>4. Used \in SUBSET DOMAIN instances  OBVIOUS
<1>5. Cardinality(Used) \in Nat  BY <1>3, <1>4, FS_Subset, FS_CardinalityType
<1>6. n \in 1..(1 + Cardinality(Used))  BY DEF Nonces
<1> HIDE DEF Used
<1> QED  BY <1>5, <1>6

LEMMA SettingsKnown ==
    ASSUME CreationTypeOK, NEW p \in Programs, settings[p].initialized
    PROVE  settings[p] \in SettingsType
BY DEF CreationTypeOK, NoSettings

LEMMA CreationStepKinds ==
    ASSUME RegistryInv, CreationTypeOK, SignedInv, [CreationNext]_creation_vars
    PROVE  \/ Administered
           \/ \E p \in Programs, new \in SettingsType : Configured(p, new)
           \/ \E tx \in SignedType : Signed(tx)
           \/ \E tx \in signed, start, index \in Nat : Created(tx, start, index)
<1>1. /\ now \in 1..Horizon /\ now \in Nat /\ Horizon \in Nat
      /\ settings \in [Programs -> {NoSettings} \cup SettingsType]
      /\ signed \subseteq SignedType
  BY RegistryAssumption DEF CreationTypeOK, TypeOK
<1>2. CASE UNCHANGED creation_vars  BY <1>2 DEF creation_vars, Administered, vars
<1>3. CASE \/ Tick /\ UNCHANGED program_vars
           \/ \E p \in Programs : Activate(p, Authority) /\ UNCHANGED program_vars
           \/ \E p \in Programs : Pause(p, Guardian) /\ UNCHANGED program_vars
           \/ \E p \in Programs : Discontinue(p, Guardian) /\ UNCHANGED program_vars
  <2>1. Authority \in Actors /\ Guardian \in Actors  BY DEF Actors
  <2>2. [RegistryStep]_vars  BY <1>3, <2>1 DEF RegistryStep, Next
  <2>3. UNCHANGED <<instances, business, program_vars>>
    BY <1>3 DEF Tick, Activate, Pause, Discontinue, Lifecycle
  <2> QED  BY <2>2, <2>3 DEF Administered
<1>4. ASSUME NEW p \in Programs, NEW w \in Creators, NEW f \in Fees,
             InitializeProgram(p, w, f)
      PROVE  \E new \in SettingsType : Configured(p, new)
  <2> DEFINE new == [initialized |-> TRUE, authority |-> w, fee |-> f,
                     count |-> 0, bound |-> FALSE]
  <2>1. new \in SettingsType /\ new.count = 0 /\ ~new.bound  BY DEF SettingsType
  <2>2. /\ ~settings[p].initialized /\ settings' = [settings EXCEPT ![p] = new]
        /\ UNCHANGED <<vars, kind, signed, opened>>
    BY <1>4 DEF InitializeProgram
  <2> HIDE DEF new
  <2> QED  BY <2>1, <2>2 DEF Configured
<1>5. ASSUME NEW p \in Programs, NEW w \in Creators, NEW f \in Fees,
             UpdateServiceCharge(p, w, f)
      PROVE  \E new \in SettingsType : Configured(p, new)
  <2> DEFINE new == [settings[p] EXCEPT !.fee = f]
  <2>1. /\ settings[p].initialized /\ settings' = [settings EXCEPT ![p] = new]
        /\ UNCHANGED <<vars, kind, signed, opened>>
    BY <1>5 DEF UpdateServiceCharge
  <2>2. settings[p] \in SettingsType  BY <2>1, SettingsKnown
  <2>3. /\ new \in SettingsType /\ new.count = settings[p].count
        /\ new.bound = settings[p].bound
    BY <2>2 DEF SettingsType
  <2> HIDE DEF new
  <2> QED  BY <2>1, <2>3 DEF Configured
<1>6. ASSUME NEW p \in Programs, NEW w \in Creators, BindRegistry(p, w)
      PROVE  \E new \in SettingsType : Configured(p, new)
  <2> DEFINE new == [settings[p] EXCEPT !.bound = TRUE]
  <2>1. /\ settings[p].initialized /\ Validated(p)
        /\ settings' = [settings EXCEPT ![p] = new]
        /\ UNCHANGED <<vars, kind, signed, opened>>
    BY <1>6 DEF BindRegistry
  <2>2. settings[p] \in SettingsType  BY <2>1, SettingsKnown
  <2>3. new \in SettingsType /\ new.count = settings[p].count /\ new.bound
    BY <2>2 DEF SettingsType
  <2> HIDE DEF new
  <2> QED  BY <2>1, <2>3 DEF Configured
<1>7. ASSUME NEW p \in Programs, NEW w \in Creators, NEW t \in Starts(p),
             NEW q \in {NoQuote, Preset(p)}, NEW n \in Nonces(w),
             SignCreation(p, w, t, n, q)
      PROVE  \E tx \in SignedType : Signed(tx)
  <2> DEFINE tx == [program |-> p, creator |-> w, start |-> t,
                    id |-> IF kind[p] = "daily" THEN 0 ELSE NextId(p),
                    nonce |-> n, quote |-> q]
  <2>1. /\ settings[p].initialized /\ settings[p].bound
        /\ t = NoStart => kind[p] = "daily"
        /\ signed' = signed \cup {tx}
        /\ UNCHANGED <<vars, kind, settings, opened>>
    BY <1>7 DEF SignCreation
  <2>2. settings[p] \in SettingsType  BY <2>1, SettingsKnown
  <2>3. Preset(p) \in QuoteType /\ NextId(p) \in Nat
    <3>1. /\ settings[p].authority \in Creators /\ settings[p].fee \in Fees
          /\ settings[p].count \in Nat
      BY <2>2 DEF SettingsType
    <3> QED  BY <3>1 DEF Preset, NextId, QuoteType
  <2>4. t \in Nat \cup {NoStart}  BY <1>1 DEF Starts
  <2>5. n \in Nat  BY NonceIsNatural
  <2>6. tx.id \in Nat  BY <2>3
  <2>7. tx \in SignedType  BY <2>3, <2>4, <2>5, <2>6 DEF SignedType
  <2>8. tx.program = p /\ tx.start = t  OBVIOUS
  <2> HIDE DEF tx
  <2> QED  BY <2>1, <2>7, <2>8 DEF Signed
<1>8. ASSUME NEW tx \in signed, CreateLottery(tx)
      PROVE  \E start, index \in Nat : Created(tx, start, index)
  <2> DEFINE start == IF tx.start = NoStart THEN now ELSE tx.start
  <2>1. Opens(tx, start, DayOf(start))  BY <1>8 DEF CreateLottery
  <2>2. start \in Nat  BY <1>1 DEF SignedType
  <2> HIDE DEF start
  <2>3. DayOf(start) \in Nat /\ DayOf(start) = start \div DayLength
    BY <2>2, DayIsNatural DEF DayOf
  <2>4. Created(tx, start, DayOf(start))
    BY <2>1, <2>3 DEF Opens, InRegistry, Created, Account
  <2> QED  BY <2>2, <2>3, <2>4
<1>9. ASSUME NEW tx \in signed, CreateGiveaway(tx)
      PROVE  \E start, index \in Nat : Created(tx, start, index)
  <2>1. Opens(tx, tx.start, tx.nonce) /\ kind[tx.program] = "giveaway"
    BY <1>9 DEF CreateGiveaway
  <2>2. tx.start \in Nat /\ tx.nonce \in Nat
    BY <1>1, <2>1 DEF SignedType, SignedInv
  <2>3. Created(tx, tx.start, tx.nonce)
    BY <2>1 DEF Opens, InRegistry, Created, Account
  <2> QED  BY <2>2, <2>3
<1> QED
  BY <1>2, <1>3, <1>4, <1>5, <1>6, <1>7, <1>8, <1>9 DEF CreationNext

(***************************************************************************)
(* The state after a creation.                                             *)
(***************************************************************************)
Extended(p, account) ==
    /\ Len(opened[p]) \in Nat /\ DOMAIN opened[p] = 1..Len(opened[p])
    /\ Len(opened'[p]) = Len(opened[p]) + 1
    /\ DOMAIN opened'[p] = 1..(Len(opened[p]) + 1)
    /\ \A i \in DOMAIN opened[p] : opened'[p][i] = opened[p][i]
    /\ opened'[p][Len(opened[p]) + 1] = account
    /\ \A q \in Programs : q # p => opened'[q] = opened[q]

LEMMA CreatedState ==
    ASSUME RegistryInv, CreationTypeOK, SignedInv, NEW tx \in signed,
           NEW start \in Nat, NEW index \in Nat, Created(tx, start, index),
           NEW p, p = tx.program
    PROVE  /\ p \in Programs /\ tx.creator \in Creators /\ release[p].status = "active"
           /\ settings[p].initialized /\ settings[p].bound
           /\ settings[p] \in SettingsType
           /\ NextId(p) = settings[p].count + 1
           /\ settings'[p] = [settings[p] EXCEPT !.count = NextId(p)]
           /\ \A q \in Programs : q # p => settings'[q] = settings[q]
           /\ settings' \in [Programs -> {NoSettings} \cup SettingsType]
           /\ Account(tx, start, index) \in OpenedType
           /\ Extended(p, Account(tx, start, index))
           /\ opened' \in [Programs -> Seq(OpenedType)]
           /\ [RegistryStep]_vars
           /\ UNCHANGED <<now, release, records, kind>>
<1> DEFINE account == Account(tx, start, index)
<1>1. /\ settings \in [Programs -> {NoSettings} \cup SettingsType]
      /\ signed \subseteq SignedType
      /\ opened \in [Programs -> Seq(OpenedType)]
      /\ now \in Nat
  BY RegistryAssumption DEF CreationTypeOK, TypeOK
<1>2. /\ p \in Programs /\ tx.creator \in Creators
      /\ settings[p].initialized /\ settings[p].bound
  BY <1>1 DEF SignedType, SignedInv
<1>3. settings[p] \in SettingsType  BY <1>2, SettingsKnown
<1>4. /\ settings[p].authority \in Creators /\ settings[p].fee \in Fees
      /\ settings[p].count \in Nat
      /\ NextId(p) = settings[p].count + 1 /\ NextId(p) \in Nat
  <2>1. /\ settings[p].authority \in Creators /\ settings[p].fee \in Fees
        /\ settings[p].count \in Nat
    BY <1>3 DEF SettingsType
  <2>2. NextId(p) = settings[p].count + 1  BY DEF NextId
  <2> QED  BY <2>1, <2>2
<1>5. /\ RecordInstance(p, tx.creator, index)
      /\ opened' = [opened EXCEPT ![p] = Append(opened[p], account)]
      /\ settings' = [settings EXCEPT ![p] = [settings[p] EXCEPT !.count = NextId(p)]]
      /\ kind' = kind
  BY DEF Created
<1>6. account \in OpenedType  BY <1>1, <1>2, <1>4 DEF Account, OpenedType
<1>7. [settings[p] EXCEPT !.count = NextId(p)] \in SettingsType  BY <1>3, <1>4 DEF SettingsType
<1>8. /\ release[p].status = "active" /\ [RegistryStep]_vars
      /\ UNCHANGED <<now, release, records>>
  BY <1>2, <1>5 DEF RecordInstance, Recordable, RegistryStep
<1> HIDE DEF account
<1>9. /\ opened[p] \in Seq(OpenedType)
      /\ opened'[p] = Append(opened[p], account)
      /\ \A q \in Programs : q # p => opened'[q] = opened[q]
  BY <1>1, <1>2, <1>5
<1>10. Append(opened[p], account) \in Seq(OpenedType)  BY <1>6, <1>9
<1>11. opened' \in [Programs -> Seq(OpenedType)]  BY <1>1, <1>5, <1>10
<1>12. Extended(p, account)  BY <1>6, <1>9 DEF Extended
<1>13. /\ settings'[p] = [settings[p] EXCEPT !.count = NextId(p)]
       /\ \A q \in Programs : q # p => settings'[q] = settings[q]
       /\ settings' \in [Programs -> {NoSettings} \cup SettingsType]
  BY <1>1, <1>2, <1>5, <1>7
<1> QED
  BY <1>2, <1>3, <1>4, <1>5, <1>6, <1>8, <1>9, <1>11, <1>12, <1>13 DEF account

LEMMA CreationTypeNext ==
    ASSUME RegistryInv, CreationTypeOK, SignedInv, [CreationNext]_creation_vars
    PROVE  CreationTypeOK' /\ SignedInv' /\ [RegistryStep]_vars
<1>1. /\ kind \in [Programs -> Domains]
      /\ settings \in [Programs -> {NoSettings} \cup SettingsType]
      /\ signed \subseteq SignedType
      /\ opened \in [Programs -> Seq(OpenedType)]
      /\ \A p \in Programs : opened[p] # << >> => settings[p].initialized /\ settings[p].bound
      /\ \A p \in Programs : settings[p].initialized /\ settings[p].bound
                                => release[p].domain = kind[p]
  BY DEF CreationTypeOK
<1> DEFINE Programming ==
      /\ kind' = kind
      /\ settings' \in [Programs -> {NoSettings} \cup SettingsType]
      /\ signed' \subseteq SignedType
      /\ opened' \in [Programs -> Seq(OpenedType)]
      /\ \A p \in Programs : opened'[p] # << >> => settings'[p].initialized /\ settings'[p].bound
      /\ \A p \in Programs : settings'[p].initialized /\ settings'[p].bound
                                => release[p].domain = kind[p]
      /\ SignedInv'
      /\ [RegistryStep]_vars
<1>2. ASSUME Administered
      PROVE  Programming
  <2>1. [RegistryStep]_vars /\ UNCHANGED <<kind, settings, signed, opened>>
    BY <1>2 DEF Administered, program_vars
  <2> QED  BY <1>1, <2>1 DEF SignedInv
<1>3. ASSUME NEW p \in Programs, NEW new \in SettingsType, Configured(p, new)
      PROVE  Programming
  <2>1. /\ settings' = [settings EXCEPT ![p] = new]
        /\ UNCHANGED <<vars, kind, signed, opened>>
        /\ \/ ~settings[p].initialized /\ ~new.bound
           \/ /\ settings[p].initialized
              /\ new.bound = settings[p].bound \/ (Validated(p) /\ new.bound)
    BY <1>3 DEF Configured
  <2>2. settings'[p] = new /\ \A q \in Programs : q # p => settings'[q] = settings[q]
    BY <1>1, <2>1
  <2>3. settings' \in [Programs -> {NoSettings} \cup SettingsType]  BY <1>1, <2>1
  <2>4. new.initialized  BY DEF SettingsType
  <2>5. \A q \in Programs : settings[q].initialized /\ settings[q].bound
                               => settings'[q].initialized /\ settings'[q].bound
    BY <2>1, <2>2, <2>4
  <2>6. \A q \in Programs : settings'[q].initialized /\ settings'[q].bound
                               => release[q].domain = kind[q]
    BY <1>1, <2>1, <2>2 DEF Validated
  <2>7. SignedInv'
    <3>1. \A tx \in signed : tx.program \in Programs  BY <1>1 DEF SignedType
    <3> QED  BY <2>1, <2>5, <3>1 DEF SignedInv
  <2> QED  BY <1>1, <2>1, <2>3, <2>5, <2>6, <2>7
<1>4. ASSUME NEW tx \in SignedType, Signed(tx)
      PROVE  Programming
  <2>1. /\ signed' = signed \cup {tx} /\ UNCHANGED <<vars, kind, settings, opened>>
        /\ settings[tx.program].initialized /\ settings[tx.program].bound
        /\ tx.start = NoStart => kind[tx.program] = "daily"
    BY <1>4 DEF Signed
  <2>2. SignedInv'  BY <2>1 DEF SignedInv
  <2> QED  BY <1>1, <2>1, <2>2
<1>5. ASSUME NEW tx \in signed, NEW start \in Nat, NEW index \in Nat,
             Created(tx, start, index)
      PROVE  Programming
  <2> DEFINE p == tx.program
  <2>1. /\ settings[p].initialized /\ settings[p].bound /\ settings[p] \in SettingsType
        /\ settings'[p] = [settings[p] EXCEPT !.count = NextId(p)]
        /\ \A q \in Programs : q # p => settings'[q] = settings[q]
        /\ Extended(p, Account(tx, start, index))
        /\ settings' \in [Programs -> {NoSettings} \cup SettingsType]
        /\ opened' \in [Programs -> Seq(OpenedType)]
        /\ [RegistryStep]_vars /\ kind' = kind
    BY <1>5, CreatedState
  <2>2. settings'[p].initialized /\ settings'[p].bound  BY <2>1 DEF SettingsType
  <2>3. \A q \in Programs : /\ settings'[q].initialized = settings[q].initialized
                            /\ settings'[q].bound = settings[q].bound
    BY <2>1 DEF SettingsType
  <2>4. signed' = signed \ {tx}  BY <1>5 DEF Created
  <2>5. SignedInv'
    <3>1. \A t \in signed : t.program \in Programs  BY <1>1 DEF SignedType
    <3> QED  BY <2>1, <2>3, <2>4, <3>1 DEF SignedInv
  <2> HIDE DEF p
  <2>6. \A q \in Programs : opened'[q] # << >> => settings'[q].initialized /\ settings'[q].bound
    BY <1>1, <2>1, <2>2, <2>3 DEF Extended
  <2> QED  BY <1>1, <2>1, <2>3, <2>4, <2>5, <2>6
<1> HIDE DEF Programming
<1>6. Programming  BY <1>2, <1>3, <1>4, <1>5, CreationStepKinds
<1>7. /\ RegistryInv'
      /\ \A p \in Programs : release'[p].domain = release[p].domain
  BY <1>6, RegistryNext DEF Programming
<1>8. TypeOK'  BY <1>7 DEF RegistryInv, AuditInv
<1> QED  BY <1>1, <1>6, <1>7, <1>8 DEF Programming, CreationTypeOK

------------------------------------------------------------------------------
(***************************************************************************)
(* The books agree: a program's counter, its accounts and the registry's   *)
(* entries for it are as many, and in the same order.                      *)
(***************************************************************************)
Listed(p, i) ==
    LET account == opened[p][Place(i)]
    IN  /\ instances[i].creator = account.creator
        /\ instances[i].index = account.index
        /\ instances[i].created_slot = account.created_at

BookInv ==
    \A p \in Programs :
        /\ IF settings[p].initialized
           THEN settings[p].count = Len(opened[p]) ELSE opened[p] = << >>
        /\ \A i \in DOMAIN opened[p] : opened[p][i].id = i
        /\ Cardinality(EntriesOf(p)) = Len(opened[p])
        /\ \A i \in EntriesOf(p) : Listed(p, i)

LEMMA EntriesFinite ==
    ASSUME TypeOK, NEW p
    PROVE  /\ IsFiniteSet(EntriesOf(p)) /\ Cardinality(EntriesOf(p)) \in Nat
           /\ Len(instances) \in Nat /\ DOMAIN instances = 1..Len(instances)
<1>1. DOMAIN instances = 1..Len(instances) /\ Len(instances) \in Nat  BY DEF TypeOK
<1>2. IsFiniteSet(1..Len(instances))  BY <1>1, FS_Interval
<1>3. EntriesOf(p) \in SUBSET (1..Len(instances))  BY <1>1 DEF EntriesOf
<1>4. IsFiniteSet(EntriesOf(p))  BY <1>2, <1>3, FS_Subset
<1> QED  BY <1>1, <1>4, FS_CardinalityType

LEMMA PlaceWithin ==
    ASSUME TypeOK, NEW p, NEW i \in EntriesOf(p)
    PROVE  Place(i) \in 1..Cardinality(EntriesOf(p))
<1> DEFINE Upto == {j \in EntriesOf(p) : j <= i}
<1>1. instances[i].release = p /\ i \in DOMAIN instances  BY DEF EntriesOf
<1>2. /\ IsFiniteSet(EntriesOf(p)) /\ Cardinality(EntriesOf(p)) \in Nat
      /\ DOMAIN instances = 1..Len(instances)
  BY EntriesFinite
<1>3. Upto \in SUBSET EntriesOf(p)  OBVIOUS
<1>4. i \in Upto  BY <1>1, <1>2
<1>5. Place(i) = Cardinality(Upto)  BY <1>1 DEF Place
<1> HIDE DEF Upto
<1>6. IsFiniteSet(Upto) /\ Cardinality(Upto) <= Cardinality(EntriesOf(p))
  BY <1>2, <1>3, FS_Subset
<1>7. Cardinality(Upto) \in Nat /\ Cardinality(Upto) # 0
  BY <1>4, <1>6, FS_CardinalityType, FS_EmptySet
<1> QED  BY <1>2, <1>5, <1>6, <1>7

LEMMA BookNext ==
    ASSUME RegistryInv, CreationTypeOK, SignedInv, BookInv, [CreationNext]_creation_vars
    PROVE  BookInv'
<1>1. TypeOK  BY DEF RegistryInv, AuditInv
<1>2. CASE UNCHANGED <<instances, settings, opened>>
  <2>1. /\ \A q \in Programs : EntriesOf(q)' = EntriesOf(q)
        /\ \A q \in Programs : \A i : Listed(q, i)' = Listed(q, i)
    BY <1>2 DEF EntriesOf, Listed, Place
  <2> QED  BY <1>2, <2>1 DEF BookInv
<1>3. ASSUME NEW p \in Programs, NEW new \in SettingsType, Configured(p, new)
      PROVE  BookInv'
  <2>1. /\ settings' = [settings EXCEPT ![p] = new] /\ UNCHANGED <<instances, opened>>
        /\ \/ ~settings[p].initialized /\ new.count = 0
           \/ settings[p].initialized /\ new.count = settings[p].count
        /\ settings \in [Programs -> {NoSettings} \cup SettingsType]
    BY <1>3 DEF Configured, vars, CreationTypeOK
  <2>2. settings'[p] = new /\ \A q \in Programs : q # p => settings'[q] = settings[q]
    BY <2>1
  <2>3. new.initialized  BY DEF SettingsType
  <2>4. Len(<< >>) = 0  OBVIOUS
  <2>5. settings'[p].initialized /\ settings'[p].count = Len(opened[p])
    BY <2>1, <2>2, <2>3, <2>4 DEF BookInv
  <2>6. /\ \A q \in Programs : EntriesOf(q)' = EntriesOf(q)
        /\ \A q \in Programs : \A i : Listed(q, i)' = Listed(q, i)
    BY <2>1 DEF EntriesOf, Listed, Place
  <2> QED  BY <2>1, <2>2, <2>5, <2>6 DEF BookInv
<1>4. ASSUME NEW tx \in signed, NEW start \in Nat, NEW index \in Nat,
             Created(tx, start, index)
      PROVE  BookInv'
  <2>0. PICK last : last = Len(instances) + 1  OBVIOUS
  <2> DEFINE p == tx.program
             entry == [release |-> p, creator |-> tx.creator, index |-> index,
                       business_key |-> BusinessKey(p, tx.creator, index),
                       created_slot |-> now]
             account == Account(tx, start, index)
  <2> HIDE DEF entry, account
  <2>1. /\ p \in Programs /\ settings[p].initialized /\ settings[p] \in SettingsType
        /\ NextId(p) = settings[p].count + 1
        /\ settings'[p] = [settings[p] EXCEPT !.count = NextId(p)]
        /\ \A q \in Programs : q # p => settings'[q] = settings[q] /\ opened'[q] = opened[q]
        /\ Len(opened[p]) \in Nat /\ DOMAIN opened[p] = 1..Len(opened[p])
        /\ Len(opened'[p]) = Len(opened[p]) + 1
        /\ DOMAIN opened'[p] = 1..(Len(opened[p]) + 1)
        /\ \A i \in DOMAIN opened[p] : opened'[p][i] = opened[p][i]
        /\ opened'[p][Len(opened[p]) + 1] = account
    <3>1. /\ p \in Programs /\ settings[p].initialized /\ settings[p] \in SettingsType
          /\ NextId(p) = settings[p].count + 1
          /\ settings'[p] = [settings[p] EXCEPT !.count = NextId(p)]
          /\ \A q \in Programs : q # p => settings'[q] = settings[q]
      BY <1>4, CreatedState
    <3>2. Extended(p, account)  BY <1>4, CreatedState DEF account
    <3> QED  BY <3>1, <3>2 DEF Extended
  <2>2. /\ entry.release = p /\ entry.creator = account.creator
        /\ entry.index = account.index /\ entry.created_slot = account.created_at
        /\ account.id = NextId(p)
    BY DEF Account, account, entry
  <2>3. settings'[p].initialized /\ settings'[p].count = Len(opened'[p])
    <3>1. settings[p].count = Len(opened[p])  BY <2>1 DEF BookInv
    <3>2. /\ settings'[p].initialized = settings[p].initialized
          /\ settings'[p].count = settings[p].count + 1
      <4>1. /\ settings[p] \in SettingsType
            /\ settings'[p] = [settings[p] EXCEPT !.count = settings[p].count + 1]
        BY <2>1
      <4> QED  BY <4>1 DEF SettingsType
    <3> QED  BY <2>1, <3>1, <3>2
  <2>4. instances' = Append(instances, entry)
    BY <1>4 DEF Created, RecordInstance, entry
  <2>5. instances \in Seq(InstanceType)  BY <1>1 DEF TypeOK
  <2> HIDE DEF p
  <2>6. /\ Len(instances) \in Nat /\ DOMAIN instances = 1..Len(instances)
        /\ DOMAIN instances' = 1..last /\ instances'[last] = entry
        /\ \A i \in DOMAIN instances : instances'[i] = instances[i]
    BY <2>0, <2>4, <2>5
  <2>7. /\ EntriesOf(p)' = EntriesOf(p) \cup {last} /\ last \notin EntriesOf(p)
        /\ \A q \in Programs : q # p => EntriesOf(q)' = EntriesOf(q)
    BY <2>0, <2>2, <2>6 DEF EntriesOf
  <2>8. \A q : \A i \in EntriesOf(q) : i \in DOMAIN instances /\ instances[i].release = q
    BY DEF EntriesOf
  <2>9. Cardinality(EntriesOf(p)') = Len(opened'[p])
    <3>1. IsFiniteSet(EntriesOf(p))  BY <1>1, EntriesFinite
    <3>2. Cardinality(EntriesOf(p)) = Len(opened[p])  BY <2>1 DEF BookInv
    <3> QED  BY <2>1, <2>7, <3>1, <3>2, FS_AddElement
  <2>10. ASSUME NEW q \in Programs, NEW i \in EntriesOf(q)
         PROVE  Place(i)' = Place(i)
    <3>1. instances'[i].release = q /\ instances[i].release = q  BY <2>6, <2>8
    <3>2. {j \in EntriesOf(q)' : j <= i} = {j \in EntriesOf(q) : j <= i}
      <4>1. CASE q = p
        <5>1. i \in 1..Len(instances)  BY <2>6, <2>8
        <5>2. ~(last <= i)  BY <2>0, <2>6, <5>1
        <5> QED  BY <2>7, <4>1, <5>2
      <4>2. CASE q # p  BY <2>7, <4>2
      <4> QED  BY <4>1, <4>2
    <3> QED  BY <3>1, <3>2 DEF Place
  <2>11. Place(last)' = Len(opened[p]) + 1
    <3>1. instances'[last].release = p  BY <2>2, <2>6
    <3>2. \A j \in EntriesOf(p)' : j <= last
      BY <2>0, <2>6, <2>7, <2>8
    <3>3. {j \in EntriesOf(p)' : j <= last} = EntriesOf(p)'  BY <3>2
    <3>4. Place(last)' = Cardinality(EntriesOf(p)')  BY <3>1, <3>3 DEF Place
    <3> QED  BY <2>1, <2>9, <3>4
  <2>12. Listed(p, last)'
    BY <2>1, <2>2, <2>6, <2>11 DEF Listed
  <2>13. ASSUME NEW q \in Programs, NEW i \in EntriesOf(q)
         PROVE  Listed(q, i)'
    <3>1. Place(i)' = Place(i) /\ instances'[i] = instances[i]  BY <2>6, <2>8, <2>10
    <3>2. Listed(q, i)  BY DEF BookInv
    <3>3. opened'[q][Place(i)] = opened[q][Place(i)]
      <4>1. CASE q = p
        <5>1. Cardinality(EntriesOf(p)) = Len(opened[p])  BY <2>1 DEF BookInv
        <5>2. Place(i) \in 1..Cardinality(EntriesOf(p))  BY <1>1, <4>1, PlaceWithin
        <5> QED  BY <2>1, <4>1, <5>1, <5>2
      <4>2. CASE q # p  BY <2>1, <4>2
      <4> QED  BY <4>1, <4>2
    <3> QED  BY <3>1, <3>2, <3>3 DEF Listed
  <2>14. \A i \in DOMAIN opened'[p] : opened'[p][i].id = i
    <3>1. settings[p].count = Len(opened[p])  BY <2>1 DEF BookInv
    <3>2. opened'[p][Len(opened[p]) + 1].id = Len(opened[p]) + 1  BY <2>1, <2>2, <3>1
    <3>3. \A i \in DOMAIN opened[p] : opened'[p][i].id = i  BY <2>1 DEF BookInv
    <3>4. \A i \in DOMAIN opened'[p] : i \in DOMAIN opened[p] \/ i = Len(opened[p]) + 1
      BY <2>1
    <3> QED  BY <3>2, <3>3, <3>4
  <2> QED
    <3> SUFFICES ASSUME NEW q \in Programs
                 PROVE  /\ IF settings'[q].initialized
                           THEN settings'[q].count = Len(opened'[q]) ELSE opened'[q] = << >>
                        /\ \A i \in DOMAIN opened'[q] : opened'[q][i].id = i
                        /\ Cardinality(EntriesOf(q)') = Len(opened'[q])
                        /\ \A i \in EntriesOf(q)' : Listed(q, i)'
      BY DEF BookInv
    <3>1. CASE q = p  BY <2>3, <2>7, <2>9, <2>12, <2>13, <2>14, <3>1
    <3>2. CASE q # p
      <4>1. settings'[q] = settings[q] /\ opened'[q] = opened[q] /\ EntriesOf(q)' = EntriesOf(q)
        BY <2>1, <2>7, <3>2
      <4> QED  BY <2>13, <4>1 DEF BookInv
    <3> QED  BY <3>1, <3>2
<1>5. Administered => UNCHANGED <<instances, settings, opened>>
  BY DEF Administered, program_vars
<1>6. \A tx \in SignedType : Signed(tx) => UNCHANGED <<instances, settings, opened>>
  BY DEF Signed, vars
<1> QED  BY <1>2, <1>3, <1>4, <1>5, <1>6, CreationStepKinds

(***************************************************************************)
(* Every account holds its key in the registry, and no two hold the same;  *)
(* it was opened in the past, while the release was active.                *)
(***************************************************************************)
KeyOf(p, i) == BusinessKey(p, opened[p][i].creator, opened[p][i].index)

HoldsKey(p, i) ==
    /\ kind[p] = "daily" => opened[p][i].index = opened[p][i].start \div DayLength
    /\ KeyOf(p, i) \in business

AccountsInv ==
    /\ \A p \in Programs : \A i \in DOMAIN opened[p] :
          opened[p][i].created_at <= now /\ HoldsKey(p, i)
    /\ \A p, q \in Programs : \A i \in DOMAIN opened[p], j \in DOMAIN opened[q] :
          <<p, i>> # <<q, j>> => KeyOf(p, i) # KeyOf(q, j)
    /\ OpenedWhileActive

WhileActive(p, t) ==
    \E r \in RecordsOf(p) :
        /\ records[r].status = "active" /\ records[r].timestamp <= t
        /\ \A s \in RecordsOf(p) : s > r => records[s].timestamp >= t

\* the trail grows only at its end, so what it showed stays true
LEMMA StillWhileActive ==
    ASSUME RegistryInv, [RegistryStep]_vars, NEW p \in Programs, NEW t \in Nat,
           t <= now, WhileActive(p, t)
    PROVE  WhileActive(p, t)'
<1>1. /\ now \in Nat
      /\ \A i \in DOMAIN records : i \in DOMAIN records' /\ records'[i] = records[i]
      /\ \A i \in DOMAIN records' \ DOMAIN records : records'[i].timestamp = now
  BY RegistryNext
<1>2. PICK r \in RecordsOf(p) :
         /\ records[r].status = "active" /\ records[r].timestamp <= t
         /\ \A s \in RecordsOf(p) : s > r => records[s].timestamp >= t
  BY DEF WhileActive
<1>3. r \in RecordsOf(p)' /\ records'[r] = records[r]  BY <1>1, <1>2 DEF RecordsOf
<1>4. ASSUME NEW s \in RecordsOf(p)', s > r
      PROVE  records'[s].timestamp >= t
  <2>1. CASE s \in DOMAIN records
    <3>1. records'[s] = records[s]  BY <1>1, <2>1
    <3>2. s \in RecordsOf(p)  BY <2>1, <3>1 DEF RecordsOf
    <3> QED  BY <1>2, <1>4, <3>1, <3>2
  <2>2. CASE s \notin DOMAIN records  BY <1>1, <2>2 DEF RecordsOf
  <2> QED  BY <2>1, <2>2
<1> QED  BY <1>2, <1>3, <1>4 DEF WhileActive

LEMMA AccountsUntouched ==
    ASSUME RegistryInv, CreationTypeOK, AccountsInv, [RegistryStep]_vars,
           UNCHANGED <<kind, opened, business>>
    PROVE  AccountsInv'
<1>1. /\ now \in Nat /\ now' \in Nat /\ now' >= now
      /\ \A p \in Programs : /\ release'[p].domain = release[p].domain
                             /\ release'[p].series = release[p].series
  BY RegistryNext
<1>2. \A p \in Programs : \A i \in DOMAIN opened[p] :
         KeyOf(p, i)' = KeyOf(p, i) /\ HoldsKey(p, i)' = HoldsKey(p, i)
  BY <1>1 DEF KeyOf, HoldsKey, BusinessKey
<1>3. ASSUME NEW p \in Programs, NEW i \in DOMAIN opened[p]
      PROVE  opened[p][i].created_at <= now' /\ WhileActive(p, opened[p][i].created_at)'
  <2>1. opened[p][i] \in OpenedType  BY DEF CreationTypeOK
  <2>2. opened[p][i].created_at \in Nat  BY <2>1 DEF OpenedType
  <2>3. opened[p][i].created_at <= now  BY DEF AccountsInv
  <2>4. WhileActive(p, opened[p][i].created_at)
    BY DEF AccountsInv, OpenedWhileActive, WhileActive
  <2>5. PICK t \in Nat : t = opened[p][i].created_at  BY <2>2
  <2>6. t <= now /\ WhileActive(p, t)  BY <2>3, <2>4, <2>5
  <2>7. WhileActive(p, t)'  BY <2>6, StillWhileActive
  <2> QED  BY <1>1, <2>2, <2>3, <2>5, <2>7
<1>4. OpenedWhileActive'  BY <1>3 DEF OpenedWhileActive, WhileActive
<1> QED  BY <1>2, <1>3, <1>4 DEF AccountsInv

LEMMA AccountsCreated ==
    ASSUME RegistryInv, CreationTypeOK, SignedInv, AccountsInv,
           NEW tx \in signed, NEW start \in Nat, NEW index \in Nat, Created(tx, start, index)
    PROVE  AccountsInv'
<1> DEFINE p == tx.program
           account == Account(tx, start, index)
           key == BusinessKey(p, tx.creator, index)
<1>0. PICK last : last = Len(opened[p]) + 1  OBVIOUS
<1> HIDE DEF account
<1>1. /\ p \in Programs /\ release[p].status = "active"
      /\ \A q \in Programs : q # p => opened'[q] = opened[q]
      /\ [RegistryStep]_vars
      /\ UNCHANGED <<now, release, records, kind>>
  <2>1. /\ p \in Programs /\ release[p].status = "active"
        /\ \A q \in Programs : q # p => opened'[q] = opened[q]
    <3>1. p \in Programs /\ release[p].status = "active"  BY CreatedState
    <3>2. Extended(p, account)  BY CreatedState DEF account
    <3> QED  BY <3>1, <3>2 DEF Extended
  <2>2. [RegistryStep]_vars  BY CreatedState
  <2>3. UNCHANGED <<now, release, records, kind>>  BY CreatedState
  <2> QED  BY <2>1, <2>2, <2>3
<1>2. Extended(p, account)  BY CreatedState DEF account
<1>3. /\ kind[p] = "daily" => index = start \div DayLength
      /\ key \notin business /\ business' = business \cup {key}
  BY DEF Created, RecordInstance
<1>4. /\ account.creator = tx.creator /\ account.index = index
      /\ account.start = start /\ account.created_at = now
  BY DEF account, Account
<1>5. now \in Nat  BY RegistryAssumption DEF CreationTypeOK, TypeOK
<1> HIDE DEF p
<1>6. /\ DOMAIN opened'[p] = DOMAIN opened[p] \cup {last} /\ last \notin DOMAIN opened[p]
      /\ \A i \in DOMAIN opened[p] : opened'[p][i] = opened[p][i]
      /\ opened'[p][last] = account
  BY <1>0, <1>2 DEF Extended
<1>7. \A q \in Programs : \A i \in DOMAIN opened[q] :
         i \in DOMAIN opened'[q] /\ opened'[q][i] = opened[q][i]
  BY <1>1, <1>6
<1>8. \A q \in Programs : \A i \in DOMAIN opened'[q] :
         i \in DOMAIN opened[q] \/ (q = p /\ i = last)
  BY <1>1, <1>6
<1>9. \A q \in Programs : \A i \in DOMAIN opened[q] : KeyOf(q, i)' = KeyOf(q, i)
  BY <1>1, <1>7 DEF KeyOf, BusinessKey
<1>10. KeyOf(p, last)' = key  BY <1>1, <1>4, <1>6 DEF KeyOf, BusinessKey, key
<1> HIDE DEF key
<1>11. HoldsKey(p, last)'  BY <1>1, <1>3, <1>4, <1>6, <1>10 DEF HoldsKey
<1>12. \A q \in Programs : \A i \in DOMAIN opened[q] : HoldsKey(q, i)'
  BY <1>1, <1>3, <1>7, <1>9 DEF AccountsInv, HoldsKey
<1>13. \A q \in Programs : \A i \in DOMAIN opened'[q] :
          opened'[q][i].created_at <= now' /\ HoldsKey(q, i)'
  BY <1>1, <1>4, <1>5, <1>6, <1>7, <1>8, <1>11, <1>12 DEF AccountsInv
<1>14. \A q \in Programs : \A i \in DOMAIN opened[q] : KeyOf(q, i) # key
  BY <1>3 DEF AccountsInv, HoldsKey
<1>15. ASSUME NEW q \in Programs, NEW r \in Programs,
              NEW i \in DOMAIN opened'[q], NEW j \in DOMAIN opened'[r], <<q, i>> # <<r, j>>
       PROVE  KeyOf(q, i)' # KeyOf(r, j)'
  <2>1. CASE i \in DOMAIN opened[q] /\ j \in DOMAIN opened[r]
    BY <1>9, <1>15, <2>1 DEF AccountsInv
  <2>2. CASE i \in DOMAIN opened[q] /\ r = p /\ j = last
    BY <1>9, <1>10, <1>14, <2>2
  <2>3. CASE q = p /\ i = last /\ j \in DOMAIN opened[r]
    BY <1>9, <1>10, <1>14, <2>3
  <2>4. CASE q = p /\ i = last /\ r = p /\ j = last  BY <1>15, <2>4
  <2> QED  BY <1>8, <2>1, <2>2, <2>3, <2>4
<1>16. ASSUME NEW q \in Programs, NEW i \in DOMAIN opened'[q]
       PROVE  WhileActive(q, opened'[q][i].created_at)
  <2>1. CASE i \in DOMAIN opened[q]
    BY <1>7, <2>1 DEF AccountsInv, OpenedWhileActive, WhileActive
  <2>2. CASE q = p /\ i = last
    <3>1. PICK r \in RecordsOf(p) :
             /\ records[r].status = "active" /\ records[r].timestamp <= now
             /\ \A s \in RecordsOf(p) : s <= r
      BY <1>1, ActiveOnRecord
    <3>2. \A s \in RecordsOf(p) : s \in Nat
      BY DEF CreationTypeOK, TypeOK, RecordsOf
    <3>3. \A s \in RecordsOf(p) : ~(s > r)  BY <3>1, <3>2
    <3>4. WhileActive(p, now)  BY <3>1, <3>3 DEF WhileActive
    <3> QED  BY <1>4, <1>6, <2>2, <3>4
  <2> QED  BY <1>8, <2>1, <2>2
<1>17. OpenedWhileActive'
  <2>1. \A q : RecordsOf(q)' = RecordsOf(q)  BY <1>1 DEF RecordsOf
  <2> QED  BY <1>1, <1>16, <2>1 DEF OpenedWhileActive, WhileActive
<1> QED  BY <1>13, <1>15, <1>17 DEF AccountsInv

(***************************************************************************)
(* The invariant.                                                          *)
(***************************************************************************)
CreationInv ==
    RegistryInv /\ CreationTypeOK /\ SignedInv /\ BookInv /\ AccountsInv

LEMMA CreationInvInit == CreationInit => CreationInv
<1> SUFFICES ASSUME CreationInit  PROVE CreationInv
  OBVIOUS
<1>1. /\ settings = [p \in Programs |-> NoSettings]
      /\ signed = {} /\ opened = [p \in Programs |-> << >>]
      /\ instances = << >>
      /\ \E d \in Domains : kind = [p \in Programs |-> d]
  BY DEF CreationInit
<1>2. RegistryInv  BY RegistryInit
<1>3. \A p \in Programs : /\ opened[p] = << >> /\ DOMAIN opened[p] = {}
                          /\ Len(opened[p]) = 0
                          /\ ~settings[p].initialized /\ EntriesOf(p) = {}
  BY <1>1 DEF NoSettings, EntriesOf
<1>4. opened \in [Programs -> Seq(OpenedType)]
  <2>1. << >> \in Seq(OpenedType)  OBVIOUS
  <2> QED  BY <1>1, <2>1
<1>5. CreationTypeOK
  BY <1>1, <1>2, <1>3, <1>4 DEF CreationTypeOK, RegistryInv, AuditInv
<1>6. SignedInv  BY <1>1 DEF SignedInv
<1>7. BookInv  BY <1>3, FS_EmptySet DEF BookInv
<1>8. AccountsInv  BY <1>3 DEF AccountsInv, OpenedWhileActive
<1> QED  BY <1>2, <1>5, <1>6, <1>7, <1>8 DEF CreationInv

LEMMA CreationInvNext ==
    ASSUME CreationInv, [CreationNext]_creation_vars
    PROVE  CreationInv'
<1>1. RegistryInv /\ CreationTypeOK /\ SignedInv /\ BookInv /\ AccountsInv
  BY DEF CreationInv
<1>2. CreationTypeOK' /\ SignedInv' /\ [RegistryStep]_vars  BY <1>1, CreationTypeNext
<1>3. RegistryInv'  BY <1>1, <1>2, RegistryNext
<1>4. BookInv'  BY <1>1, BookNext
<1>5. ASSUME UNCHANGED <<kind, opened, business>>
      PROVE  AccountsInv'
  BY <1>1, <1>2, <1>5, AccountsUntouched
<1>6. ASSUME NEW tx \in signed, NEW start \in Nat, NEW index \in Nat,
             Created(tx, start, index)
      PROVE  AccountsInv'
  BY <1>1, <1>6, AccountsCreated
<1>7. \/ UNCHANGED <<kind, opened, business>>
      \/ \E tx \in signed, start, index \in Nat : Created(tx, start, index)
  BY <1>1, CreationStepKinds DEF Administered, Configured, Signed, program_vars, vars
<1>8. AccountsInv'  BY <1>5, <1>6, <1>7
<1> QED  BY <1>2, <1>3, <1>4, <1>8 DEF CreationInv

LEMMA CreationInvAlways == CreationSpec => []CreationInv
<1>1. CreationInv /\ [CreationNext]_creation_vars => CreationInv'  BY CreationInvNext
<1> QED  BY <1>1, CreationInvInit, PTL DEF CreationSpec

(* A program opens nothing before it is bound, and is bound only to a release
   registered for what the program is. *)
THEOREM CreationTypeCorrect == CreationSpec => []CreationTypeOK
<1>1. CreationInv => CreationTypeOK  BY DEF CreationInv
<1> QED  BY <1>1, CreationInvAlways, PTL

(* The accounts a program opened, its counter and the registry's entries for
   its release always agree, in number and in order. *)
THEOREM InventoriesAgree == CreationSpec => []InventoryComplete
<1>1. CreationTypeOK /\ BookInv => InventoryComplete
  BY DEF CreationTypeOK, BookInv, Listed, InventoryComplete
<1> QED  BY <1>1, CreationInvAlways, PTL DEF CreationInv

(* However long before a creation was signed, it runs only while the trail of
   records shows its release active. *)
THEOREM OpenedOnlyWhileActive == CreationSpec => []OpenedWhileActive
<1>1. CreationInv => OpenedWhileActive  BY DEF CreationInv, AccountsInv
<1> QED  BY <1>1, CreationInvAlways, PTL

(* No two daily lotteries of a series start on the same day and no creator
   opens two giveaways with one nonce, across all releases: their accounts
   would hold the same key of the registry. *)
THEOREM OneADay == CreationSpec => []OneOpeningPerDay
<1>1. CreationTypeOK /\ AccountsInv => OneOpeningPerDay
  <2> SUFFICES ASSUME CreationTypeOK, AccountsInv, NEW p \in Programs, NEW q \in Programs,
                      NEW i \in DOMAIN opened[p], NEW j \in DOMAIN opened[q],
                      <<p, i>> # <<q, j>>, kind[p] = kind[q]
               PROVE  IF kind[p] = "daily"
                      THEN release[p].series = release[q].series
                              => opened[p][i].start \div DayLength
                                     # opened[q][j].start \div DayLength
                      ELSE opened[p][i].creator = opened[q][j].creator
                              => opened[p][i].index # opened[q][j].index
    BY DEF OneOpeningPerDay
  <2>1. opened[p] # << >> /\ opened[q] # << >>  OBVIOUS
  <2>2. release[p].domain = kind[p] /\ release[q].domain = kind[q]
    BY <2>1 DEF CreationTypeOK
  <2>3. KeyOf(p, i) # KeyOf(q, j)  BY DEF AccountsInv
  <2>4. CASE kind[p] = "daily"
    <3>1. /\ opened[p][i].index = opened[p][i].start \div DayLength
          /\ opened[q][j].index = opened[q][j].start \div DayLength
      BY <2>4 DEF AccountsInv, HoldsKey
    <3> QED  BY <2>2, <2>3, <2>4, <3>1 DEF KeyOf, BusinessKey
  <2>5. CASE kind[p] # "daily"  BY <2>2, <2>3, <2>5 DEF KeyOf, BusinessKey
  <2> QED  BY <2>4, <2>5
<1> QED  BY <1>1, CreationInvAlways, PTL DEF CreationInv

(* A checked creation opens its instance under the authority and the charge
   its signer was shown, whatever was changed between signing and running. *)
THEOREM QuotesHonoured == CreationSpec => QuotedTermsHonoured
<1>1. ASSUME CreationInv, [CreationNext]_creation_vars
      PROVE  QuotedTerms
  <2>1. RegistryInv /\ CreationTypeOK /\ SignedInv  BY <1>1 DEF CreationInv
  <2>2. CASE UNCHANGED opened  BY <2>2 DEF QuotedTerms
  <2>3. ASSUME NEW tx \in signed, NEW start \in Nat, NEW index \in Nat,
               Created(tx, start, index)
        PROVE  QuotedTerms
    <3> DEFINE p == tx.program
               account == Account(tx, start, index)
    <3> HIDE DEF account
    <3>1. Extended(p, account)  BY <2>1, <2>3, CreatedState DEF account
    <3>2. Agrees(tx) /\ signed' = signed \ {tx}  BY <2>3 DEF Created
    <3>3. account.creator = tx.creator
      BY DEF account, Account
    <3>4. tx.quote # NoQuote =>
             account.authority = tx.quote.authority /\ account.fee = tx.quote.fee
      BY <3>2 DEF Agrees, Preset, account, Account
    <3> HIDE DEF p
    <3>5. ASSUME NEW q \in Programs, NEW i \in DOMAIN opened'[q] \ DOMAIN opened[q]
          PROVE  q = p /\ opened'[q][i] = account
      BY <3>1 DEF Extended
    <3>6. tx \in signed \ signed' /\ tx.program = p  BY <3>2 DEF p
    <3> QED  BY <3>3, <3>4, <3>5, <3>6 DEF QuotedTerms
  <2> QED
    BY <1>1, <2>1, <2>2, <2>3, CreationStepKinds
       DEF Administered, Configured, Signed, program_vars
<1>2. CreationInv /\ [CreationNext]_creation_vars => [QuotedTerms]_creation_vars  BY <1>1
<1> QED  BY <1>2, CreationInvAlways, PTL DEF CreationSpec, QuotedTermsHonoured
===============================================================================
