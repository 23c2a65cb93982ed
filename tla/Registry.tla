------------------------------- MODULE Registry -------------------------------
(***************************************************************************)
(* The release registry (programs/registry/src/lib.rs): which program      *)
(* releases may create instances, the trail of decisions about them, and   *)
(* the inventory of the instances they created.                            *)
(*                                                                         *)
(* One registry namespace.  Transactions are atomic and an error is a      *)
(* disabled action.  Left abstract: account derivation, the wording of     *)
(* reasons, source hashes and rules hashes.  A binary is named by the hash *)
(* of its code; the loader, which lets a program's owner replace the code  *)
(* until it gives that right up, is not in the repository.                 *)
(***************************************************************************)
EXTENDS Integers, Sequences, FiniteSets

CONSTANTS
    Programs,         \* program ids a release may be registered for
    NoProgram,        \* stands for [0; 32], no successor
    Series,           \* series of releases
    Hashes,           \* hashes of program binaries
    Creators,         \* wallets that sign a creation
    Authority,        \* config.authority
    Guardian,         \* config.guardian
    ActivationDelay,  \* config.activation_delay
    MaxIndex,         \* bound: days and nonces are 1 .. MaxIndex
    MaxRecords,       \* bound: lifecycle records
    MaxInstances,     \* bound: inventory entries
    Horizon           \* bound: the last clock reading

Domains == {"daily", "giveaway"}

ASSUME RegistryAssumption == /\ NoProgram \notin Programs
                             /\ ActivationDelay \in Nat \ {0}
                             /\ MaxIndex \in Nat
                             /\ Horizon \in Nat \ {0}

VARIABLES
    now,         \* Clock::get()?.unix_timestamp
    config,      \* the Config account
    release,     \* the Release account of each program
    records,     \* the Record accounts by sequence
    instances,   \* the Instance accounts by sequence
    business,    \* the keys of the BusinessKey accounts
    code,        \* what the loader runs for each program
    registry_immutable   \* whether the registry's own code is fixed

vars == <<now, config, release, records, instances, business, code,
          registry_immutable>>

loader == <<code, registry_immutable>>

NoRelease == [status |-> "none"]

Registered == {p \in Programs : release[p].status # "none"}

Init ==
    /\ now = 1
    /\ config = [initialized |-> FALSE, release_count |-> 0,
                 record_count |-> 0, instance_count |-> 0]
    /\ release = [p \in Programs |-> NoRelease]
    /\ records = << >> /\ instances = << >> /\ business = {}
    /\ code \in [Programs -> [hash: Hashes, immutable: {FALSE}]]
    /\ registry_immutable = FALSE

(***************************************************************************)
(* Initialize, once for the namespace.                                     *)
(***************************************************************************)
Initialize ==
    /\ ~config.initialized
    /\ config' = [config EXCEPT !.initialized = TRUE]
    /\ UNCHANGED <<now, release, records, instances, business, loader>>

\* mutant: sequences start over with every release
NextSequence_Constant == 1

NextSequence == config.release_count + 1

(***************************************************************************)
(* Register: the authority announces a release of a program; one for each. *)
(***************************************************************************)
Register(p, domain, series, hash) ==
    /\ config.initialized
    /\ release[p].status = "none"
    /\ config' = [config EXCEPT !.release_count = @ + 1]
    /\ release' = [release EXCEPT ![p] =
          [status |-> "registered", domain |-> domain, series |-> series,
           executable_hash |-> hash, sequence |-> NextSequence,
           registered_slot |-> now, eligible_at |-> now + ActivationDelay,
           successor |-> NoProgram]]
    /\ UNCHANGED <<now, records, instances, business, loader>>

\* mutant: the record is taken before the release is changed
Recorded_Before(p, actor) ==
    Append(records, [release |-> p, actor |-> actor, status |-> release[p].status,
                     successor |-> release[p].successor, timestamp |-> now])

(***************************************************************************)
(* Every lifecycle instruction ends by appending a record of the release   *)
(* as it then is.                                                          *)
(***************************************************************************)
Recorded(p, actor) ==
    Append(records, [release |-> p, actor |-> actor, status |-> release'[p].status,
                     successor |-> release'[p].successor, timestamp |-> now])

Lifecycle(p, actor, changed) ==
    /\ config.initialized
    /\ config.record_count < MaxRecords
    /\ release' = [release EXCEPT ![p] = changed]
    /\ records' = Recorded(p, actor)
    /\ config' = [config EXCEPT !.record_count = @ + 1]
    /\ UNCHANGED <<now, instances, business, loader>>

\* mutant: whether the target's code can still be replaced is not looked at
CodeFixed_HashOnly(p) ==
    code[p].hash = release[p].executable_hash /\ registry_immutable

\* require_immutable, of the target and of the registry, and the hash match
CodeFixed(p) ==
    /\ code[p].immutable
    /\ code[p].hash = release[p].executable_hash
    /\ registry_immutable

\* mutant: anything that is not active can be activated
Activatable_NotActive(p) == release[p].status \notin {"none", "active"}

Activatable(p) == release[p].status \in {"registered", "paused"}

Activate(p, actor) ==
    /\ actor = Authority
    /\ Activatable(p)
    /\ now >= release[p].eligible_at
    /\ CodeFixed(p)
    /\ Lifecycle(p, actor, [release[p] EXCEPT !.status = "active"])

\* mutant: resuming needs no further notice
Paused_NoDelay(rel) == [rel EXCEPT !.status = "paused"]

Paused(rel) == [rel EXCEPT !.status = "paused", !.eligible_at = now + ActivationDelay]

Pause(p, actor) ==
    /\ actor \in {Authority, Guardian}
    /\ release[p].status = "active"
    /\ Lifecycle(p, actor, Paused(release[p]))

Discontinue(p, actor) ==
    /\ actor \in {Authority, Guardian}
    /\ release[p].status \notin {"none", "discontinued"}
    /\ Lifecycle(p, actor, [release[p] EXCEPT !.status = "discontinued"])

\* mutant: the successor's sequence is not looked at
MaySucceed_AnyOrder(p, q) ==
    q \in Registered /\ release[q].domain = release[p].domain
        /\ release[q].series = release[p].series

MaySucceed(p, q) ==
    /\ q \in Registered
    /\ release[q].sequence > release[p].sequence
    /\ release[q].domain = release[p].domain
    /\ release[q].series = release[p].series

SetSuccessor(p, actor, q) ==
    /\ actor = Authority
    /\ release[p].status = "discontinued"
    /\ MaySucceed(p, q)
    /\ Lifecycle(p, actor, [release[p] EXCEPT !.successor = q])

\* mutant: each release has its own days and nonces
BusinessKey_PerRelease(p, creator, index) == <<p, creator, index>>

(***************************************************************************)
(* RecordInstance: called by an active release's own program inside the    *)
(* transaction that creates an instance.  The business key is taken for    *)
(* good: a day of a series, or a nonce of a giveaway creator.              *)
(***************************************************************************)
BusinessKey(p, creator, index) ==
    IF release[p].domain = "daily" THEN <<"daily", release[p].series, index>>
    ELSE <<"giveaway", creator, index>>

\* mutant: any release that was not discontinued may still record
Recordable_Registered(p) == release[p].status \in {"registered", "active", "paused"}

Recordable(p) == release[p].status = "active"

RecordInstance(p, creator, index) ==
    /\ config.initialized
    /\ Recordable(p)
    /\ BusinessKey(p, creator, index) \notin business
    /\ config.instance_count < MaxInstances
    /\ config' = [config EXCEPT !.instance_count = @ + 1]
    /\ business' = business \cup {BusinessKey(p, creator, index)}
    /\ instances' = Append(instances,
          [release |-> p, creator |-> creator, index |-> index,
           business_key |-> BusinessKey(p, creator, index), created_slot |-> now])
    /\ UNCHANGED <<now, release, records, loader>>

(***************************************************************************)
(* The loader, and time.                                                   *)
(***************************************************************************)
Upgrade(p, hash) ==
    /\ ~code[p].immutable
    /\ code[p].hash # hash
    /\ code' = [code EXCEPT ![p].hash = hash]
    /\ UNCHANGED <<now, config, release, records, instances, business, registry_immutable>>

Freeze(p) ==
    /\ ~code[p].immutable
    /\ code' = [code EXCEPT ![p].immutable = TRUE]
    /\ UNCHANGED <<now, config, release, records, instances, business, registry_immutable>>

FreezeRegistry ==
    /\ ~registry_immutable
    /\ registry_immutable' = TRUE
    /\ UNCHANGED <<now, config, release, records, instances, business, code>>

Tick ==
    /\ now < Horizon
    /\ now' = now + 1
    /\ UNCHANGED <<config, release, records, instances, business, loader>>

Actors == {Authority, Guardian}

Next ==
    \/ Tick
    \/ Initialize
    \/ \E p \in Programs, d \in Domains, s \in Series, h \in Hashes : Register(p, d, s, h)
    \/ \E p \in Programs, a \in Actors : Activate(p, a)
    \/ \E p \in Programs, a \in Actors : Pause(p, a)
    \/ \E p \in Programs, a \in Actors : Discontinue(p, a)
    \/ \E p, q \in Programs, a \in Actors : SetSuccessor(p, a, q)
    \/ \E p \in Programs, c \in Creators, i \in 1..MaxIndex : RecordInstance(p, c, i)
    \/ \E p \in Programs, h \in Hashes : Upgrade(p, h)
    \/ \E p \in Programs : Freeze(p)
    \/ FreezeRegistry

Spec == Init /\ [][Next]_vars

------------------------------------------------------------------------------
(***************************************************************************)
(* Properties.                                                             *)
(***************************************************************************)
Statuses == {"registered", "active", "paused", "discontinued"}

ReleaseType ==
    [status: Statuses, domain: Domains, series: Series, executable_hash: Hashes,
     sequence: Nat, registered_slot: Nat, eligible_at: Nat,
     successor: Programs \cup {NoProgram}]

RecordType ==
    [release: Programs, actor: Actors, status: Statuses,
     successor: Programs \cup {NoProgram}, timestamp: Nat]

InstanceType ==
    [release: Programs, creator: Creators, index: Nat, business_key: business,
     created_slot: Nat]

(* The type invariant: a registered release has all fields of the Release
   account and a sequence number of its own, up to release_count. *)
TypeOK ==
    /\ now \in 1..Horizon
    /\ config \in [initialized: BOOLEAN, release_count: Nat,
                   record_count: Nat, instance_count: Nat]
    /\ release \in [Programs -> {NoRelease} \cup ReleaseType]
    /\ \A p \in Registered : release[p].sequence <= config.release_count
    /\ \A p, q \in Registered : p # q => release[p].sequence # release[q].sequence
    /\ records \in Seq(RecordType)
    /\ instances \in Seq(InstanceType)
    /\ code \in [Programs -> [hash: Hashes, immutable: BOOLEAN]]
    /\ registry_immutable \in BOOLEAN

(* ActiveIsAudited: at any time, not only when it was activated, an active
   release runs exactly the registered binary, and neither it nor the
   registry that vouches for it can be replaced. *)
ActiveIsAudited ==
    \A p \in Registered : release[p].status = "active" =>
        /\ code[p] = [hash |-> release[p].executable_hash, immutable |-> TRUE]
        /\ registry_immutable

(* TrailTellsAll: the append-only records alone give the state of every
   release: its status and successor are those of its last record, and a
   release without records is as it was registered. *)
RecordsOf(p) == {i \in DOMAIN records : records[i].release = p}

TrailTellsAll ==
    \A p \in Registered :
        IF RecordsOf(p) = {}
        THEN release[p].status = "registered" /\ release[p].successor = NoProgram
        ELSE LET last == CHOOSE i \in RecordsOf(p) : \A j \in RecordsOf(p) : j <= i
             IN  /\ records[last].status = release[p].status
                 /\ records[last].successor = release[p].successor

(* NoticeGiven: no release is activated, or resumed by any interleaving of
   pauses and activations, within the activation delay of its registration
   or of any earlier pause. *)
NoticeGiven ==
    \A i \in DOMAIN records : records[i].status = "active" =>
        /\ records[i].timestamp >= release[records[i].release].registered_slot + ActivationDelay
        /\ \A j \in 1..(i - 1) :
              records[j].release = records[i].release /\ records[j].status = "paused"
                  => records[i].timestamp >= records[j].timestamp + ActivationDelay

(* SuccessorsEnd: however successors are set and corrected, following them
   from any release ends: no set of releases is closed under succession. *)
SuccessorsEnd ==
    \A S \in SUBSET Registered :
        S # {} => \E p \in S : release[p].successor \notin S

(* OnePerBusinessKey: no two releases of a series, whichever is active when,
   open an instance for the same day, and no giveaway creator uses a nonce
   twice, in one release or across releases. *)
OnePerBusinessKey ==
    \A i, j \in DOMAIN instances :
        LET a == instances[i]
            b == instances[j]
            ra == release[a.release]
            rb == release[b.release]
        IN  i # j /\ ra.domain = rb.domain /\ a.index = b.index =>
                IF ra.domain = "daily" THEN ra.series # rb.series
                ELSE a.creator # b.creator

(* DiscontinuedForGood: a discontinued release stays discontinued, and no
   instance is added to it. *)
DiscontinuedKept ==
    \A p \in Registered : release[p].status = "discontinued" =>
        /\ release'[p].status = "discontinued"
        /\ \A i \in DOMAIN instances' : instances'[i].release = p => i \in DOMAIN instances

DiscontinuedForGood == [][DiscontinuedKept]_vars
==============================================================================
