------------------------------- MODULE Creation -------------------------------
(***************************************************************************)
(* How instances come to be: the configuration of each program release,    *)
(* its binding to the release registry, and the creation of lotteries and  *)
(* giveaways from transactions that were signed earlier and run later.     *)
(*                                                                         *)
(* Sources: daily-lottery-v1 initialize.rs, update_service_charge.rs,      *)
(* registry.rs, create_lottery.rs, state/config.rs, and the files of the   *)
(* same names of giveaways-v1 (create_giveaway.rs).  The registry is the   *)
(* module Registry; its RecordInstance is the inner call of a creation,    *)
(* so both take effect or neither does.                                    *)
(*                                                                         *)
(* The settings that never change after initialize (ticket price, windows, *)
(* cap) and a giveaway's payout, winners and schedule have no part in what *)
(* is stated here and are left out, with the checks of their ranges; of a  *)
(* schedule the start is kept.  The releases are registered and their code *)
(* is fixed from the start: what may happen before is in Registry.         *)
(***************************************************************************)
EXTENDS Registry

CONSTANTS
    Fees,            \* service charges the programs accept
    FeeUpdates,      \* daily builds with the feature allow-service-charge-update
    DayLength,       \* 86 400 seconds, in clock readings
    NoStart,         \* CreateLottery without a buy start
    NoQuote,         \* a creation without an expected hash
    MaxSigned        \* bound: creations signed and not yet run

ASSUME CreationAssumption == /\ IsFiniteSet(Programs)
                             /\ FeeUpdates \in BOOLEAN
                             /\ DayLength \in Nat \ {0}
                             /\ NoStart \notin Nat
                             /\ MaxSigned \in Nat

VARIABLES
    kind,        \* which of the two programs each program id runs
    settings,    \* the Config account of each program
    signed,      \* creations signed by a wallet, not yet run
    opened       \* the Lottery or Giveaway accounts of each program, by id

program_vars == <<kind, settings, signed, opened>>

creation_vars == <<vars, program_vars>>

NoSettings == [initialized |-> FALSE]

\* the state after Register of every program, for the right domain or the other
Announced(domain, series, hash, sequence) ==
    [status |-> "registered", domain |-> domain, series |-> series,
     executable_hash |-> hash, sequence |-> sequence, registered_slot |-> 1,
     eligible_at |-> 1 + ActivationDelay, successor |-> NoProgram]

Orders == {o \in [Programs -> 1..Cardinality(Programs)] :
             \A p, q \in Programs : p # q => o[p] # o[q]}

CreationInit ==
    /\ now = 1
    /\ config = [initialized |-> TRUE, release_count |-> Cardinality(Programs),
                 record_count |-> 0, instance_count |-> 0]
    /\ \E d \in [Programs -> Domains], s \in [Programs -> Series],
          h \in [Programs -> Hashes], o \in Orders :
          release = [p \in Programs |-> Announced(d[p], s[p], h[p], o[p])]
    /\ records = << >> /\ instances = << >> /\ business = {}
    /\ code \in [Programs -> [hash: Hashes, immutable: {TRUE}]]
    /\ registry_immutable = TRUE
    /\ \E d \in Domains : kind = [p \in Programs |-> d]
    /\ settings = [p \in Programs |-> NoSettings]
    /\ signed = {}
    /\ opened = [p \in Programs |-> << >>]

(***************************************************************************)
(* Initialize: whoever signs first is the authority.  A second call leaves *)
(* the daily program's account as it is and is refused by the giveaways.   *)
(***************************************************************************)
InitializeProgram(p, wallet, fee) ==
    /\ ~settings[p].initialized
    /\ settings' = [settings EXCEPT ![p] =
          [initialized |-> TRUE, authority |-> wallet, fee |-> fee,
           count |-> 0, bound |-> FALSE]]
    /\ UNCHANGED <<vars, kind, signed, opened>>

UpdateServiceCharge(p, wallet, fee) ==
    /\ kind[p] = "giveaway" \/ FeeUpdates
    /\ settings[p].initialized
    /\ wallet = settings[p].authority
    /\ settings' = [settings EXCEPT ![p].fee = fee]
    /\ UNCHANGED <<vars, kind, signed, opened>>

\* mutant: any release of this program will do
Validated_AnyDomain(p) == release[p].status # "none"

\* validate_registry: this program's release exists, for what the program is
Validated(p) == release[p].status # "none" /\ release[p].domain = kind[p]

BindRegistry(p, wallet) ==
    /\ settings[p].initialized
    /\ wallet = settings[p].authority
    /\ ~settings[p].bound /\ settings[p].count = 0
    /\ Validated(p)
    /\ settings' = [settings EXCEPT ![p].bound = TRUE]
    /\ UNCHANGED <<vars, kind, signed, opened>>

(***************************************************************************)
(* A wallet signs a creation from the Config account it reads, once that   *)
(* names a registry (no creation can succeed before): a giveaway           *)
(* takes the id that is then the next; a checked creation carries the hash *)
(* of the configuration it was offered.  The wallet of a lottery is the    *)
(* authority, which never changes: any other signature is always refused.  *)
(***************************************************************************)
Preset(p) == [authority |-> settings[p].authority, fee |-> settings[p].fee]

\* mutant: ids are those of the registry's inventory
NextId_Inventory(p) == config.instance_count + 1

NextId(p) == settings[p].count + 1

SignCreation(p, wallet, start, nonce, quote) ==
    /\ settings[p].initialized /\ settings[p].bound
    /\ Cardinality(signed) < MaxSigned
    /\ start = NoStart => kind[p] = "daily" /\ quote = NoQuote
    /\ kind[p] = "daily" => wallet = settings[p].authority /\ nonce = 1
    /\ signed' = signed \cup
          {[program |-> p, creator |-> wallet, start |-> start, id |-> IF kind[p] = "daily" THEN 0 ELSE NextId(p),
            nonce |-> nonce, quote |-> quote]}
    /\ UNCHANGED <<vars, kind, settings, opened>>

\* mutant: only who runs the program is compared
Agrees_AuthorityOnly(tx) ==
    tx.quote \in {NoQuote} \cup {[Preset(tx.program) EXCEPT !.fee = f] : f \in Fees}

\* the expected hash, if one was signed, is that of the configuration now
Agrees(tx) == tx.quote \in {NoQuote, Preset(tx.program)}

(***************************************************************************)
(* record: the registry's inner call, an error of which fails the creation *)
(***************************************************************************)
InRegistry(p, creator, index) ==
    settings[p].bound /\ Validated(p) /\ RecordInstance(p, creator, index)

Opens(tx, start, index) ==
    LET p == tx.program
    IN  /\ start >= now
        /\ Agrees(tx)
        /\ InRegistry(p, tx.creator, index)
        /\ opened' = [opened EXCEPT ![p] = Append(@,
              [id |-> NextId(p), creator |-> tx.creator, authority |-> settings[p].authority,
               fee |-> settings[p].fee, start |-> start, index |-> index, created_at |-> now])]
        /\ settings' = [settings EXCEPT ![p].count = NextId(p)]
        /\ signed' = signed \ {tx}
        /\ UNCHANGED kind

\* mutant: the key is the start itself
DayOf_Start(start) == start

DayOf(start) == start \div DayLength

CreateLottery(tx) ==
    LET start == IF tx.start = NoStart THEN now ELSE tx.start
    IN  /\ kind[tx.program] = "daily"
        /\ tx.creator = settings[tx.program].authority
        /\ Opens(tx, start, DayOf(start))

CreateGiveaway(tx) ==
    /\ kind[tx.program] = "giveaway"
    /\ tx.id = NextId(tx.program)
    /\ Opens(tx, tx.start, tx.nonce)

\* bound: a giveaway starts at the horizon, a lottery on any reading
Starts(p) == IF kind[p] = "daily" THEN {NoStart} \cup now..Horizon ELSE {Horizon}

\* bound: nonces are only compared, so a creator's are numbered in the order of use:
\* one it has used before, or the next
Nonces(w) == 1..(1 + Cardinality({i \in DOMAIN instances : instances[i].creator = w}))

CreationNext ==
    \/ Tick /\ UNCHANGED program_vars
    \/ \E p \in Programs : Activate(p, Authority) /\ UNCHANGED program_vars
    \/ \E p \in Programs : Pause(p, Guardian) /\ UNCHANGED program_vars
    \/ \E p \in Programs : Discontinue(p, Guardian) /\ UNCHANGED program_vars
    \/ \E p \in Programs, w \in Creators, f \in Fees : InitializeProgram(p, w, f)
    \/ \E p \in Programs, w \in Creators, f \in Fees : UpdateServiceCharge(p, w, f)
    \/ \E p \in Programs, w \in Creators : BindRegistry(p, w)
    \/ \E p \in {q \in Programs : settings[q].initialized} :
          \E w \in Creators, t \in Starts(p), q \in {NoQuote, Preset(p)} :
             \E n \in Nonces(w) : SignCreation(p, w, t, n, q)
    \/ \E tx \in signed : CreateLottery(tx)
    \/ \E tx \in signed : CreateGiveaway(tx)

CreationSpec == CreationInit /\ [][CreationNext]_creation_vars

------------------------------------------------------------------------------
(***************************************************************************)
(* Properties.                                                             *)
(***************************************************************************)
SettingsType ==
    [initialized: {TRUE}, authority: Creators, fee: Fees, count: Nat, bound: BOOLEAN]

QuoteType == [authority: Creators, fee: Fees]

SignedType ==
    [program: Programs, creator: Creators, start: Nat \cup {NoStart}, id: Nat,
     nonce: Nat, quote: QuoteType \cup {NoQuote}]

OpenedType ==
    [id: Nat, creator: Creators, authority: Creators, fee: Fees, start: Nat,
     index: Nat, created_at: Nat]

(* The type invariant, the registry's included: only a bound program has
   opened anything, and a program is bound to a release of its own kind. *)
CreationTypeOK ==
    /\ TypeOK
    /\ kind \in [Programs -> Domains]
    /\ settings \in [Programs -> {NoSettings} \cup SettingsType]
    /\ signed \subseteq SignedType
    /\ opened \in [Programs -> Seq(OpenedType)]
    /\ \A p \in Programs : opened[p] # << >> => settings[p].initialized /\ settings[p].bound
    /\ \A p \in Programs : settings[p].initialized /\ settings[p].bound
                                => release[p].domain = kind[p]

(* InventoryComplete: creation is all or nothing.  The accounts a program has
   opened have the ids 1, 2, ... up to its counter, and the registry's entries
   for its release name the same instances in the same order. *)
EntriesOf(p) == {i \in DOMAIN instances : instances[i].release = p}

\* the place of an entry among those of its release
Place(i) == Cardinality({j \in EntriesOf(instances[i].release) : j <= i})

InventoryComplete ==
    \A p \in Programs :
        /\ Cardinality(EntriesOf(p)) = Len(opened[p])
        /\ opened[p] # << >> => settings[p].count = Len(opened[p])
        /\ \A i \in DOMAIN opened[p] : opened[p][i].id = i
        /\ \A i \in EntriesOf(p) :
              LET account == opened[p][Place(i)]
              IN  /\ instances[i].creator = account.creator
                  /\ instances[i].index = account.index
                  /\ instances[i].created_slot = account.created_at

(* OpenedWhileActive: whenever a creation that was signed earlier finally runs,
   the registry's trail shows the release active at that time: no instance is
   opened before the activation, during a pause or after the end of a release. *)
OpenedWhileActive ==
    \A p \in Programs : \A i \in DOMAIN opened[p] :
        LET t == opened[p][i].created_at
        IN  \E r \in RecordsOf(p) :
              /\ records[r].status = "active" /\ records[r].timestamp <= t
              /\ \A s \in RecordsOf(p) : s > r => records[s].timestamp >= t

(* OneOpeningPerDay: the accounts themselves, not the registry's keys: two
   daily lotteries of a series never start on the same day, whichever releases
   opened them and however early they were scheduled, and no creator opens two
   giveaways with one nonce. *)
OneOpeningPerDay ==
    \A p, q \in Programs : \A i \in DOMAIN opened[p], j \in DOMAIN opened[q] :
        LET a == opened[p][i]
            b == opened[q][j]
        IN  <<p, i>> # <<q, j>> /\ kind[p] = kind[q] =>
              IF kind[p] = "daily"
              THEN release[p].series = release[q].series
                      => a.start \div DayLength # b.start \div DayLength
              ELSE a.creator = b.creator => a.index # b.index

(* QuotedTermsHonoured: a checked creation that runs, however much later and
   whatever happened to the configuration meanwhile, opens an instance under
   the authority and the service charge its signer was offered. *)
QuotedTerms ==
    \A p \in Programs : \A i \in DOMAIN opened'[p] \ DOMAIN opened[p] :
        \E tx \in signed \ signed' :
            /\ tx.program = p /\ tx.creator = opened'[p][i].creator
            /\ tx.quote # NoQuote =>
                  /\ opened'[p][i].authority = tx.quote.authority
                  /\ opened'[p][i].fee = tx.quote.fee

QuotedTermsHonoured == [][QuotedTerms]_creation_vars
==============================================================================
