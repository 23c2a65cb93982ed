---------------------------- MODULE GiveawayProofs ----------------------------
(***************************************************************************)
(* Proofs about Giveaway, for every value of its constants.                *)
(***************************************************************************)
EXTENDS GiveawayPrize, RadixProofs

(***************************************************************************)
(* Everybody who ever entered, in the order of the indices.                *)
(***************************************************************************)
Entered == {roster[i] : i \in DOMAIN roster}

(***************************************************************************)
(* The inductive invariant.  Counts: the counters of the giveaway count    *)
(* the participants they name.  Roles: who can be what.  Times: what       *)
(* cannot have happened yet.  Drawing: what holds from the first chunk of  *)
(* the selection on.                                                       *)
(***************************************************************************)
Counts ==
    /\ giveaway.participants_count = Len(roster)
    /\ giveaway.participants_count = Cardinality(Entered)
    /\ giveaway.disqualified_count = Cardinality(Disqualified)
    /\ giveaway.attested_count = Cardinality(Attested)
    /\ giveaway.provider_uploaded_count = Cardinality(Included)

Roles ==
    /\ Attested \subseteq Entered
    /\ Disqualified \subseteq Entered
    /\ Included \subseteq Attested
    /\ Attested \cap Disqualified = {}
    /\ \A w \in Candidates : participant[w].open => w \in Entered
    /\ ~giveaway.settled => \A w \in Entered : participant[w].open

Times ==
    /\ Attested # {} => now >= UploadStart
    /\ giveaway.remediation_deadline > 0 =>
          giveaway.remediation_start # 0 /\ now >= UploadDeadline

(* The selection keeps its own invariant (RadixProofs), among the participants
   that attested; what it found is what the WinnersLedger says. *)
Drawing ==
    /\ root.phase = "none" => root = NoRoot
    /\ root.phase # "none" =>
          /\ SelectionInv(root, roster, Eligible, NumberOfWinners)
          /\ PublicationAllowed /\ Attested # {} /\ Included = Attested
    /\ giveaway.winners_computed = giveaway.winners_locked
    /\ giveaway.winners_locked = (root.phase = "completed")
    /\ giveaway.winners_locked =>
          /\ ledger.seed = root.seed
          /\ ledger.threshold_key = root.threshold_key
          /\ ledger.winners_count = root.target_winners
          /\ ledger.per_winner = PerWinner(root.target_winners)
          /\ ledger.winners_count > 0

IInv == TypeOK /\ Counts /\ Roles /\ Times /\ Drawing

------------------------------------------------------------------------------
(***************************************************************************)
(* Facts about the constants.                                              *)
(***************************************************************************)
LEMMA Schedule ==
    /\ ActiveDeadline \in Nat \ {0} /\ ActiveDeadline > ActiveStart
    /\ UploadStart = ActiveDeadline
    /\ UploadDeadline \in Nat /\ UploadDeadline > UploadStart
    /\ SettlementDeadline \in Nat /\ SettlementDeadline > UploadDeadline
BY ScheduleAssumption DEF ActiveDeadline, UploadStart, UploadDeadline, SettlementDeadline

LEMMA Money == ServiceFee \in Nat /\ WinnersPool \in Nat
<1>1. TotalPayout * ServiceFeeBps \in Nat
  BY MoneyAssumption
<1>2. ServiceFee \in Nat
  <2> DEFINE x == TotalPayout * ServiceFeeBps
  <2> HIDE DEF x
  <2>1. x \div 10000 \in Nat  BY <1>1 DEF x
  <2> QED  BY <2>1 DEF ServiceFee, x
<1>3. NumberOfWinners * MinWinnerPayout \in Nat  BY MoneyAssumption DEF MinWinnerPayout
<1>4. WinnersPool \in Int  BY <1>2, MoneyAssumption DEF WinnersPool
<1> QED  BY <1>2, <1>3, <1>4, MoneyAssumption

LEMMA PerWinnerNat ==
    ASSUME NEW n \in Nat
    PROVE  PerWinner(n) \in Nat
<1> HIDE DEF WinnersPool
<1> QED  BY Money DEF PerWinner

(***************************************************************************)
(* What the invariant says of the sets behind the counters.                *)
(***************************************************************************)
LEMMA Sets ==
    ASSUME TypeOK
    PROVE  /\ Attested \in SUBSET Candidates /\ Disqualified \in SUBSET Candidates
           /\ Included \in SUBSET Candidates /\ Eligible = Included \ Disqualified
           /\ Entered \in SUBSET Candidates
           /\ Len(roster) \in Nat /\ DOMAIN roster = 1..Len(roster)
<1>1. roster \in Seq(Candidates)  BY DEF TypeOK
<1>2. Entered \in SUBSET Candidates  BY <1>1 DEF Entered
<1> QED  BY <1>1, <1>2 DEF Attested, Disqualified, Included, Eligible

(* When every eligible participant has attested, whoever entered has attested
   or is disqualified, and the uploads have started. *)
LEMMA AllAttested ==
    ASSUME IInv, EligibleCount > 0, giveaway.attested_count = EligibleCount
    PROVE  Entered = Attested \cup Disqualified /\ Attested # {} /\ now >= UploadStart
<1>1. /\ Attested \in SUBSET Candidates /\ Disqualified \in SUBSET Candidates
      /\ Entered \in SUBSET Candidates
  BY Sets DEF IInv
<1>2. Cardinality(Attested \cup Disqualified) = Cardinality(Attested) + Cardinality(Disqualified)
  BY <1>1, DisjointCount DEF IInv, Roles
<1>3. /\ Cardinality(Attested) \in Nat /\ Cardinality(Disqualified) \in Nat
      /\ Cardinality(Entered) \in Nat
  BY <1>1, CandidateCount
<1>4. Cardinality(Attested) = Cardinality(Entered) - Cardinality(Disqualified)
  BY DEF IInv, Counts, EligibleCount
<1>5. Cardinality(Attested \cup Disqualified) = Cardinality(Entered)
  BY <1>2, <1>3, <1>4
<1>6. Attested \cup Disqualified \in SUBSET Entered  BY DEF IInv, Roles
<1>7. Entered = Attested \cup Disqualified  BY <1>1, <1>5, <1>6, SubCount
<1>8. Cardinality(Attested) > 0  BY DEF IInv, Counts
<1>9. Attested # {}  BY <1>1, <1>8, SubCount
<1> QED  BY <1>7, <1>9 DEF IInv, Times

(***************************************************************************)
(* What every step keeps: the pool, once it is closed, and a refund that   *)
(* is due.                                                                 *)
(***************************************************************************)
PoolKept ==
    PublicationAllowed =>
        PublicationAllowed' /\ Attested' = Attested /\ Disqualified' = Disqualified

RefundKept == Refundable => Refundable'

(* Once the selection has begun, who takes part and who is included does not
   change under a step that keeps the pool. *)
LEMMA SelectionFrame ==
    ASSUME IInv, TypeOK', PoolKept, Included \subseteq Included', Included' \subseteq Attested',
           root' = root, ledger'.seed = ledger.seed,
           ledger'.threshold_key = ledger.threshold_key,
           ledger'.winners_count = ledger.winners_count,
           ledger'.per_winner = ledger.per_winner,
           giveaway'.winners_computed = giveaway.winners_computed,
           giveaway'.winners_locked = giveaway.winners_locked,
           root.phase # "none" => roster' = roster
    PROVE  Drawing'
<1>1. root.phase # "none" =>
          /\ PublicationAllowed' /\ Attested' # {} /\ Included' = Attested'
          /\ Eligible' = Eligible /\ roster' = roster
  <2>1. Eligible = Included \ Disqualified  BY Sets DEF IInv
  <2>2. (Eligible = Included \ Disqualified)'  BY DEF Eligible, Included, Disqualified
  <2> QED  BY <2>1, <2>2 DEF IInv, Drawing, PoolKept
<1>2. root.phase # "none" => SelectionInv(root', roster', Eligible', NumberOfWinners)
  BY <1>1 DEF IInv, Drawing
<1> QED  BY <1>1, <1>2 DEF IInv, Drawing

LEMMA ParticipateStep ==
    ASSUME IInv, NEW w \in Candidates, Participate(w)
    PROVE  IInv' /\ PoolKept /\ RefundKept
<1> USE DEF IInv
<1>1. /\ Attested \in SUBSET Candidates /\ Entered \in SUBSET Candidates
      /\ Len(roster) \in Nat /\ DOMAIN roster = 1..Len(roster) /\ roster \in Seq(Candidates)
  <2>1. roster \in Seq(Candidates)  BY DEF TypeOK
  <2> QED  BY <2>1, Sets
<1>2. w \notin Entered  BY DEF Participate, Roles
<1>3. TypeOK'
  <2>1. roster' \in Seq(Candidates)  BY <1>1 DEF Participate
  <2>2. giveaway' \in GiveawayType
    <3>1. /\ giveaway \in GiveawayType /\ giveaway.participants_count < MaxParticipants
          /\ giveaway' = [giveaway EXCEPT !.participants_count = @ + 1]
      BY DEF Participate, TypeOK
    <3>2. giveaway.participants_count + 1 \in Counter
      BY <3>1, LimitAssumption DEF GiveawayType, Counter
    <3> QED  BY <3>1, <3>2 DEF GiveawayType
  <2>3. participant' \in [Candidates -> ParticipantType]
    BY DEF TypeOK, Participate, ParticipantType, NewParticipant
  <2> QED  BY <2>1, <2>2, <2>3 DEF TypeOK, Participate, money
<1>4. /\ participant'[w] = [NewParticipant EXCEPT !.open = TRUE]
      /\ \A v \in Candidates \ {w} : participant'[v] = participant[v]
  BY DEF Participate, TypeOK
<1>5. Attested' = Attested /\ Disqualified' = Disqualified /\ Included' = Included
  <2>1. w \notin Attested /\ w \notin Disqualified /\ w \notin Included
    BY <1>2 DEF Roles
  <2> QED  BY <1>4, <2>1 DEF Attested, Disqualified, Included, NewParticipant
<1>6. Entered' = Entered \cup {w} /\ Len(roster') = Len(roster) + 1
  BY <1>1 DEF Participate, Entered
<1>7. Cardinality(Entered') = Cardinality(Entered) + 1  BY <1>1, <1>2, <1>6, OneMore
<1>8. /\ giveaway'.participants_count = giveaway.participants_count + 1
      /\ giveaway'.disqualified_count = giveaway.disqualified_count
      /\ giveaway'.attested_count = giveaway.attested_count
      /\ giveaway'.provider_uploaded_count = giveaway.provider_uploaded_count
      /\ giveaway'.winners_locked = giveaway.winners_locked
      /\ giveaway'.winners_computed = giveaway.winners_computed
      /\ giveaway'.settled = giveaway.settled
      /\ giveaway'.remediation_start = giveaway.remediation_start
      /\ giveaway'.remediation_deadline = giveaway.remediation_deadline
  BY DEF Participate, TypeOK, GiveawayType
<1>9. now' = now /\ now < UploadStart /\ root' = root /\ ledger' = ledger /\ now \in Nat
  BY Schedule DEF Participate, InActivePhase, TypeOK
<1>10. Counts'  BY <1>1, <1>5, <1>6, <1>7, <1>8 DEF Counts
<1>11. Roles'
  <2>1. \A v \in Candidates : participant'[v].open => v \in Entered'
    BY <1>4, <1>6 DEF Roles
  <2>2. \A v \in Entered' : participant'[v].open
    BY <1>1, <1>4, <1>6 DEF Roles, Participate, NewParticipant
  <2> QED  BY <1>5, <1>6, <2>1, <2>2 DEF Roles
<1>12. Times'  BY <1>5, <1>8, <1>9 DEF Times
<1>13. ~PublicationAllowed
  BY <1>9, Schedule, AllAttested DEF PublicationAllowed
<1>14. PoolKept  BY <1>13 DEF PoolKept
<1>15. Drawing'
  <2>1. root.phase = "none"  BY <1>13 DEF Drawing
  <2>2. Included' \subseteq Attested'  BY <1>5 DEF Roles
  <2> QED  BY <1>3, <1>5, <1>8, <1>9, <1>14, <2>1, <2>2, SelectionFrame
<1>16. RefundKept
  <2>1. giveaway.remediation_deadline = 0
    BY <1>9, Schedule DEF Times, TypeOK, GiveawayType
  <2>2. ~Refundable
    BY <1>9, <2>1, Schedule DEF Refundable, NobodyAttested, RemediationExpired
  <2> QED  BY <2>2 DEF RefundKept
<1> QED  BY <1>3, <1>10, <1>11, <1>12, <1>14, <1>15, <1>16

LEMMA DisqualifyStep ==
    ASSUME IInv, NEW w \in Candidates, DisqualifyParticipant(w)
    PROVE  IInv' /\ PoolKept /\ RefundKept
<1> USE DEF IInv
<1>1. /\ Disqualified \in SUBSET Candidates /\ Entered \in SUBSET Candidates
      /\ Included \subseteq Attested
  BY Sets DEF Roles
<1>2. w \in Entered /\ w \notin Disqualified  BY DEF DisqualifyParticipant, Roles, Disqualified
<1>3. /\ participant' = [participant EXCEPT ![w].disqualified = TRUE]
      /\ giveaway' = [giveaway EXCEPT !.disqualified_count = @ + 1]
      /\ now' = now /\ now < UploadStart /\ roster' = roster /\ root' = root
      /\ ledger' = ledger /\ money' = money /\ now \in Nat
  BY DEF DisqualifyParticipant, DisqualificationOpen, TypeOK
<1>4. Attested = {}  BY <1>3, Schedule DEF Times
<1>5. /\ Attested' = Attested /\ Included' = Included
      /\ Disqualified' = Disqualified \cup {w} /\ Entered' = Entered
      /\ \A v \in Candidates : participant'[v].open = participant[v].open
  BY <1>2, <1>3 DEF TypeOK, ParticipantType, Attested, Included, Disqualified, Entered
<1>6. Cardinality(Disqualified') = Cardinality(Disqualified) + 1
  BY <1>1, <1>2, <1>5, OneMore
<1>7. TypeOK'
  <2>1. giveaway.disqualified_count + 1 \in Counter
    <3>1. Disqualified' \in SUBSET Entered  BY <1>2, <1>5 DEF Roles
    <3>2. Cardinality(Disqualified') <= Cardinality(Entered)  BY <1>1, <3>1, SubCount
    <3> QED  BY <1>6, <3>2, LimitAssumption DEF Counts, TypeOK, GiveawayType, Counter
  <2>2. giveaway' \in GiveawayType  BY <1>3, <2>1 DEF TypeOK, GiveawayType
  <2>3. participant' \in [Candidates -> ParticipantType]
    BY <1>3 DEF TypeOK, ParticipantType
  <2> QED  BY <1>3, <2>2, <2>3 DEF TypeOK, money
<1>8. /\ giveaway'.participants_count = giveaway.participants_count
      /\ giveaway'.disqualified_count = giveaway.disqualified_count + 1
      /\ giveaway'.attested_count = giveaway.attested_count
      /\ giveaway'.provider_uploaded_count = giveaway.provider_uploaded_count
      /\ giveaway'.winners_locked = giveaway.winners_locked
      /\ giveaway'.winners_computed = giveaway.winners_computed
      /\ giveaway'.settled = giveaway.settled
      /\ giveaway'.remediation_start = giveaway.remediation_start
      /\ giveaway'.remediation_deadline = giveaway.remediation_deadline
  BY <1>3 DEF TypeOK, GiveawayType
<1>9. Counts'  BY <1>3, <1>5, <1>6, <1>8 DEF Counts
<1>10. Roles'  BY <1>1, <1>2, <1>4, <1>5, <1>8 DEF Roles
<1>11. Times'  BY <1>3, <1>5, <1>8 DEF Times
<1>12. ~PublicationAllowed  BY <1>3, Schedule, AllAttested DEF PublicationAllowed
<1>13. PoolKept  BY <1>12 DEF PoolKept
<1>14. Drawing'  BY <1>1, <1>3, <1>5, <1>7, <1>8, <1>13, SelectionFrame
<1>15. RefundKept
  <2>1. giveaway.remediation_deadline = 0
    BY <1>3, Schedule DEF Times, TypeOK, GiveawayType
  <2>2. ~Refundable
    BY <1>3, <2>1, Schedule DEF Refundable, NobodyAttested, RemediationExpired
  <2> QED  BY <2>2 DEF RefundKept
<1> QED  BY <1>7, <1>9, <1>10, <1>11, <1>13, <1>14, <1>15

(* While reveals may not be public yet, nobody is refunded either; and somebody
   who has neither attested nor been disqualified keeps them from being so. *)
LEMMA UploadPhaseOpen ==
    ASSUME IInv, InUploadPhase, NEW w \in Entered, w \notin Disqualified
    PROVE  ~Refundable /\ (w \notin Attested => ~PublicationAllowed)
<1> USE DEF IInv
<1>1. now < UploadDeadline /\ now \in Nat  BY DEF InUploadPhase, TypeOK
<1>2. giveaway.remediation_deadline = 0
  BY <1>1, Schedule DEF Times, TypeOK, GiveawayType
<1>3. giveaway.participants_count # 0
  <2>1. Entered \in SUBSET Candidates /\ Entered # {}  BY Sets
  <2> QED  BY <2>1, SubCount DEF Counts
<1>4. ~Refundable
  BY <1>1, <1>2, <1>3, Schedule DEF Refundable, NobodyAttested, RemediationExpired
<1>5. w \notin Attested => ~PublicationAllowed
  BY <1>1, Schedule, AllAttested DEF PublicationAllowed
<1> QED  BY <1>4, <1>5

LEMMA AttestUploadedStep ==
    ASSUME IInv, NEW w \in Candidates, AttestUploaded(w)
    PROVE  IInv' /\ PoolKept /\ RefundKept
<1> USE DEF IInv
<1>1. /\ Attested \in SUBSET Candidates /\ Entered \in SUBSET Candidates
      /\ Included \subseteq Attested
  BY Sets DEF Roles
<1>2. w \in Entered /\ w \notin Attested /\ w \notin Disqualified
  BY DEF AttestUploaded, Roles, Attested, Disqualified
<1>3. /\ participant' = [participant EXCEPT ![w].attested = TRUE]
      /\ giveaway' = [giveaway EXCEPT !.attested_count = @ + 1]
      /\ now' = now /\ InUploadPhase /\ roster' = roster /\ root' = root
      /\ ledger' = ledger /\ money' = money /\ now \in Nat
  BY DEF AttestUploaded, TypeOK
<1>4. ~Refundable /\ ~PublicationAllowed  BY <1>2, <1>3, UploadPhaseOpen
<1>5. /\ Attested' = Attested \cup {w} /\ Included' = Included
      /\ Disqualified' = Disqualified /\ Entered' = Entered
      /\ \A v \in Candidates : participant'[v].open = participant[v].open
  BY <1>2, <1>3 DEF TypeOK, ParticipantType, Attested, Included, Disqualified, Entered
<1>6. Cardinality(Attested') = Cardinality(Attested) + 1  BY <1>1, <1>2, <1>5, OneMore
<1>7. TypeOK'
  <2>1. giveaway.attested_count + 1 \in Counter
    <3>1. Attested' \in SUBSET Entered  BY <1>2, <1>5 DEF Roles
    <3>2. Cardinality(Attested') <= Cardinality(Entered)  BY <1>1, <3>1, SubCount
    <3> QED  BY <1>6, <3>2, LimitAssumption DEF Counts, TypeOK, GiveawayType, Counter
  <2>2. giveaway' \in GiveawayType  BY <1>3, <2>1 DEF TypeOK, GiveawayType
  <2>3. participant' \in [Candidates -> ParticipantType]
    BY <1>3 DEF TypeOK, ParticipantType
  <2> QED  BY <1>3, <2>2, <2>3 DEF TypeOK, money
<1>8. /\ giveaway'.participants_count = giveaway.participants_count
      /\ giveaway'.disqualified_count = giveaway.disqualified_count
      /\ giveaway'.attested_count = giveaway.attested_count + 1
      /\ giveaway'.provider_uploaded_count = giveaway.provider_uploaded_count
      /\ giveaway'.winners_locked = giveaway.winners_locked
      /\ giveaway'.winners_computed = giveaway.winners_computed
      /\ giveaway'.settled = giveaway.settled
      /\ giveaway'.remediation_start = giveaway.remediation_start
      /\ giveaway'.remediation_deadline = giveaway.remediation_deadline
  BY <1>3 DEF TypeOK, GiveawayType
<1>9. Counts'  BY <1>3, <1>5, <1>6, <1>8 DEF Counts
<1>10. Roles'  BY <1>1, <1>2, <1>5, <1>8 DEF Roles
<1>11. Times'  BY <1>3, <1>5, <1>8 DEF Times, InUploadPhase
<1>12. PoolKept  BY <1>4 DEF PoolKept
<1>13. Drawing'
  <2>1. Included' \subseteq Attested'  BY <1>1, <1>5
  <2> QED  BY <1>3, <1>5, <1>7, <1>8, <1>12, <2>1, SelectionFrame
<1> QED  BY <1>4, <1>7, <1>9, <1>10, <1>11, <1>12, <1>13 DEF RefundKept

LEMMA AttestRevealStep ==
    ASSUME IInv, NEW w \in Candidates, AttestReveal(w)
    PROVE  IInv' /\ PoolKept /\ RefundKept
<1> USE DEF IInv
<1> DEFINE newly == IF w \in Attested THEN 0 ELSE 1
<1>1. /\ Attested \in SUBSET Candidates /\ Entered \in SUBSET Candidates
      /\ Included \in SUBSET Candidates
  BY Sets
<1>2. w \in Entered /\ w \notin Included /\ w \notin Disqualified
  BY DEF AttestReveal, Roles, Included, Disqualified
<1>3. /\ participant' = [participant EXCEPT ![w].attested = TRUE, ![w].included = TRUE]
      /\ giveaway' = WithReveals(AttestedOnReveal(w), 1)
      /\ now' = now /\ InUploadPhase /\ roster' = roster /\ root' = root
      /\ ledger' = ledger /\ money' = money /\ now \in Nat
  BY DEF AttestReveal, TypeOK
<1>4. ~Refundable /\ (w \notin Attested => ~PublicationAllowed)
  BY <1>2, <1>3, UploadPhaseOpen
<1>5. /\ Attested' = Attested \cup {w} /\ Included' = Included \cup {w}
      /\ Disqualified' = Disqualified /\ Entered' = Entered
      /\ \A v \in Candidates : participant'[v].open = participant[v].open
  BY <1>2, <1>3 DEF TypeOK, ParticipantType, Attested, Included, Disqualified, Entered
<1>6. /\ Cardinality(Attested') = Cardinality(Attested) + newly
      /\ Cardinality(Included') = Cardinality(Included) + 1
  <2>1. Cardinality(Included') = Cardinality(Included) + 1  BY <1>1, <1>2, <1>5, OneMore
  <2>2. CASE w \in Attested
    <3>1. Attested' = Attested /\ Cardinality(Attested) \in Nat
      BY <1>1, <1>5, <2>2, CandidateCount
    <3> QED  BY <2>1, <2>2, <3>1
  <2>3. CASE w \notin Attested  BY <1>1, <1>5, <2>1, <2>3, OneMore
  <2> QED  BY <2>2, <2>3
<1>7. /\ giveaway'.participants_count = giveaway.participants_count
      /\ giveaway'.disqualified_count = giveaway.disqualified_count
      /\ giveaway'.attested_count = giveaway.attested_count + newly
      /\ giveaway'.provider_uploaded_count = giveaway.provider_uploaded_count + 1
      /\ giveaway'.uploads_complete \in BOOLEAN
      /\ giveaway'.winners_locked = giveaway.winners_locked
      /\ giveaway'.winners_computed = giveaway.winners_computed
      /\ giveaway'.settled = giveaway.settled
      /\ giveaway'.remediation_start = giveaway.remediation_start
      /\ giveaway'.remediation_deadline = giveaway.remediation_deadline
      /\ giveaway' = [giveaway EXCEPT
            !.attested_count = giveaway'.attested_count,
            !.provider_uploaded_count = giveaway'.provider_uploaded_count,
            !.uploads_complete = giveaway'.uploads_complete]
  <2>1. participant[w].attested = (w \in Attested)  BY DEF Attested, TypeOK, ParticipantType
  <2>2. giveaway \in GiveawayType  BY DEF TypeOK
  <2>3. PICK more \in BOOLEAN : giveaway' =
          [giveaway EXCEPT !.attested_count = giveaway.attested_count + newly,
                           !.provider_uploaded_count = giveaway.provider_uploaded_count + 1,
                           !.uploads_complete = more]
    <3>1. CASE w \in Attested
      <4>1. giveaway.attested_count + newly = giveaway.attested_count
        BY <2>2, <3>1, LimitAssumption DEF GiveawayType, Counter
      <4>2. giveaway' = WithReveals(giveaway, 1)  BY <1>3, <2>1, <3>1 DEF AttestedOnReveal
      <4> HIDE DEF newly
      <4> QED  BY <2>2, <4>1, <4>2 DEF WithReveals, GiveawayType
    <3>2. CASE w \notin Attested
      <4>1. giveaway' = WithReveals([giveaway EXCEPT !.attested_count = @ + 1], 1)
        BY <1>3, <2>1, <3>2 DEF AttestedOnReveal
      <4> QED  BY <2>2, <3>2, <4>1 DEF WithReveals, GiveawayType
    <3> QED  BY <3>1, <3>2
  <2> HIDE DEF newly
  <2> QED  BY <2>2, <2>3 DEF GiveawayType
<1>8. Counts'
  <2> HIDE DEF newly
  <2> QED  BY <1>3, <1>5, <1>6, <1>7 DEF Counts
<1>9. TypeOK'
  <2>1. giveaway'.attested_count \in Counter /\ giveaway'.provider_uploaded_count \in Counter
    <3>1. Attested' \in SUBSET Entered /\ Included' \in SUBSET Entered
      BY <1>2, <1>5 DEF Roles
    <3>2. /\ Cardinality(Attested') <= Cardinality(Entered)
          /\ Cardinality(Included') <= Cardinality(Entered)
      BY <1>1, <3>1, SubCount
    <3>3. Cardinality(Attested') \in Nat /\ Cardinality(Included') \in Nat
      BY <1>1, <3>1, CandidateCount
    <3> QED
      BY <1>8, <3>2, <3>3, LimitAssumption DEF Counts, TypeOK, GiveawayType, Counter
  <2>2. giveaway' \in GiveawayType
    <3> HIDE DEF newly
    <3> QED  BY <1>7, <2>1 DEF TypeOK, GiveawayType
  <2>3. participant' \in [Candidates -> ParticipantType]
    BY <1>3 DEF TypeOK, ParticipantType
  <2> QED  BY <1>3, <2>2, <2>3 DEF TypeOK, money
<1>10. Roles'  BY <1>1, <1>2, <1>5, <1>7 DEF Roles
<1>11. Times'  BY <1>3, <1>5, <1>7 DEF Times, InUploadPhase
<1>12. PoolKept
  <2>1. CASE w \in Attested
    <3>1. Attested' = Attested /\ giveaway'.attested_count = giveaway.attested_count
      BY <1>1, <1>5, <1>7, <2>1 DEF TypeOK, GiveawayType, Counter
    <3> QED  BY <1>3, <1>5, <1>7, <3>1 DEF PoolKept, PublicationAllowed, EligibleCount
  <2>2. CASE w \notin Attested  BY <1>4, <2>2 DEF PoolKept
  <2> QED  BY <2>1, <2>2
<1>13. Drawing'
  <2>1. Included \subseteq Included' /\ Included' \subseteq Attested'
    BY <1>5 DEF Roles
  <2> QED  BY <1>3, <1>7, <1>9, <1>12, <2>1, SelectionFrame
<1> QED  BY <1>4, <1>8, <1>9, <1>10, <1>11, <1>12, <1>13 DEF RefundKept

(***************************************************************************)
(* Steps that leave the attestations and the disqualifications alone, and  *)
(* do not go back in time.                                                 *)
(***************************************************************************)
SamePool ==
    /\ now \in Nat /\ now' \in Nat /\ now' >= now
    /\ Attested' = Attested /\ Disqualified' = Disqualified
    /\ giveaway'.participants_count = giveaway.participants_count
    /\ giveaway'.disqualified_count = giveaway.disqualified_count
    /\ giveaway'.attested_count = giveaway.attested_count

LEMMA PoolFrame ==
    ASSUME SamePool
    PROVE  PoolKept
BY Schedule DEF SamePool, PoolKept, PublicationAllowed, EligibleCount

(* A refund that is due stays due, unless winners are locked or the expired
   remediation ends otherwise. *)
LEMMA RefundFrame ==
    ASSUME SamePool, giveaway'.winners_locked = giveaway.winners_locked,
           RemediationExpired => RemediationExpired'
    PROVE  RefundKept
BY Schedule DEF SamePool, RefundKept, Refundable, NobodyAttested

LEMMA UploadRevealsStep ==
    ASSUME IInv, NEW byProvider \in BOOLEAN, NEW S \in SUBSET Candidates,
           UploadReveals(byProvider, S)
    PROVE  IInv' /\ PoolKept /\ RefundKept
<1> USE DEF IInv
<1> DEFINE count == Cardinality(S)
<1>1. /\ Attested \in SUBSET Candidates /\ Entered \in SUBSET Candidates
      /\ Included \in SUBSET Candidates /\ count \in Nat
  BY Sets, CandidateCount
<1>2. S \subseteq Attested /\ S \cap Included = {}
  BY DEF UploadReveals, Attested, Included
<1>3. /\ participant' = [w \in Candidates |->
            IF w \in S THEN [participant[w] EXCEPT !.included = TRUE] ELSE participant[w]]
      /\ now' = now /\ roster' = roster /\ root' = root
      /\ ledger' = ledger /\ money' = money /\ now \in Nat
      /\ ~RemediationExpired
  BY DEF UploadReveals, TypeOK
<1>4. PICK g \in GiveawayType :
          /\ giveaway' = WithReveals(g, count)
          /\ \/ g = giveaway
             \/ /\ now >= UploadDeadline
                /\ g = [giveaway EXCEPT !.remediation_start = now,
                                        !.remediation_deadline = now + RemediationWindow]
  <2> DEFINE canRemediate == ~byProvider /\ now >= UploadDeadline /\ HasMissing
  <2>1. giveaway' = WithReveals(IF canRemediate THEN BegunRemediation(giveaway) ELSE giveaway,
                                count)
    BY DEF UploadReveals
  <2>2. giveaway \in GiveawayType  BY DEF TypeOK
  <2>3. CASE canRemediate /\ giveaway.remediation_start = 0
    <3>1. now + RemediationWindow \in Nat  BY <1>3, ScheduleAssumption
    <3>2. [giveaway EXCEPT !.remediation_start = now,
                           !.remediation_deadline = now + RemediationWindow] \in GiveawayType
      BY <1>3, <2>2, <3>1 DEF GiveawayType
    <3> QED  BY <2>1, <2>3, <3>2 DEF BegunRemediation
  <2>4. CASE ~(canRemediate /\ giveaway.remediation_start = 0)
    BY <2>1, <2>2, <2>4 DEF BegunRemediation
  <2> QED  BY <2>3, <2>4
<1>5. /\ Attested' = Attested /\ Included' = Included \cup S
      /\ Disqualified' = Disqualified /\ Entered' = Entered
      /\ \A v \in Candidates : participant'[v].open = participant[v].open
  BY <1>3 DEF TypeOK, ParticipantType, Attested, Included, Disqualified, Entered
<1>6. Cardinality(Included') = Cardinality(Included) + count
  BY <1>1, <1>2, <1>5, DisjointCount
<1>7. /\ giveaway'.participants_count = giveaway.participants_count
      /\ giveaway'.disqualified_count = giveaway.disqualified_count
      /\ giveaway'.attested_count = giveaway.attested_count
      /\ giveaway'.provider_uploaded_count = giveaway.provider_uploaded_count + count
      /\ giveaway'.uploads_complete \in BOOLEAN
      /\ giveaway'.winners_locked = giveaway.winners_locked
      /\ giveaway'.winners_computed = giveaway.winners_computed
      /\ giveaway'.settled = giveaway.settled
      /\ giveaway'.remediation_start = g.remediation_start
      /\ giveaway'.remediation_deadline = g.remediation_deadline
      /\ giveaway' = [g EXCEPT !.provider_uploaded_count = giveaway'.provider_uploaded_count,
                               !.uploads_complete = giveaway'.uploads_complete]
  <2>1. giveaway \in GiveawayType  BY DEF TypeOK
  <2>2. /\ g.participants_count = giveaway.participants_count
        /\ g.disqualified_count = giveaway.disqualified_count
        /\ g.attested_count = giveaway.attested_count
        /\ g.provider_uploaded_count = giveaway.provider_uploaded_count
        /\ g.winners_locked = giveaway.winners_locked
        /\ g.winners_computed = giveaway.winners_computed
        /\ g.settled = giveaway.settled
    BY <1>4, <2>1 DEF GiveawayType
  <2>3. PICK more \in BOOLEAN : giveaway' =
          [g EXCEPT !.provider_uploaded_count = g.provider_uploaded_count + count,
                    !.uploads_complete = more]
    BY <1>4 DEF WithReveals
  <2> HIDE DEF count
  <2> QED  BY <2>2, <2>3 DEF GiveawayType
<1> HIDE DEF count
<1>8. Counts'  BY <1>3, <1>5, <1>6, <1>7 DEF Counts
<1>9. TypeOK'
  <2>1. giveaway'.provider_uploaded_count \in Counter
    <3>1. Included' \in SUBSET Entered  BY <1>2, <1>5 DEF Roles
    <3>2. Cardinality(Included') <= Cardinality(Entered)  BY <1>1, <3>1, SubCount
    <3>3. Cardinality(Included') \in Nat  BY <1>1, <3>1, CandidateCount
    <3>4. Cardinality(Entered) \in 0..MaxParticipants
      BY DEF Counts, TypeOK, GiveawayType, Counter
    <3>5. giveaway'.provider_uploaded_count = Cardinality(Included')  BY <1>8 DEF Counts
    <3> QED  BY <3>2, <3>3, <3>4, <3>5, LimitAssumption DEF Counter
  <2>2. giveaway' \in GiveawayType  BY <1>7, <2>1 DEF GiveawayType
  <2>3. participant' \in [Candidates -> ParticipantType]
    BY <1>3 DEF TypeOK, ParticipantType
  <2> QED  BY <1>3, <2>2, <2>3 DEF TypeOK, money
<1>10. Roles'  BY <1>1, <1>2, <1>5, <1>7 DEF Roles
<1>11. Times'
  <2>1. CASE g = giveaway  BY <1>3, <1>5, <1>7, <2>1 DEF Times
  <2>2. CASE /\ now >= UploadDeadline
             /\ g = [giveaway EXCEPT !.remediation_start = now,
                                     !.remediation_deadline = now + RemediationWindow]
    <3>1. g.remediation_start = now  BY <2>2 DEF TypeOK, GiveawayType
    <3> QED  BY <1>3, <1>5, <1>7, <2>2, <3>1, Schedule DEF Times
  <2> QED  BY <1>4, <2>1, <2>2
<1>12. SamePool  BY <1>3, <1>5, <1>7 DEF SamePool
<1>13. PoolKept  BY <1>12, PoolFrame
<1>14. RefundKept  BY <1>3, <1>7, <1>12, RefundFrame
<1>15. Drawing'
  <2>1. Included \subseteq Included' /\ Included' \subseteq Attested'
    BY <1>2, <1>5 DEF Roles
  <2> QED  BY <1>3, <1>7, <1>9, <1>13, <2>1, SelectionFrame
<1> QED  BY <1>8, <1>9, <1>10, <1>11, <1>13, <1>14, <1>15

LEMMA BeginRemediationStep ==
    ASSUME IInv, NEW byProvider \in BOOLEAN, BeginRemediation(byProvider)
    PROVE  IInv' /\ PoolKept /\ RefundKept
<1> USE DEF IInv
<1>1. /\ giveaway' = [giveaway EXCEPT !.remediation_start = now,
                                      !.remediation_deadline = now + RemediationWindow]
      /\ now >= UploadDeadline /\ giveaway.remediation_start = 0
      /\ now' = now /\ roster' = roster /\ root' = root /\ participant' = participant
      /\ ledger' = ledger /\ money' = money /\ now \in Nat
  BY DEF BeginRemediation, BegunRemediation, TypeOK
<1>2. /\ Attested' = Attested /\ Included' = Included
      /\ Disqualified' = Disqualified /\ Entered' = Entered
  BY <1>1 DEF Attested, Included, Disqualified, Entered
<1>3. /\ giveaway' \in GiveawayType
      /\ giveaway'.participants_count = giveaway.participants_count
      /\ giveaway'.disqualified_count = giveaway.disqualified_count
      /\ giveaway'.attested_count = giveaway.attested_count
      /\ giveaway'.provider_uploaded_count = giveaway.provider_uploaded_count
      /\ giveaway'.winners_locked = giveaway.winners_locked
      /\ giveaway'.winners_computed = giveaway.winners_computed
      /\ giveaway'.settled = giveaway.settled
      /\ giveaway'.remediation_start = now
  <2>1. now + RemediationWindow \in Nat  BY <1>1, ScheduleAssumption
  <2>2. giveaway \in GiveawayType  BY DEF TypeOK
  <2>3. giveaway' \in GiveawayType  BY <1>1, <2>1, <2>2 DEF GiveawayType
  <2> QED  BY <1>1, <2>2, <2>3 DEF GiveawayType
<1>4. TypeOK'  BY <1>1, <1>3 DEF TypeOK, money
<1>5. Counts'  BY <1>1, <1>2, <1>3 DEF Counts
<1>6. Roles'  BY <1>1, <1>2, <1>3 DEF Roles
<1>7. Times'  BY <1>1, <1>2, <1>3, Schedule DEF Times
<1>8. SamePool  BY <1>1, <1>2, <1>3 DEF SamePool
<1>9. PoolKept  BY <1>8, PoolFrame
<1>10. RefundKept
  <2>1. ~RemediationExpired  BY <1>1 DEF RemediationExpired, Times
  <2> QED  BY <1>3, <1>8, <2>1, RefundFrame
<1>11. Drawing'
  <2>1. Included' \subseteq Attested'  BY <1>2 DEF Roles
  <2> QED  BY <1>1, <1>2, <1>3, <1>4, <1>9, <2>1, SelectionFrame
<1> QED  BY <1>4, <1>5, <1>6, <1>7, <1>9, <1>10, <1>11

LEMMA SettleGiveawayStep ==
    ASSUME IInv, SettleGiveaway
    PROVE  IInv' /\ PoolKept /\ RefundKept
<1> USE DEF IInv
<1>1. /\ giveaway' = [giveaway EXCEPT !.settled = TRUE]
      /\ creator_refund' = creator_refund + vault /\ vault' = 0
      /\ now' = now /\ roster' = roster /\ root' = root /\ participant' = participant
      /\ ledger' = ledger /\ received' = received /\ provider_fee' = provider_fee
      /\ now \in Nat
  BY DEF SettleGiveaway, TypeOK
<1>2. /\ Attested' = Attested /\ Included' = Included
      /\ Disqualified' = Disqualified /\ Entered' = Entered
  BY <1>1 DEF Attested, Included, Disqualified, Entered
<1>3. /\ giveaway' \in GiveawayType
      /\ giveaway'.participants_count = giveaway.participants_count
      /\ giveaway'.disqualified_count = giveaway.disqualified_count
      /\ giveaway'.attested_count = giveaway.attested_count
      /\ giveaway'.provider_uploaded_count = giveaway.provider_uploaded_count
      /\ giveaway'.winners_locked = giveaway.winners_locked
      /\ giveaway'.winners_computed = giveaway.winners_computed
      /\ giveaway'.settled
      /\ giveaway'.remediation_start = giveaway.remediation_start
      /\ giveaway'.remediation_deadline = giveaway.remediation_deadline
  <2>1. giveaway \in GiveawayType  BY DEF TypeOK
  <2> QED  BY <1>1, <2>1 DEF GiveawayType
<1>4. TypeOK'  BY <1>1, <1>3 DEF TypeOK
<1>5. Counts'  BY <1>1, <1>2, <1>3 DEF Counts
<1>6. Roles'  BY <1>1, <1>2, <1>3 DEF Roles
<1>7. Times'  BY <1>1, <1>2, <1>3 DEF Times
<1>8. SamePool  BY <1>1, <1>2, <1>3 DEF SamePool
<1>9. PoolKept  BY <1>8, PoolFrame
<1>10. RefundKept
  <2>1. RemediationExpired => RemediationExpired'
    BY <1>1, <1>3 DEF RemediationExpired, HasMissing
  <2> QED  BY <1>3, <1>8, <2>1, RefundFrame
<1>11. Drawing'
  <2>1. Included' \subseteq Attested'  BY <1>2 DEF Roles
  <2> QED  BY <1>1, <1>2, <1>3, <1>4, <1>9, <2>1, SelectionFrame
<1> QED  BY <1>4, <1>5, <1>6, <1>7, <1>9, <1>10, <1>11

LEMMA SettlePayoutBatchStep ==
    ASSUME IInv, NEW batch \in Batches, SettlePayoutBatch(batch)
    PROVE  IInv' /\ PoolKept /\ RefundKept
<1> USE DEF IInv
<1> DEFINE count == Cardinality(PayingPositions(batch))
           left  == vault - ledger.per_winner * count
           paid  == ledger.paid_count + count
           all   == paid = ledger.winners_count
<1>1. /\ participant' = [w \in Candidates |->
            [participant[w] EXCEPT !.paid = @ \/ PaidTo(batch, w) > 0]]
      /\ received' = [w \in Candidates |->
            received[w] + ledger.per_winner * PaidTo(batch, w)]
      /\ ledger' = [ledger EXCEPT !.paid_count = paid, !.batches_processed = @ + 1]
      /\ giveaway' = [giveaway EXCEPT !.settled = all]
      /\ vault' = IF all THEN 0 ELSE left
      /\ provider_fee' = IF all THEN provider_fee + ServiceFee ELSE provider_fee
      /\ creator_refund' = IF all THEN creator_refund + (left - ServiceFee) ELSE creator_refund
      /\ left >= 0 /\ (all => left >= ServiceFee) /\ ledger.batches_processed < U32Max
      /\ giveaway.winners_locked /\ ~giveaway.settled
      /\ now' = now /\ roster' = roster /\ root' = root /\ now \in Nat
  BY DEF SettlePayoutBatch, MayPay, PaidAfter, LeftAfter, AllPaidAfter, TypeOK
<1>2. /\ Attested' = Attested /\ Included' = Included
      /\ Disqualified' = Disqualified /\ Entered' = Entered
      /\ \A v \in Candidates : participant'[v].open = participant[v].open
  BY <1>1 DEF TypeOK, ParticipantType, Attested, Included, Disqualified, Entered
<1>3. count \in Nat /\ \A w : PaidTo(batch, w) \in Nat
  <2>1. PICK k \in 1..MaxBatch : batch \in [1..k -> Candidates]
    BY DEF Batches
  <2>2. IsFiniteSet(DOMAIN batch)  BY <2>1, FS_Interval
  <2>3. PayingPositions(batch) \in SUBSET DOMAIN batch  BY DEF PayingPositions
  <2>4. IsFiniteSet(PayingPositions(batch))  BY <2>2, <2>3, FS_Subset
  <2>5. \A w : {i \in PayingPositions(batch) : batch[i] = w} \in SUBSET PayingPositions(batch)
    OBVIOUS
  <2> QED  BY <2>4, <2>5, FS_Subset, FS_CardinalityType DEF PaidTo
<1>4. /\ giveaway' \in GiveawayType
      /\ giveaway'.participants_count = giveaway.participants_count
      /\ giveaway'.disqualified_count = giveaway.disqualified_count
      /\ giveaway'.attested_count = giveaway.attested_count
      /\ giveaway'.provider_uploaded_count = giveaway.provider_uploaded_count
      /\ giveaway'.winners_locked = giveaway.winners_locked
      /\ giveaway'.winners_computed = giveaway.winners_computed
      /\ giveaway'.remediation_start = giveaway.remediation_start
      /\ giveaway'.remediation_deadline = giveaway.remediation_deadline
  <2>1. giveaway \in GiveawayType /\ all \in BOOLEAN  BY DEF TypeOK
  <2> HIDE DEF all
  <2> QED  BY <1>1, <2>1 DEF GiveawayType
<1>5. /\ ledger' \in LedgerType /\ ledger'.winners_count = ledger.winners_count
      /\ ledger'.seed = ledger.seed /\ ledger'.threshold_key = ledger.threshold_key
      /\ ledger'.per_winner = ledger.per_winner
  <2>1. ledger \in LedgerType  BY DEF TypeOK
  <2>2. paid \in Nat  BY <1>3, <2>1 DEF LedgerType
  <2>3. ledger.batches_processed + 1 \in 0..U32Max
    BY <1>1, <2>1, LimitAssumption DEF LedgerType
  <2> HIDE DEF paid
  <2> QED  BY <1>1, <2>1, <2>2, <2>3 DEF LedgerType
<1>6. /\ vault' \in Nat /\ provider_fee' \in Nat /\ creator_refund' \in Nat
      /\ received' \in [Candidates -> Nat]
  <2>1. ledger.per_winner \in Nat /\ received \in [Candidates -> Nat]
    BY DEF TypeOK, LedgerType
  <2>2. \A w \in Candidates : ledger.per_winner * PaidTo(batch, w) \in Nat
    BY <1>3, <2>1
  <2>3. ledger.per_winner * count \in Nat  BY <1>3, <2>1
  <2>4. left \in Nat
    <3> DEFINE out == ledger.per_winner * count
    <3>1. out \in Nat /\ vault \in Nat /\ vault - out >= 0  BY <1>1, <2>3 DEF TypeOK
    <3> HIDE DEF out
    <3>2. vault - out \in Nat  BY <3>1
    <3> QED  BY <3>2 DEF out
  <2>5. all \in BOOLEAN  OBVIOUS
  <2>6. ServiceFee \in Nat  BY Money
  <2>7. received' \in [Candidates -> Nat]  BY <1>1, <2>1, <2>2
  <2> HIDE DEF left, all
  <2> QED  BY <1>1, <2>4, <2>5, <2>6, <2>7 DEF TypeOK
<1> HIDE DEF count, left, paid, all
<1>7. TypeOK'
  <2>1. participant' \in [Candidates -> ParticipantType]
    BY <1>1 DEF TypeOK, ParticipantType
  <2> QED  BY <1>1, <1>4, <1>5, <1>6, <2>1 DEF TypeOK
<1>8. Counts'  BY <1>1, <1>2, <1>4 DEF Counts
<1>9. Roles'
  <2>1. Entered \in SUBSET Candidates  BY Sets
  <2> QED  BY <1>1, <1>2, <1>4, <2>1 DEF Roles
<1>10. Times'  BY <1>1, <1>2, <1>4 DEF Times
<1>11. SamePool  BY <1>1, <1>2, <1>4 DEF SamePool
<1>12. PoolKept  BY <1>11, PoolFrame
<1>13. RefundKept  BY <1>1 DEF RefundKept, Refundable
<1>14. Drawing'
  <2>1. Included' \subseteq Attested'  BY <1>2 DEF Roles
  <2> QED  BY <1>1, <1>2, <1>4, <1>5, <1>7, <1>12, <2>1, SelectionFrame
<1> QED  BY <1>7, <1>8, <1>9, <1>10, <1>12, <1>13, <1>14

LEMMA CloseParticipantStep ==
    ASSUME IInv, NEW w \in Candidates, CloseParticipant(w)
    PROVE  IInv' /\ PoolKept /\ RefundKept
<1> USE DEF IInv
<1>1. /\ participant' = [participant EXCEPT ![w].open = FALSE] /\ giveaway.settled
      /\ now' = now /\ roster' = roster /\ root' = root /\ giveaway' = giveaway
      /\ ledger' = ledger /\ money' = money /\ now \in Nat
  BY DEF CloseParticipant, TypeOK
<1>2. /\ Attested' = Attested /\ Included' = Included
      /\ Disqualified' = Disqualified /\ Entered' = Entered
      /\ \A v \in Candidates : participant'[v].open => participant[v].open
  BY <1>1 DEF TypeOK, ParticipantType, Attested, Included, Disqualified, Entered
<1>3. TypeOK'
  <2>1. participant' \in [Candidates -> ParticipantType]
    BY <1>1 DEF TypeOK, ParticipantType
  <2> QED  BY <1>1, <2>1 DEF TypeOK, money
<1>4. Counts'  BY <1>1, <1>2 DEF Counts
<1>5. Roles'  BY <1>1, <1>2 DEF Roles
<1>6. Times'  BY <1>1, <1>2 DEF Times
<1>7. SamePool  BY <1>1, <1>2 DEF SamePool
<1>8. PoolKept  BY <1>7, PoolFrame
<1>9. RefundKept  BY <1>1, <1>7, RefundFrame DEF RemediationExpired, HasMissing
<1>10. Drawing'
  <2>1. Included' \subseteq Attested'  BY <1>2 DEF Roles
  <2> QED  BY <1>1, <1>2, <1>3, <1>8, <2>1, SelectionFrame
<1> QED  BY <1>3, <1>4, <1>5, <1>6, <1>8, <1>9, <1>10

LEMMA TickStep ==
    ASSUME IInv, Tick \/ UNCHANGED vars
    PROVE  IInv' /\ PoolKept /\ RefundKept
<1> USE DEF IInv
<1>1. /\ participant' = participant /\ roster' = roster /\ root' = root
      /\ giveaway' = giveaway /\ ledger' = ledger /\ money' = money
      /\ now \in Nat /\ now' \in Nat /\ now' >= now
  BY DEF Tick, vars, TypeOK
<1>2. /\ Attested' = Attested /\ Included' = Included
      /\ Disqualified' = Disqualified /\ Entered' = Entered
  BY <1>1 DEF Attested, Included, Disqualified, Entered
<1>3. TypeOK'  BY <1>1 DEF TypeOK, money
<1>4. Counts'  BY <1>1, <1>2 DEF Counts
<1>5. Roles'  BY <1>1, <1>2 DEF Roles
<1>6. Times'  BY <1>1, <1>2, Schedule DEF Times
<1>7. SamePool  BY <1>1, <1>2 DEF SamePool
<1>8. PoolKept  BY <1>7, PoolFrame
<1>9. RefundKept
  <2>1. RemediationExpired => RemediationExpired'
    BY <1>1 DEF RemediationExpired, HasMissing, TypeOK, GiveawayType
  <2> QED  BY <1>1, <1>7, <2>1, RefundFrame
<1>10. Drawing'
  <2>1. Included' \subseteq Attested'  BY <1>2 DEF Roles
  <2> QED  BY <1>1, <1>2, <1>3, <1>8, <2>1, SelectionFrame
<1> QED  BY <1>3, <1>4, <1>5, <1>6, <1>8, <1>9, <1>10

(***************************************************************************)
(* One chunk of the selection, from the ledger r it loads.                 *)
(***************************************************************************)
LEMMA MinTarget ==
    ASSUME NEW n \in Nat
    PROVE  /\ Min({NumberOfWinners, n}) \in Nat
           /\ Min({NumberOfWinners, n}) = 0 => n = 0
<1> DEFINE wanted == NumberOfWinners
<1>1. wanted \in Nat /\ wanted # 0  BY MoneyAssumption
<1> HIDE DEF wanted
<1>2. Min({wanted, n}) \in {wanted, n}  BY <1>1, MinOf
<1>3. Min({wanted, n}) \in Nat /\ (Min({wanted, n}) = 0 => n = 0)  BY <1>1, <1>2
<1> QED  BY <1>3 DEF wanted

(* Nobody enters twice: as many wallets entered as there are indices. *)
LEMMA NobodyTwice ==
    ASSUME IInv, Eligible \subseteq Entered
    PROVE  Listed(roster, Eligible)
<1>1. /\ roster \in Seq(Candidates) /\ Len(roster) \in Nat /\ DOMAIN roster = 1..Len(roster)
      /\ Len(roster) = Cardinality(Entered)
  BY Sets DEF IInv, TypeOK, Counts
<1>2. IsFiniteSet(1..Len(roster)) /\ Cardinality(1..Len(roster)) = Len(roster)
  <2> DEFINE n == Len(roster)
  <2>1. n \in Nat  BY <1>1
  <2> HIDE DEF n
  <2>2. Cardinality(1..n) = IF 1 > n THEN 0 ELSE n - 1 + 1  BY <2>1, FS_Interval
  <2>3. IsFiniteSet(1..n)  BY <2>1, FS_Interval
  <2>4. Cardinality(1..n) = n  BY <2>1, <2>2
  <2> QED  BY <2>3, <2>4 DEF n
<1>3. roster \in Surjection(1..Len(roster), Entered)
  <2>1. roster \in [1..Len(roster) -> Entered]
    <3>1. \A i \in 1..Len(roster) : roster[i] \in Entered  BY <1>1 DEF Entered
    <3> QED  BY <1>1, <3>1
  <2>2. \A w \in Entered : \E i \in 1..Len(roster) : roster[i] = w
    BY <1>1 DEF Entered
  <2> QED  BY <2>1, <2>2 DEF Surjection
<1>4. roster \in Injection(1..Len(roster), Entered)
  BY <1>1, <1>2, <1>3, FS_SurjSameCardinalityImpliesInj
<1>5. \A i, j \in DOMAIN roster : i # j => roster[i] # roster[j]
  BY <1>1, <1>4 DEF Injection, IsInjective
<1> QED  BY <1>1, <1>5 DEF Listed, Entered

(* What FinalizeWinners finds when it may select: the ledger it goes on from,
   and that whoever attested is included. *)
LEMMA SelectionReady ==
    ASSUME IInv, ReadyToSelect
    PROVE  /\ LoadRoot.required_count = giveaway.participants_count
           /\ Attested # {} /\ Included = Attested /\ Eligible = Attested
           /\ Eligible \subseteq Entered /\ PublicationAllowed
           /\ ~Refundable /\ ~giveaway.winners_locked /\ ~giveaway.winners_computed
           /\ Listed(roster, Eligible)
           /\ SelectionInv(LoadRoot, roster, Eligible, NumberOfWinners)
<1> USE DEF IInv
<1>1. /\ Attested \in SUBSET Candidates /\ Included \in SUBSET Attested
      /\ Eligible = Included \ Disqualified
  BY Sets DEF Roles
<1>2. Cardinality(Attested) \in Nat /\ Cardinality(Included) \in Nat
  BY <1>1, CandidateCount
<1>3. /\ giveaway.attested_count > 0 /\ ~HasMissing /\ PublicationAllowed
      /\ ~giveaway.winners_locked /\ now < SettlementDeadline
  BY DEF ReadyToSelect, Finalizing
<1>4. Cardinality(Attested) > 0 /\ Cardinality(Included) >= Cardinality(Attested)
  BY <1>2, <1>3 DEF Counts, HasMissing
<1>5. Attested # {}  BY <1>1, <1>4, SubCount
<1>6. Included = Attested
  <2>1. Cardinality(Included) <= Cardinality(Attested)  BY <1>1, SubCount
  <2> QED  BY <1>1, <1>2, <1>4, <2>1, SubCount
<1>7. Eligible = Attested  BY <1>1, <1>6 DEF Roles
<1>8. ~Refundable
  <2>1. Entered \in SUBSET Candidates /\ Entered # {}  BY <1>5, Sets DEF Roles
  <2>2. Cardinality(Entered) # 0  BY <2>1, SubCount
  <2>3. giveaway.participants_count # 0 /\ giveaway.attested_count # 0
    BY <1>3, <2>2 DEF Counts
  <2>4. ~(now >= SettlementDeadline)  BY <1>3, Schedule DEF TypeOK
  <2> QED  BY <1>3, <2>3, <2>4 DEF Refundable, NobodyAttested, RemediationExpired
<1>9. Listed(roster, Eligible)
  <2>1. Eligible \subseteq Entered  BY <1>7 DEF Roles
  <2> QED  BY <2>1, NobodyTwice
<1>10. SelectionInv(LoadRoot, roster, Eligible, NumberOfWinners)
  <2>1. CASE root.phase = "none"
    <3>1. LoadRoot = NewRoot(Len(roster))  BY <2>1 DEF LoadRoot, Counts
    <3> QED  BY <1>9, <3>1, NewSelection, MoneyAssumption
  <2>2. CASE root.phase # "none"
    BY <2>2 DEF LoadRoot, Drawing
  <2> QED  BY <2>1, <2>2
<1>11. LoadRoot.required_count = giveaway.participants_count
  BY <1>10 DEF SelectionInv, ShapedRoot, Counts
<1> QED  BY <1>3, <1>5, <1>6, <1>7, <1>8, <1>9, <1>10, <1>11 DEF Roles, Drawing

(* The selection that is complete has winners: somebody attested. *)
LEMMA CompletedFound ==
    ASSUME NEW r, NEW order, NEW E \in SUBSET Candidates, E # {},
           SelectionInv(r, order, E, NumberOfWinners), r.phase = "completed"
    PROVE  Found(r, E, NumberOfWinners)
<1>1. Cardinality(E) \in Nat /\ Cardinality(E) # 0  BY CandidateCount, FS_EmptySet
<1>2. Min({NumberOfWinners, Cardinality(E)}) # 0  BY <1>1, MinTarget
<1>3. AtEnd(r, E, NumberOfWinners)
  BY DEF SelectionInv, AtAggregation, AtRadix, AtResolution, AtEmission
<1> QED  BY <1>2, <1>3 DEF AtEnd

LEMMA ChunkSelects ==
    ASSUME IInv, NEW byProvider, NEW last, NEW seed, FinalizeChunk(byProvider, last, seed)
    PROVE  /\ SelectionInv(root', roster, Eligible, NumberOfWinners) /\ root' \in RootType
           /\ root'.phase # "none"
<1>1. /\ ReadyToSelect
      /\ SelectChunk(LoadRoot, roster, Eligible, last, NumberOfWinners, seed)
  BY DEF FinalizeChunk
<1>2. /\ Listed(roster, Eligible)
      /\ SelectionInv(LoadRoot, roster, Eligible, NumberOfWinners)
  BY <1>1, SelectionReady
<1>3. SelectionInv(root', roster, Eligible, NumberOfWinners)
  BY <1>1, <1>2, ChunkKeeps, MoneyAssumption
<1>4. root' \in RootType  BY <1>3 DEF SelectionInv, ShapedRoot
<1>5. root'.phase # "none"
  BY <1>3 DEF SelectionInv, AtAggregation, AtRadix, AtResolution, AtEmission, AtEnd
<1> QED  BY <1>3, <1>4, <1>5

LEMMA FinalizeChunkStep ==
    ASSUME IInv, NEW byProvider, NEW last, NEW seed, FinalizeChunk(byProvider, last, seed)
    PROVE  IInv' /\ PoolKept /\ RefundKept
<1> DEFINE g == [giveaway EXCEPT !.uploads_complete = @ \/ RevealsComplete]
<1> USE DEF IInv
<1>1. /\ ReadyToSelect /\ LoadRoot.required_count = giveaway.participants_count
      /\ SelectChunk(LoadRoot, roster, Eligible, last, NumberOfWinners, seed)
      /\ \/ root'.phase # "completed" /\ giveaway' = g /\ ledger' = ledger
         \/ root'.phase = "completed" /\ Locked(g, root')
      /\ now' = now /\ participant' = participant /\ roster' = roster /\ money' = money
  BY DEF FinalizeChunk
<1>2. SelectionInv(root', roster, Eligible, NumberOfWinners) /\ root' \in RootType
      /\ root'.phase # "none"
  BY ChunkSelects
<1>3. /\ Attested # {} /\ Included = Attested /\ PublicationAllowed
      /\ ~Refundable /\ ~giveaway.winners_locked /\ ~giveaway.winners_computed
      /\ Eligible = Attested
  BY <1>1, SelectionReady
<1>4. /\ Attested' = Attested /\ Included' = Included /\ Eligible' = Eligible
      /\ Disqualified' = Disqualified /\ Entered' = Entered
      /\ \A w \in Candidates : participant'[w].open = participant[w].open
  BY <1>1 DEF Attested, Included, Disqualified, Entered, Eligible
<1>5. g \in GiveawayType
  <2>1. (giveaway.uploads_complete \/ RevealsComplete) \in BOOLEAN
    BY DEF RevealsComplete, TypeOK, GiveawayType
  <2> QED  BY <2>1 DEF TypeOK, GiveawayType
<1>6. /\ giveaway' \in GiveawayType
      /\ giveaway'.winners_computed = (root'.phase = "completed")
      /\ giveaway'.winners_locked = (root'.phase = "completed")
      /\ giveaway'.participants_count = giveaway.participants_count
      /\ giveaway'.disqualified_count = giveaway.disqualified_count
      /\ giveaway'.attested_count = giveaway.attested_count
      /\ giveaway'.provider_uploaded_count = giveaway.provider_uploaded_count
      /\ giveaway'.settled = giveaway.settled
      /\ giveaway'.remediation_start = giveaway.remediation_start
      /\ giveaway'.remediation_deadline = giveaway.remediation_deadline
  <2>1. /\ g.winners_computed = FALSE /\ g.winners_locked = FALSE
        /\ g.participants_count = giveaway.participants_count
        /\ g.disqualified_count = giveaway.disqualified_count
        /\ g.attested_count = giveaway.attested_count
        /\ g.provider_uploaded_count = giveaway.provider_uploaded_count
        /\ g.settled = giveaway.settled
        /\ g.remediation_start = giveaway.remediation_start
        /\ g.remediation_deadline = giveaway.remediation_deadline
    BY <1>3 DEF TypeOK, GiveawayType
  <2> HIDE DEF g
  <2> QED  BY <1>1, <1>5, <2>1 DEF Locked, GiveawayType
<1>7. /\ ledger' \in LedgerType
      /\ root'.phase = "completed" =>
            /\ ledger'.seed = root'.seed
            /\ ledger'.threshold_key = root'.threshold_key
            /\ ledger'.winners_count = root'.target_winners
            /\ ledger'.per_winner = PerWinner(root'.target_winners)
            /\ ledger'.winners_count > 0
  <2>1. CASE root'.phase # "completed"  BY <1>1, <2>1 DEF TypeOK
  <2>2. CASE root'.phase = "completed"
    <3>1. /\ root'.seed \in Seeds /\ root'.threshold_key \in Keys \cup {NoKey}
          /\ root'.target_winners \in Nat /\ root'.target_winners > 0
      <4>1. Eligible \in SUBSET Candidates /\ Eligible # {}
        BY <1>3 DEF Eligible
      <4>2. Found(root', Eligible, NumberOfWinners)
        BY <1>2, <2>2, <4>1, CompletedFound
      <4> QED  BY <1>2, <4>2, RootFields DEF Found, Seeded
    <3>2. PerWinner(root'.target_winners) \in Nat  BY <3>1, PerWinnerNat
    <3>3. ledger' = [NoLedger EXCEPT !.seed = root'.seed,
                                     !.threshold_key = root'.threshold_key,
                                     !.winners_count = root'.target_winners,
                                     !.per_winner = PerWinner(root'.target_winners)]
      BY <1>1, <2>2 DEF Locked
    <3>4. 0 \in 0..U32Max  BY LimitAssumption
    <3> QED  BY <3>1, <3>2, <3>3, <3>4 DEF NoLedger, LedgerType
  <2> QED  BY <2>1, <2>2
<1>8. TypeOK'  BY <1>1, <1>6, <1>7 DEF TypeOK, money
<1>9. Counts'  BY <1>1, <1>4, <1>6 DEF Counts
<1>10. Roles'
  <2>1. Entered \in SUBSET Candidates  BY Sets
  <2> QED  BY <1>4, <1>6, <2>1 DEF Roles
<1>11. Times'  BY <1>1, <1>4, <1>6 DEF Times
<1>12. SamePool  BY <1>1, <1>4, <1>6 DEF SamePool, TypeOK
<1>13. PoolKept  BY <1>12, PoolFrame
<1>14. RefundKept  BY <1>3 DEF RefundKept
<1>15. Drawing'
  <2>1. SelectionInv(root', roster', Eligible', NumberOfWinners)  BY <1>1, <1>2, <1>4
  <2> QED  BY <1>2, <1>3, <1>4, <1>6, <1>7, <1>13, <2>1 DEF Drawing, PoolKept
<1> QED  BY <1>8, <1>9, <1>10, <1>11, <1>13, <1>14, <1>15

------------------------------------------------------------------------------
(***************************************************************************)
(* The invariant, and what follows from it.                                *)
(***************************************************************************)
LEMMA InitInv == ASSUME Init PROVE IInv
<1>1. /\ giveaway = NewGiveaway /\ roster = << >> /\ root = NoRoot /\ ledger = NoLedger
      /\ participant = [w \in Candidates |-> NewParticipant] /\ now \in Nat
      /\ vault = TotalPayout + VaultRent /\ provider_fee = 0 /\ creator_refund = 0
      /\ received = [w \in Candidates |-> 0]
  BY ScheduleAssumption DEF Init
<1>2. TypeOK
  <2>1. 0 \in Counter /\ 0 \in 0..U32Max /\ vault \in Nat
    BY <1>1, LimitAssumption, MoneyAssumption DEF Counter
  <2>2. giveaway \in GiveawayType  BY <1>1, <2>1 DEF NewGiveaway, GiveawayType
  <2>3. ledger \in LedgerType  BY <1>1, <2>1 DEF NoLedger, LedgerType
  <2>4. participant \in [Candidates -> ParticipantType]
    BY <1>1 DEF NewParticipant, ParticipantType
  <2> QED  BY <1>1, <2>1, <2>2, <2>3, <2>4 DEF TypeOK
<1>3. /\ Attested = {} /\ Disqualified = {} /\ Included = {} /\ Entered = {}
      /\ \A w \in Candidates : ~participant[w].open
  BY <1>1 DEF Attested, Disqualified, Included, Entered, NewParticipant
<1>4. Counts  BY <1>1, <1>3, FS_EmptySet DEF Counts, NewGiveaway
<1>5. Roles  BY <1>3 DEF Roles
<1>6. Times  BY <1>1, <1>3 DEF Times, NewGiveaway
<1>7. Drawing
  <2>1. root = NoRoot /\ root.phase = "none"  BY <1>1 DEF NoRoot
  <2>2. ~giveaway.winners_computed /\ ~giveaway.winners_locked
    BY <1>1 DEF NewGiveaway
  <2>3. giveaway.winners_computed = giveaway.winners_locked  BY <1>1 DEF NewGiveaway
  <2>4. giveaway.winners_locked = (root.phase = "completed")
    BY <1>1, <2>1 DEF NewGiveaway, NoRoot
  <2> QED  BY <2>1, <2>2, <2>3, <2>4 DEF Drawing
<1> QED  BY <1>2, <1>4, <1>5, <1>6, <1>7 DEF IInv

LEMMA StepInv ==
    ASSUME IInv, [Next]_vars
    PROVE  IInv' /\ PoolKept /\ RefundKept
<1>1. CASE \E w \in Candidates : Participate(w)  BY <1>1, ParticipateStep
<1>2. CASE \E w \in Candidates : DisqualifyParticipant(w)  BY <1>2, DisqualifyStep
<1>3. CASE \E w \in Candidates : AttestUploaded(w)  BY <1>3, AttestUploadedStep
<1>4. CASE \E w \in Candidates : AttestReveal(w)  BY <1>4, AttestRevealStep
<1>5. CASE \E byProvider \in BOOLEAN, S \in SUBSET Candidates : UploadReveals(byProvider, S)
  BY <1>5, UploadRevealsStep
<1>6. CASE \E byProvider \in BOOLEAN : BeginRemediation(byProvider)
  BY <1>6, BeginRemediationStep
<1>7. CASE \E byProvider \in BOOLEAN, last \in 1..Len(roster), seed \in Drawn :
              FinalizeChunk(byProvider, last, seed)
  BY <1>7, FinalizeChunkStep
<1>8. CASE \E batch \in Batches : MayIdle(batch) /\ SettlePayoutBatch(batch)
  BY <1>8, SettlePayoutBatchStep
<1>9. CASE SettleGiveaway  BY <1>9, SettleGiveawayStep
<1>10. CASE \E w \in Candidates : CloseParticipant(w)  BY <1>10, CloseParticipantStep
<1>11. CASE Tick \/ UNCHANGED vars  BY <1>11, TickStep
<1> QED
  BY <1>1, <1>2, <1>3, <1>4, <1>5, <1>6, <1>7, <1>8, <1>9, <1>10, <1>11 DEF Next

LEMMA InvAlways == Spec => []IInv
<1>1. IInv /\ [Next]_vars => IInv'  BY StepInv
<1> QED  BY InitInv, <1>1, PTL DEF Spec

(* Account fields keep their ranges in every reachable state: a participant
   counted on two paths is counted once (attest_uploaded.rs, attest_reveal.rs,
   upload_reveals.rs). *)
THEOREM TypeCorrect == Spec => []TypeOK
<1>1. IInv => TypeOK  BY DEF IInv
<1> QED  BY InvAlways, <1>1, PTL

(* Once the first chunk of the selection is accepted, exactly those who
   attested are in it (finalize_winners.rs, handle_missing_reveals). *)
THEOREM AttestedRevealsKept == Spec => []NoAttestedRevealOmitted
<1>1. IInv => NoAttestedRevealOmitted
  <2>1. ASSUME IInv PROVE NoAttestedRevealOmitted
    <3>1. Eligible = Included \ Disqualified  BY <2>1, Sets DEF IInv
    <3> QED  BY <2>1, <3>1 DEF IInv, Drawing, Roles, NoAttestedRevealOmitted
  <2> QED  BY <2>1
<1> QED  BY InvAlways, <1>1, PTL

(* LockWinners and SettleNoEligibleGiveaway never find anything to do
   (lock_winners.rs, settle_no_eligible_giveaway.rs). *)
THEOREM LegacyDead == Spec => []LegacyPathsDead
<1>1. IInv => LegacyPathsDead
  BY DEF IInv, Drawing, LegacyPathsDead, MayLockWinners, MaySettleNoEligible
<1> QED  BY InvAlways, <1>1, PTL

(* Once reveals may be public, nobody joins, attests or is disqualified any
   more (reveal_publication_allowed, disqualify_participant.rs). *)
THEOREM PoolCloses == Spec => EntropyPoolClosed
<1>1. IInv /\ [Next]_vars =>
        [PublicationAllowed =>
            /\ PublicationAllowed'
            /\ Attested' = Attested
            /\ Disqualified' = Disqualified]_vars
  BY StepInv DEF PoolKept
<1> QED  BY InvAlways, <1>1, PTL DEF Spec, EntropyPoolClosed

(* A giveaway that may be refunded stays so, until it is (refund_reason). *)
THEOREM RefundStays == Spec => RefundableForever
<1>1. IInv /\ [Next]_vars => [Refundable => Refundable']_vars
  BY StepInv DEF RefundKept
<1> QED  BY InvAlways, <1>1, PTL DEF Spec, RefundableForever

(* What is locked: the winners the selection r found among E. *)
WinnersOf(l, E) == {w \in E : Wins(l, w)}

LEMMA CompletedWinners ==
    ASSUME NEW r, NEW order, NEW E \in SUBSET Candidates, E # {},
           SelectionInv(r, order, E, NumberOfWinners), r.phase = "completed",
           NEW l, l.seed = r.seed, l.threshold_key = r.threshold_key,
           l.winners_count = r.target_winners
    PROVE  /\ WinnersOf(l, E) =
                  Smallest(E, Min({NumberOfWinners, Cardinality(E)}), l.seed)
           /\ Cardinality(WinnersOf(l, E)) = l.winners_count
           /\ l.winners_count \in 1..NumberOfWinners
<1>1. Found(r, E, NumberOfWinners)  BY CompletedFound
<1>2. \A w : Wins(l, w) <=> Wins(r, w)  BY DEF Wins
<1>3. /\ {w \in E : Wins(r, w)} =
             Smallest(E, Min({NumberOfWinners, Cardinality(E)}), r.seed)
      /\ Cardinality({w \in E : Wins(r, w)}) = r.target_winners
  BY <1>1, FoundAreSmallest
<1>4. r.target_winners \in 1..NumberOfWinners
  <2>1. Cardinality(E) \in Nat  BY CandidateCount
  <2>2. r.target_winners = Min({NumberOfWinners, Cardinality(E)}) /\ r.target_winners > 0
    BY <1>1 DEF Found, Seeded
  <2>3. NumberOfWinners \in Nat  BY MoneyAssumption
  <2>4. /\ Min({NumberOfWinners, Cardinality(E)}) \in Nat
        /\ Min({NumberOfWinners, Cardinality(E)}) <= NumberOfWinners
    BY <2>1, <2>3, MinOf
  <2> QED  BY <2>2, <2>3, <2>4
<1>5. WinnersOf(l, E) = {w \in E : Wins(r, w)}  BY <1>2 DEF WinnersOf
<1> QED  BY <1>3, <1>4, <1>5

(* The locked winners are the smallest keys among all that attested
   (finalize_winners.rs, finalize_settlement_root). *)
THEOREM DrawIsSound == Spec => []DrawSound
<1>1. ASSUME IInv, giveaway.winners_locked
      PROVE  {w \in Eligible : Wins(ledger, w)} =
             Smallest(Attested, Min({NumberOfWinners, Cardinality(Attested)}), ledger.seed)
  <2>1. /\ root.phase = "completed"
        /\ SelectionInv(root, roster, Eligible, NumberOfWinners)
        /\ Attested # {} /\ Included = Attested
        /\ ledger.seed = root.seed /\ ledger.threshold_key = root.threshold_key
        /\ ledger.winners_count = root.target_winners
    BY <1>1 DEF IInv, Drawing
  <2>2. Eligible = Attested /\ Eligible \in SUBSET Candidates
    BY <1>1, <2>1, Sets DEF IInv, Roles
  <2>3. Eligible # {}  BY <2>1, <2>2
  <2>4. WinnersOf(ledger, Eligible) =
            Smallest(Eligible, Min({NumberOfWinners, Cardinality(Eligible)}), ledger.seed)
    BY <2>1, <2>2, <2>3, CompletedWinners
  <2> QED  BY <2>2, <2>4 DEF WinnersOf
<1>2. IInv => DrawSound  BY <1>1 DEF DrawSound
<1> QED  BY InvAlways, <1>2, PTL

------------------------------------------------------------------------------
(***************************************************************************)
(* The giveaway implements the prize.  PrizeInv says what the accounts     *)
(* have been paid so far, beside IInv; the money itself is the abstract    *)
(* specification's.                                                        *)
(***************************************************************************)
Paid == {w \in Candidates : participant[w].paid}

PrizeInv ==
    /\ Paid \subseteq PrizeWinners
    /\ ledger.paid_count = Cardinality(Paid)
    /\ ~giveaway.winners_locked => ledger = NoLedger
    /\ ~giveaway.settled => provider_fee = 0 /\ creator_refund = 0
    /\ ~giveaway.settled /\ giveaway.winners_locked => Paid # PrizeWinners

PrizeQuiet ==
    /\ UNCHANGED <<vault, received, provider_fee, creator_refund, ledger>>
    /\ giveaway'.settled = giveaway.settled
    /\ giveaway'.winners_locked = giveaway.winners_locked
    /\ Paid' = Paid

(* While winners are locked, they are the same. *)
LEMMA WinnersKept ==
    ASSUME IInv, IInv', PoolKept, giveaway'.winners_locked = giveaway.winners_locked,
           ledger'.seed = ledger.seed, ledger'.threshold_key = ledger.threshold_key
    PROVE  PrizeWinners' = PrizeWinners
<1>1. CASE ~giveaway.winners_locked  BY <1>1 DEF PrizeWinners
<1>2. CASE giveaway.winners_locked
  <2>1. root.phase = "completed" /\ PublicationAllowed /\ Included = Attested
    BY <1>2 DEF IInv, Drawing
  <2>2. giveaway'.winners_locked /\ root'.phase = "completed" /\ Included' = Attested'
    BY <1>2 DEF IInv, Drawing
  <2>3. Attested' = Attested /\ Disqualified' = Disqualified  BY <2>1 DEF PoolKept
  <2>4. Eligible = Included \ Disqualified /\ Eligible' = Included' \ Disqualified'
    BY DEF Eligible, Included, Disqualified
  <2>5. Eligible' = Eligible  BY <2>1, <2>2, <2>3, <2>4
  <2>6. \A w : Wins(ledger', w) <=> Wins(ledger, w)  BY DEF Wins
  <2>7. PrizeWinners' = {w \in Eligible' : Wins(ledger', w)}
    BY <2>2 DEF PrizeWinners
  <2> QED  BY <1>2, <2>5, <2>6, <2>7 DEF PrizeWinners
<1> QED  BY <1>1, <1>2

LEMMA QuietKeeps ==
    ASSUME IInv, IInv', PoolKept, PrizeInv, PrizeQuiet
    PROVE  PrizeInv' /\ UNCHANGED P!pvars
<1>1. PrizeWinners' = PrizeWinners  BY WinnersKept DEF PrizeQuiet
<1>2. PrizeStage' = PrizeStage  BY DEF PrizeStage, PrizeQuiet
<1>3. PrizeInv'  BY <1>1 DEF PrizeInv, PrizeQuiet
<1> QED  BY <1>1, <1>2, <1>3 DEF P!pvars, PrizeQuiet, Paid

(* Entering, attesting, uploading, closing an account and selecting, but for
   the chunk that locks the winners, move no money. *)
LEMMA QuietSteps ==
    ASSUME IInv, PrizeInv,
           \/ \E w \in Candidates :
                 \/ Participate(w) \/ DisqualifyParticipant(w) \/ AttestUploaded(w)
                 \/ AttestReveal(w) \/ CloseParticipant(w)
           \/ \E byProvider \in BOOLEAN, S \in SUBSET Candidates : UploadReveals(byProvider, S)
           \/ \E byProvider \in BOOLEAN : BeginRemediation(byProvider)
           \/ \E byProvider, last, seed :
                 FinalizeChunk(byProvider, last, seed) /\ root'.phase # "completed"
           \/ Tick \/ UNCHANGED vars
    PROVE  PrizeQuiet
<1>1. /\ giveaway \in GiveawayType /\ participant \in [Candidates -> ParticipantType]
  BY DEF IInv, TypeOK
<1>2. ASSUME NEW w \in Candidates, Participate(w)  PROVE PrizeQuiet
  <2>1. w \notin Paid
    <3>1. Paid \subseteq Entered
      <4>1. PrizeWinners \subseteq Eligible  BY DEF PrizeWinners
      <4>2. Eligible \subseteq Included  BY DEF Eligible, Included
      <4> QED  BY <4>1, <4>2 DEF PrizeInv, IInv, Roles
    <3> QED  BY <1>2, <3>1 DEF Participate, IInv, Roles
  <2>2. Paid' = Paid
    <3>1. participant' = [participant EXCEPT ![w] = [NewParticipant EXCEPT !.open = TRUE]]
      BY <1>2 DEF Participate
    <3> QED  BY <1>1, <2>1, <3>1 DEF Paid, NewParticipant
  <2> QED  BY <1>1, <1>2, <2>2 DEF Participate, PrizeQuiet, GiveawayType, money
<1>3. ASSUME NEW w \in Candidates,
             DisqualifyParticipant(w) \/ AttestUploaded(w) \/ CloseParticipant(w)
      PROVE  PrizeQuiet
  <2>1. Paid' = Paid
    BY <1>1, <1>3
    DEF DisqualifyParticipant, AttestUploaded, CloseParticipant, Paid, ParticipantType
  <2>2. /\ giveaway'.settled = giveaway.settled
        /\ giveaway'.winners_locked = giveaway.winners_locked
    BY <1>1, <1>3 DEF DisqualifyParticipant, AttestUploaded, CloseParticipant, GiveawayType
  <2> QED
    BY <1>3, <2>1, <2>2
    DEF DisqualifyParticipant, AttestUploaded, CloseParticipant, PrizeQuiet, money
<1>4. ASSUME NEW w \in Candidates, AttestReveal(w)  PROVE PrizeQuiet
  <2>1. Paid' = Paid  BY <1>1, <1>4 DEF AttestReveal, Paid, ParticipantType
  <2>2. /\ giveaway'.settled = giveaway.settled
        /\ giveaway'.winners_locked = giveaway.winners_locked
    <3>1. giveaway' = WithReveals(AttestedOnReveal(w), 1)  BY <1>4 DEF AttestReveal
    <3> QED  BY <1>1, <3>1 DEF AttestedOnReveal, WithReveals, GiveawayType
  <2> QED  BY <1>4, <2>1, <2>2 DEF AttestReveal, PrizeQuiet, money
<1>5. ASSUME NEW byProvider \in BOOLEAN, NEW S \in SUBSET Candidates,
             UploadReveals(byProvider, S)
      PROVE  PrizeQuiet
  <2>1. Paid' = Paid
    <3>1. participant' = [w \in Candidates |->
              IF w \in S THEN [participant[w] EXCEPT !.included = TRUE] ELSE participant[w]]
      BY <1>5 DEF UploadReveals
    <3> QED  BY <1>1, <3>1 DEF Paid, ParticipantType
  <2>2. /\ giveaway'.settled = giveaway.settled
        /\ giveaway'.winners_locked = giveaway.winners_locked
    <3>1. PICK g : /\ giveaway' = WithReveals(g, Cardinality(S))
                   /\ g = giveaway \/ g = BegunRemediation(giveaway)
      BY <1>5 DEF UploadReveals
    <3> QED  BY <1>1, <3>1 DEF BegunRemediation, WithReveals, GiveawayType
  <2> QED  BY <1>5, <2>1, <2>2 DEF UploadReveals, PrizeQuiet, money
<1>6. ASSUME NEW byProvider \in BOOLEAN, BeginRemediation(byProvider)  PROVE PrizeQuiet
  <2>1. /\ giveaway' = BegunRemediation(giveaway) /\ participant' = participant
        /\ ledger' = ledger /\ money' = money
    BY <1>6 DEF BeginRemediation
  <2> QED  BY <1>1, <2>1 DEF BegunRemediation, GiveawayType, PrizeQuiet, Paid, money
<1>7. ASSUME NEW byProvider, NEW last, NEW seed, FinalizeChunk(byProvider, last, seed),
             root'.phase # "completed"
      PROVE  PrizeQuiet
  <2>1. /\ giveaway' = [giveaway EXCEPT !.uploads_complete = @ \/ RevealsComplete]
        /\ participant' = participant /\ ledger' = ledger /\ money' = money
    BY <1>7 DEF FinalizeChunk
  <2> QED  BY <1>1, <2>1 DEF GiveawayType, PrizeQuiet, Paid, money
<1>8. ASSUME Tick \/ UNCHANGED vars  PROVE PrizeQuiet
  BY <1>8 DEF Tick, vars, PrizeQuiet, Paid, money
<1> QED  BY <1>2, <1>3, <1>4, <1>5, <1>6, <1>7, <1>8

(* The cardinality the instance uses is the one used here. *)
LEMMA SameCardinality == \A S : P!Cardinality(S) = Cardinality(S)
BY DEF P!Cardinality, Cardinality

LEMMA AwardStep ==
    ASSUME IInv, IInv', PrizeInv, NEW byProvider, NEW last, NEW seed,
           FinalizeChunk(byProvider, last, seed), root'.phase = "completed"
    PROVE  PrizeInv' /\ P!Next
<1>1. /\ ReadyToSelect /\ LoadRoot.required_count = giveaway.participants_count
      /\ Locked([giveaway EXCEPT !.uploads_complete = @ \/ RevealsComplete], root')
      /\ participant' = participant /\ money' = money
  BY DEF FinalizeChunk
<1>2. /\ ~giveaway.winners_locked /\ ~giveaway.settled /\ Eligible' = Eligible
      /\ ledger = NoLedger /\ Paid' = Paid
  BY <1>1, SelectionReady DEF ReadyToSelect, Finalizing, PrizeInv, Paid, Eligible
<1>3. giveaway'.winners_locked /\ giveaway'.settled = giveaway.settled
  <2>1. giveaway \in GiveawayType  BY DEF IInv, TypeOK
  <2> QED  BY <1>1, <2>1 DEF Locked, GiveawayType
<1>4. /\ SelectionInv(root', roster', Eligible', NumberOfWinners)
      /\ ledger'.seed = root'.seed /\ ledger'.threshold_key = root'.threshold_key
      /\ ledger'.winners_count = root'.target_winners
      /\ ledger'.per_winner = PerWinner(root'.target_winners)
      /\ Attested' # {} /\ Included' = Attested'
  BY <1>3 DEF IInv, Drawing
<1>5. Eligible' \in SUBSET Candidates /\ Eligible' # {}
  <2>1. Eligible = Attested /\ Attested' = Attested /\ Eligible \in SUBSET Candidates
    BY <1>1, SelectionReady DEF Attested, Eligible
  <2> QED  BY <1>2, <1>4, <2>1
<1>6. PICK W : W = WinnersOf(ledger', Eligible')  OBVIOUS
<1>7. PrizeWinners' = W  BY <1>3, <1>6 DEF PrizeWinners, WinnersOf
<1>8. /\ Cardinality(W) = ledger'.winners_count
      /\ ledger'.winners_count \in 1..NumberOfWinners
  BY <1>4, <1>5, <1>6, CompletedWinners
<1>9. W \in SUBSET Candidates /\ W # {}
  <2>1. W \in SUBSET Candidates  BY <1>5, <1>6 DEF WinnersOf
  <2>2. Cardinality(W) # 0  BY <1>8, MoneyAssumption
  <2> QED  BY <2>1, <2>2, FS_EmptySet
<1>10. /\ ledger'.per_winner = WinnersPool \div Cardinality(W)
       /\ WinnersPool \div Cardinality(W) > 0
  <2>1. Cardinality(W) # 0 /\ Cardinality(W) \in Nat  BY <1>8, MoneyAssumption
  <2>2. ledger'.per_winner = WinnersPool \div Cardinality(W)
    BY <1>4, <1>8, <2>1 DEF PerWinner
  <2>3. PerWinner(root'.target_winners) >= 1
    BY <1>1, <1>4, <1>8, MoneyAssumption DEF Locked, MayLock, MinWinnerPayout
  <2>4. PerWinner(root'.target_winners) \in Nat
    <3>1. root'.target_winners \in Nat  BY <1>4, <1>8, MoneyAssumption
    <3> QED  BY <3>1, PerWinnerNat
  <2> DEFINE x == WinnersPool \div Cardinality(W)
  <2>5. x = PerWinner(root'.target_winners)  BY <1>4, <2>2
  <2> HIDE DEF x
  <2>6. x > 0  BY <2>3, <2>4, <2>5
  <2> QED  BY <2>2, <2>6 DEF x
<1>11. P!Award(W)
  <2>1. PrizeStage = "open" /\ PrizeStage' = "awarded"  BY <1>2, <1>3 DEF PrizeStage
  <2>2. Cardinality(W) <= NumberOfWinners  BY <1>8, MoneyAssumption
  <2>3. UNCHANGED <<vault, received, provider_fee, creator_refund>>  BY <1>1 DEF money
  <2>4. UNCHANGED {w \in Candidates : participant[w].paid}  BY <1>1
  <2> QED  BY <1>7, <1>9, <1>10, <2>1, <2>2, <2>3, <2>4, SameCardinality DEF P!Award
<1>12. Paid = {}  BY <1>2 DEF PrizeInv, PrizeWinners
<1>13. PrizeInv'
  <2>1. ledger'.paid_count = 0  BY <1>1 DEF Locked, NoLedger
  <2>2. Cardinality(Paid') = 0  BY <1>2, <1>12, FS_EmptySet
  <2>3. UNCHANGED <<provider_fee, creator_refund>>  BY <1>1 DEF money
  <2> QED  BY <1>2, <1>3, <1>7, <1>9, <1>12, <2>1, <2>2, <2>3 DEF PrizeInv
<1> QED  BY <1>9, <1>11, <1>13 DEF P!Next

LEMMA CancelStep ==
    ASSUME IInv, PrizeInv, SettleGiveaway
    PROVE  PrizeInv' /\ P!Next
<1>1. /\ ~giveaway.settled /\ ~giveaway.winners_locked
      /\ creator_refund' = creator_refund + vault /\ vault' = 0
      /\ giveaway' = [giveaway EXCEPT !.settled = TRUE]
      /\ UNCHANGED <<participant, ledger, received, provider_fee>>
  BY DEF SettleGiveaway, Refundable
<1>2. giveaway'.settled /\ ~giveaway'.winners_locked
  <2>1. giveaway \in GiveawayType  BY DEF IInv, TypeOK
  <2> QED  BY <1>1, <2>1 DEF GiveawayType
<1>3. /\ PrizeStage = "open" /\ PrizeStage' = "closed"
      /\ PrizeWinners = {} /\ PrizeWinners' = {}
  BY <1>1, <1>2 DEF PrizeStage, PrizeWinners
<1>4. creator_refund' = vault
  <2>1. creator_refund = 0 /\ vault \in Nat  BY <1>1 DEF PrizeInv, IInv, TypeOK
  <2> QED  BY <1>1, <2>1
<1>5. P!Cancel  BY <1>1, <1>3, <1>4 DEF P!Cancel
<1>6. PrizeInv'  BY <1>1, <1>2, <1>3 DEF PrizeInv, Paid
<1> QED  BY <1>5, <1>6 DEF P!Next

(* A batch pays each wallet it names at most once, and only those not paid
   before. *)
PaidBy(batch) == {batch[i] : i \in PayingPositions(batch)}

LEMMA BatchPays ==
    ASSUME NEW batch \in Batches
    PROVE  /\ PaidBy(batch) \in SUBSET Candidates
           /\ PaidBy(batch) \cap Paid = {}
           /\ \A w \in PaidBy(batch) : \E i \in DOMAIN batch : batch[i] = w
           /\ Cardinality(PayingPositions(batch)) = Cardinality(PaidBy(batch))
           /\ \A w \in Candidates : PaidTo(batch, w) = IF w \in PaidBy(batch) THEN 1 ELSE 0
<1> DEFINE pp == PayingPositions(batch)
<1>1. PICK k \in 1..MaxBatch : batch \in [1..k -> Candidates]
  BY DEF Batches
<1>2. k \in Nat /\ DOMAIN batch = 1..k  BY <1>1, LimitAssumption
<1>3. pp \in SUBSET (1..k) /\ IsFiniteSet(pp)
  <2>1. IsFiniteSet(1..k)  BY <1>2, FS_Interval
  <2> QED  BY <1>2, <2>1, FS_Subset DEF PayingPositions
<1>4. ASSUME NEW i \in pp, NEW j \in pp, batch[i] = batch[j]
      PROVE  i = j
  <2>1. i \in Nat /\ j \in Nat  BY <1>2, <1>3
  <2>2. ~(i < j)
    <3> SUFFICES ASSUME i < j  PROVE FALSE
      OBVIOUS
    <3>1. i \in 1..(j - 1)  BY <1>2, <1>3, <2>1
    <3> QED  BY <1>4, <3>1 DEF PayingPositions
  <2>3. ~(j < i)
    <3> SUFFICES ASSUME j < i  PROVE FALSE
      OBVIOUS
    <3>1. j \in 1..(i - 1)  BY <1>2, <1>3, <2>1
    <3> QED  BY <1>4, <3>1 DEF PayingPositions
  <2> QED  BY <2>1, <2>2, <2>3
<1>5. /\ \A i \in pp : batch[i] \in Candidates /\ ~participant[batch[i]].paid
  BY <1>1, <1>3 DEF PayingPositions
<1>6. /\ PaidBy(batch) \in SUBSET Candidates /\ PaidBy(batch) \cap Paid = {}
      /\ \A w \in PaidBy(batch) : \E i \in DOMAIN batch : batch[i] = w
  BY <1>2, <1>3, <1>5 DEF PaidBy, Paid
<1>7. Cardinality(pp) = Cardinality(PaidBy(batch))
  <2> DEFINE f == [i \in pp |-> batch[i]]
  <2>1. f \in Surjection(pp, PaidBy(batch))  BY DEF Surjection, PaidBy
  <2>2. f \in Injection(pp, PaidBy(batch))
    BY <1>4 DEF Injection, IsInjective, PaidBy
  <2> HIDE DEF f
  <2> QED  BY <1>3, <2>1, <2>2, FS_Surjection
<1>8. ASSUME NEW w \in Candidates
      PROVE  PaidTo(batch, w) = IF w \in PaidBy(batch) THEN 1 ELSE 0
  <2>1. CASE w \in PaidBy(batch)
    <3>1. PICK i \in pp : batch[i] = w  BY <2>1 DEF PaidBy
    <3>2. {j \in pp : batch[j] = w} = {i}  BY <1>4, <3>1
    <3> QED  BY <2>1, <3>2, FS_Singleton DEF PaidTo
  <2>2. CASE w \notin PaidBy(batch)
    <3>1. {j \in pp : batch[j] = w} = {}  BY <2>2 DEF PaidBy
    <3> QED  BY <2>2, <3>1, FS_EmptySet DEF PaidTo
  <2> QED  BY <2>1, <2>2
<1> QED  BY <1>6, <1>7, <1>8

(* Once they are locked, there are as many winners as the ledger says. *)
LEMMA LockedWinners ==
    ASSUME IInv, giveaway.winners_locked
    PROVE  /\ PrizeWinners \in SUBSET Candidates
           /\ Cardinality(PrizeWinners) = ledger.winners_count
           /\ ledger.winners_count \in 1..NumberOfWinners
           /\ ledger.per_winner = PerWinner(ledger.winners_count)
<1>1. /\ root.phase = "completed"
      /\ SelectionInv(root, roster, Eligible, NumberOfWinners)
      /\ Attested # {} /\ Included = Attested
      /\ ledger.seed = root.seed /\ ledger.threshold_key = root.threshold_key
      /\ ledger.winners_count = root.target_winners
      /\ ledger.per_winner = PerWinner(root.target_winners)
  BY DEF IInv, Drawing
<1>2. Eligible \in SUBSET Candidates /\ Eligible # {}
  <2>1. Eligible = Attested /\ Eligible \in SUBSET Candidates
    BY <1>1, Sets DEF IInv, Roles
  <2> QED  BY <1>1, <2>1
<1>3. /\ Cardinality(WinnersOf(ledger, Eligible)) = ledger.winners_count
      /\ ledger.winners_count \in 1..NumberOfWinners
  BY <1>1, <1>2, CompletedWinners
<1>4. PrizeWinners = WinnersOf(ledger, Eligible)  BY DEF PrizeWinners, WinnersOf
<1> QED  BY <1>1, <1>2, <1>3, <1>4 DEF WinnersOf

(* A batch that names nobody left to pay changes nothing of the prize; another
   one pays some of those left, or all of them. *)
LEMMA PayStep ==
    ASSUME IInv, PrizeInv, NEW batch \in Batches, SettlePayoutBatch(batch)
    PROVE  PrizeInv' /\ (P!Next \/ UNCHANGED P!pvars)
<1>1. IInv' /\ PoolKept  BY SettlePayoutBatchStep
<1>2. PICK S : S = PaidBy(batch)  OBVIOUS
<1>3. PICK count : count = Cardinality(S)  OBVIOUS
<1>4. /\ S \in SUBSET Candidates /\ S \cap Paid = {}
      /\ \A w \in S : \E i \in DOMAIN batch : batch[i] = w
      /\ Cardinality(PayingPositions(batch)) = count
      /\ \A w \in Candidates : PaidTo(batch, w) = IF w \in S THEN 1 ELSE 0
  BY <1>2, <1>3, BatchPays
<1>5. PICK all \in BOOLEAN : all = (ledger.paid_count + count = ledger.winners_count)
  OBVIOUS
<1>6. PICK left : left = vault - ledger.per_winner * count  OBVIOUS
<1>7. /\ giveaway.winners_locked /\ ~giveaway.settled
      /\ \A i \in DOMAIN batch : Winner(batch[i])
      /\ participant' = [w \in Candidates |->
            [participant[w] EXCEPT !.paid = @ \/ PaidTo(batch, w) > 0]]
      /\ received' = [w \in Candidates |->
            received[w] + ledger.per_winner * PaidTo(batch, w)]
      /\ ledger' = [ledger EXCEPT !.paid_count = ledger.paid_count + count,
                                  !.batches_processed = @ + 1]
      /\ giveaway' = [giveaway EXCEPT !.settled = all]
      /\ vault' = IF all THEN 0 ELSE left
      /\ provider_fee' = IF all THEN provider_fee + ServiceFee ELSE provider_fee
      /\ creator_refund' = IF all THEN creator_refund + (left - ServiceFee) ELSE creator_refund
  BY <1>4, <1>5, <1>6 DEF SettlePayoutBatch, MayPay, PaidAfter, LeftAfter, AllPaidAfter
<1>8. /\ giveaway \in GiveawayType /\ participant \in [Candidates -> ParticipantType]
      /\ ledger \in LedgerType /\ vault \in Nat /\ received \in [Candidates -> Nat]
      /\ ledger.per_winner \in Nat /\ count \in Nat
  <2>1. count \in Nat  BY <1>3, <1>4, CandidateCount
  <2> QED  BY <2>1 DEF IInv, TypeOK, LedgerType
<1>9. /\ giveaway'.winners_locked /\ giveaway'.settled = all
      /\ ledger'.seed = ledger.seed /\ ledger'.threshold_key = ledger.threshold_key
      /\ ledger'.winners_count = ledger.winners_count
      /\ ledger'.per_winner = ledger.per_winner
      /\ ledger'.paid_count = ledger.paid_count + count
  BY <1>7, <1>8 DEF GiveawayType, LedgerType
<1>10. PrizeWinners' = PrizeWinners  BY <1>1, <1>7, <1>9, WinnersKept
<1>11. PICK W : W = PrizeWinners  OBVIOUS
<1>12. W \in SUBSET Candidates /\ Cardinality(W) = ledger.winners_count
  BY <1>7, <1>11, LockedWinners
<1>13. S \subseteq W
  BY <1>4, <1>7, <1>11 DEF Winner, PrizeWinners, Eligible
<1>14. PICK Q : Q = Paid  OBVIOUS
<1>15. Q \subseteq W /\ Q # W /\ ledger.paid_count = Cardinality(Q) /\ S \cap Q = {}
  BY <1>4, <1>7, <1>11, <1>14 DEF PrizeInv
<1>16. Paid' = Q \cup S
  <2>1. ASSUME NEW w \in Candidates
        PROVE  participant'[w].paid <=> w \in Q \/ w \in S
    <3>1. participant[w].paid \in BOOLEAN  BY <1>8 DEF ParticipantType
    <3>2. participant'[w].paid = (participant[w].paid \/ PaidTo(batch, w) > 0)
      BY <1>7, <1>8 DEF ParticipantType
    <3>3. PaidTo(batch, w) > 0 <=> w \in S  BY <1>4
    <3> QED  BY <1>14, <3>1, <3>2, <3>3 DEF Paid
  <2>2. Paid' = {w \in Candidates : participant'[w].paid}  BY DEF Paid
  <2>3. Q \in SUBSET Candidates  BY <1>14 DEF Paid
  <2> QED  BY <1>4, <2>1, <2>2, <2>3
<1>17. /\ Cardinality(Q \cup S) = Cardinality(Q) + count
       /\ all <=> S = W \ Q
  <2>1. Q \cup S \in SUBSET Candidates /\ Q \cup S \in SUBSET W
    BY <1>4, <1>12, <1>13, <1>15
  <2>2. Cardinality(Q \cup S) = Cardinality(Q) + count
    BY <1>3, <1>4, <1>12, <1>15, DisjointCount
  <2>3. all <=> Cardinality(Q \cup S) = Cardinality(W)
    BY <1>5, <1>12, <1>15, <2>2
  <2>4. Cardinality(Q \cup S) = Cardinality(W) => Q \cup S = W
    BY <1>12, <2>1, SubCount
  <2>5. all <=> Q \cup S = W  BY <2>3, <2>4
  <2> QED  BY <1>13, <1>15, <2>2, <2>5
<1>18. PrizeInv'
  <2>1. ~all => provider_fee' = 0 /\ creator_refund' = 0  BY <1>7 DEF PrizeInv
  <2>2. ~all => Q \cup S # W  BY <1>13, <1>15, <1>17
  <2> QED
    BY <1>9, <1>10, <1>11, <1>13, <1>15, <1>16, <1>17, <2>1, <2>2 DEF PrizeInv
<1>19. /\ PrizeStage = "awarded"
       /\ PrizeStage' = IF all THEN "closed" ELSE "awarded"
  BY <1>7, <1>9 DEF PrizeStage
<1>20. CASE S = {}
  <2>1. ~all  BY <1>15, <1>17, <1>20
  <2>2. count = 0  BY <1>3, <1>20, FS_EmptySet
  <2>3. left = vault  BY <1>6, <1>8, <2>2
  <2>4. received' = received
    <3>1. received' = [w \in Candidates |-> received[w]]
      BY <1>4, <1>7, <1>8, <1>20
    <3> QED  BY <1>8, <3>1
  <2>5. UNCHANGED {w \in Candidates : participant[w].paid}
    BY <1>14, <1>16, <1>20 DEF Paid
  <2> QED
    BY <1>7, <1>9, <1>10, <1>18, <1>19, <2>1, <2>3, <2>4, <2>5 DEF P!pvars
<1>21. CASE S # {}
  <2>1. P!Send(S)
    <3>1. received' = [e \in Candidates |->
              IF e \in S THEN received[e] + ledger.per_winner ELSE received[e]]
      BY <1>4, <1>7, <1>8
    <3>2. {w \in Candidates : participant[w].paid}' =
          {w \in Candidates : participant[w].paid} \cup S
      BY <1>14, <1>16 DEF Paid
    <3>3. S \subseteq PrizeWinners \ {w \in Candidates : participant[w].paid}
      BY <1>11, <1>13, <1>14, <1>15 DEF Paid
    <3> QED  BY <1>9, <1>10, <1>19, <1>21, <3>1, <3>2, <3>3 DEF P!Send
  <2>2. PrizeWinners \ {w \in Candidates : participant[w].paid} = W \ Q
    BY <1>11, <1>14 DEF Paid
  <2>3. left = vault - ledger.per_winner * P!Cardinality(S)
    BY <1>3, <1>6, SameCardinality
  <2>4. CASE all
    <3>1. provider_fee' = ServiceFee /\ creator_refund' = left - ServiceFee
      <4>1. provider_fee = 0 /\ creator_refund = 0  BY <1>7 DEF PrizeInv
      <4>2. left \in Int /\ ServiceFee \in Nat  BY <1>6, <1>8, Money
      <4> HIDE DEF ServiceFee
      <4> QED  BY <1>7, <2>4, <4>1, <4>2
    <3>2. P!PayLast(S)
      BY <1>7, <1>17, <1>19, <2>1, <2>2, <2>3, <2>4, <3>1 DEF P!PayLast
    <3> QED  BY <1>4, <1>18, <3>2 DEF P!Next
  <2>5. CASE ~all
    <3>1. P!Pay(S)
      BY <1>7, <1>17, <1>19, <2>1, <2>2, <2>3, <2>5 DEF P!Pay
    <3> QED  BY <1>4, <1>18, <3>1 DEF P!Next
  <2> QED  BY <2>4, <2>5
<1> QED  BY <1>20, <1>21

LEMMA PrizeInit ==
    ASSUME Init
    PROVE  PrizeInv /\ P!Init
<1>1. /\ giveaway = NewGiveaway /\ ledger = NoLedger
      /\ participant = [w \in Candidates |-> NewParticipant]
      /\ provider_fee = 0 /\ creator_refund = 0
  BY DEF Init
<1>2. Paid = {} /\ PrizeWinners = {} /\ PrizeStage = "open"
  BY <1>1 DEF Paid, PrizeWinners, PrizeStage, NewGiveaway, NewParticipant
<1>3. PrizeInv
  BY <1>1, <1>2, FS_EmptySet DEF PrizeInv, NewGiveaway, NoLedger
<1> QED  BY <1>1, <1>2, <1>3 DEF Init, P!Init, Paid, NoLedger

LEMMA PrizeStep ==
    ASSUME IInv, PrizeInv, [Next]_vars
    PROVE  PrizeInv' /\ (P!Next \/ UNCHANGED P!pvars)
<1>1. IInv' /\ PoolKept  BY StepInv
<1>2. CASE \E batch \in Batches : MayIdle(batch) /\ SettlePayoutBatch(batch)
  BY <1>2, PayStep
<1>3. CASE SettleGiveaway  BY <1>3, CancelStep
<1>4. CASE \E byProvider \in BOOLEAN, last \in 1..Len(roster), seed \in Drawn :
              FinalizeChunk(byProvider, last, seed) /\ root'.phase = "completed"
  BY <1>1, <1>4, AwardStep
<1>5. CASE
           \/ \E w \in Candidates :
                 \/ Participate(w) \/ DisqualifyParticipant(w) \/ AttestUploaded(w)
                 \/ AttestReveal(w) \/ CloseParticipant(w)
           \/ \E byProvider \in BOOLEAN, S \in SUBSET Candidates : UploadReveals(byProvider, S)
           \/ \E byProvider \in BOOLEAN : BeginRemediation(byProvider)
           \/ \E byProvider, last, seed :
                 FinalizeChunk(byProvider, last, seed) /\ root'.phase # "completed"
           \/ Tick \/ UNCHANGED vars
  <2>1. PrizeQuiet  BY <1>5, QuietSteps
  <2> QED  BY <1>1, <2>1, QuietKeeps
<1> QED  BY <1>2, <1>3, <1>4, <1>5 DEF Next

(* The giveaway's accounts only ever take the steps of the prize: the award is
   made once, shares are equal and sent once however batches repeat, a refund
   and an award exclude each other (settle_payout_batch.rs,
   settle_giveaway.rs, finalize_settlement_root). *)
THEOREM RefinesPrize == Spec => ImplementsPrize
<1>1. Init => PrizeInv /\ P!Init  BY PrizeInit
<1>2. IInv /\ PrizeInv /\ [Next]_vars => PrizeInv' /\ [P!Next]_(P!pvars)
  BY PrizeStep
<1> QED  BY <1>1, <1>2, InvAlways, PTL DEF Spec, ImplementsPrize, P!Spec

------------------------------------------------------------------------------
(***************************************************************************)
(* Nobody is blocked.  Beside the two invariants above: the marks in the   *)
(* participants' accounts are of earlier passes (RadixProofs), the vault   *)
(* is short of exactly what was paid, and the batch counter counts at most *)
(* one batch per winner and the idle ones.                                 *)
(***************************************************************************)
MarksInv ==
    /\ root.phase = "none" => stamp = [w \in Candidates |-> NoStamp]
    /\ root.phase # "none" => Marked(stamp, root, roster)

VaultInv ==
    ~giveaway.settled =>
        vault = TotalPayout + VaultRent - ledger.per_winner * ledger.paid_count

BatchesInv == ledger.batches_processed <= ledger.paid_count + MaxIdle

ProgressInv == MarksInv /\ VaultInv /\ BatchesInv

LEMMA ProgressInit ==
    ASSUME Init
    PROVE  ProgressInv
<1>1. /\ root = NoRoot /\ stamp = [w \in Candidates |-> NoStamp]
      /\ ledger = NoLedger /\ vault = TotalPayout + VaultRent
  BY DEF Init
<1>2. MarksInv  BY <1>1 DEF MarksInv, NoRoot
<1>3. VaultInv  BY <1>1, MoneyAssumption DEF VaultInv, NoLedger
<1>4. BatchesInv  BY <1>1, LimitAssumption DEF BatchesInv, NoLedger
<1> QED  BY <1>2, <1>3, <1>4 DEF ProgressInv

(* Nobody enters any more when the selection has begun. *)
LEMMA ParticipateProgress ==
    ASSUME IInv, PrizeInv, ProgressInv, NEW w \in Candidates, Participate(w)
    PROVE  ProgressInv'
<1>1. PrizeQuiet  BY QuietSteps
<1>2. now < UploadStart /\ now \in Nat /\ root' = root /\ stamp' = stamp
  BY Schedule DEF Participate, InActivePhase, IInv, TypeOK
<1>3. ~PublicationAllowed  BY <1>2, Schedule, AllAttested DEF PublicationAllowed
<1>4. root.phase = "none"  BY <1>3 DEF IInv, Drawing
<1> QED
  BY <1>1, <1>2, <1>4 DEF ProgressInv, MarksInv, VaultInv, BatchesInv, PrizeQuiet

(* The ledger a chunk loads agrees with the marks. *)
LEMMA ReadyMarks ==
    ASSUME IInv, MarksInv, ReadyToSelect
    PROVE  /\ Marked(stamp, LoadRoot, roster)
           /\ LoadRoot.phase # "completed"
<1>1. /\ Attested # {} /\ Listed(roster, Eligible) /\ ~giveaway.winners_locked
      /\ SelectionInv(LoadRoot, roster, Eligible, NumberOfWinners)
  BY SelectionReady
<1>2. CASE root.phase = "none"
  <2>1. LoadRoot = NewRoot(Len(roster))  BY <1>2 DEF LoadRoot, IInv, Counts
  <2>2. roster # << >>
    <3>1. Entered # {}  BY <1>1 DEF IInv, Roles
    <3> QED  BY <3>1 DEF Entered
  <2>3. LoadRoot.phase = "aggregating"  BY <2>1 DEF NewRoot, NoRoot
  <2>4. Marked(stamp, LoadRoot, roster)  BY <1>1, <1>2, <2>1, <2>2, NewMarks DEF MarksInv
  <2> QED  BY <2>3, <2>4
<1>3. CASE root.phase # "none"
  BY <1>1, <1>3 DEF LoadRoot, MarksInv, IInv, Drawing
<1> QED  BY <1>2, <1>3

LEMMA ChunkProgress ==
    ASSUME IInv, IInv', PrizeInv, PrizeInv', ProgressInv,
           NEW byProvider, NEW last, NEW seed, FinalizeChunk(byProvider, last, seed)
    PROVE  ProgressInv'
<1>1. /\ ReadyToSelect /\ roster' = roster /\ vault' = vault
      /\ SelectChunk(LoadRoot, roster, Eligible, last, NumberOfWinners, seed)
  BY DEF FinalizeChunk, money
<1>2. MarksInv'
  <2>1. /\ Listed(roster, Eligible)
        /\ SelectionInv(LoadRoot, roster, Eligible, NumberOfWinners)
    BY <1>1, SelectionReady
  <2>2. Marked(stamp, LoadRoot, roster)  BY <1>1, ReadyMarks DEF ProgressInv
  <2>3. Marked(stamp', root', roster)
    BY <1>1, <2>1, <2>2, MarksKept, MoneyAssumption
  <2>4. root'.phase # "none"  BY ChunkSelects
  <2> QED  BY <1>1, <2>3, <2>4 DEF MarksInv
<1>3. CASE root'.phase # "completed"
  <2>1. PrizeQuiet  BY <1>3, QuietSteps
  <2> QED  BY <1>2, <2>1 DEF ProgressInv, VaultInv, BatchesInv, PrizeQuiet
<1>4. CASE root'.phase = "completed"
  <2>1. /\ ~giveaway.winners_locked /\ ~giveaway.settled
    BY <1>1, SelectionReady DEF ReadyToSelect, Finalizing
  <2>2. ledger = NoLedger  BY <2>1 DEF PrizeInv
  <2>3. ledger'.paid_count = 0 /\ ledger'.batches_processed = 0
    BY <1>4 DEF FinalizeChunk, Locked, NoLedger
  <2>4. ledger'.per_winner \in Nat  BY DEF IInv, TypeOK, LedgerType
  <2>5. vault = TotalPayout + VaultRent
    BY <2>1, <2>2, MoneyAssumption DEF ProgressInv, VaultInv, NoLedger
  <2>6. VaultInv'  BY <1>1, <2>3, <2>4, <2>5, MoneyAssumption DEF VaultInv
  <2>7. BatchesInv'  BY <2>3, LimitAssumption DEF BatchesInv
  <2> QED  BY <1>2, <2>6, <2>7 DEF ProgressInv
<1> QED  BY <1>3, <1>4

LEMMA BatchProgress ==
    ASSUME IInv, ProgressInv, NEW batch \in Batches, MayIdle(batch), SettlePayoutBatch(batch)
    PROVE  ProgressInv'
<1>1. PICK count : count = Cardinality(PayingPositions(batch))  OBVIOUS
<1>2. count \in Nat /\ (count = 0 => PayingPositions(batch) = {})
  <2>1. /\ PaidBy(batch) \in SUBSET Candidates
        /\ count = Cardinality(PaidBy(batch))
    BY <1>1, BatchPays
  <2>2. count \in Nat  BY <2>1, CandidateCount
  <2>3. count = 0 => PaidBy(batch) = {}  BY <2>1, SubCount
  <2> QED  BY <2>2, <2>3 DEF PaidBy
<1>3. PICK all \in BOOLEAN : all = (ledger.paid_count + count = ledger.winners_count)
  OBVIOUS
<1>4. /\ root' = root /\ stamp' = stamp /\ roster' = roster /\ ~giveaway.settled
      /\ ledger' = [ledger EXCEPT !.paid_count = ledger.paid_count + count,
                                  !.batches_processed = @ + 1]
      /\ giveaway' = [giveaway EXCEPT !.settled = all]
      /\ vault' = IF all THEN 0 ELSE vault - ledger.per_winner * count
  BY <1>1, <1>3 DEF SettlePayoutBatch, MayPay, PaidAfter, LeftAfter, AllPaidAfter
<1>5. /\ giveaway \in GiveawayType /\ ledger \in LedgerType
      /\ ledger.paid_count \in Nat /\ ledger.per_winner \in Nat
      /\ ledger.batches_processed \in Nat
  BY LimitAssumption DEF IInv, TypeOK, LedgerType
<1>6. /\ giveaway'.settled = all
      /\ ledger'.per_winner = ledger.per_winner
      /\ ledger'.paid_count = ledger.paid_count + count
      /\ ledger'.batches_processed = ledger.batches_processed + 1
  BY <1>4, <1>5 DEF GiveawayType, LedgerType
<1>7. MarksInv'  BY <1>4 DEF ProgressInv, MarksInv
<1>8. VaultInv'
  <2> SUFFICES ASSUME ~all
               PROVE  vault' = TotalPayout + VaultRent - ledger'.per_winner * ledger'.paid_count
    BY <1>6 DEF VaultInv
  <2>1. vault = TotalPayout + VaultRent - ledger.per_winner * ledger.paid_count
    BY <1>4 DEF ProgressInv, VaultInv
  <2>2. PICK share \in Nat, paid \in Nat : share = ledger.per_winner /\ paid = ledger.paid_count
    BY <1>5
  <2>3. share * (paid + count) = share * paid + share * count  BY <1>2, <2>2
  <2>4. share * paid \in Nat /\ share * count \in Nat  BY <1>2, <2>2
  <2> QED  BY <1>4, <1>6, <2>1, <2>2, <2>3, <2>4, MoneyAssumption
<1>9. BatchesInv'
  <2>1. ledger.batches_processed <= ledger.paid_count + MaxIdle
    BY DEF ProgressInv, BatchesInv
  <2>2. count = 0 => ledger.batches_processed < MaxIdle  BY <1>2 DEF MayIdle
  <2> QED  BY <1>2, <1>5, <1>6, <2>1, <2>2, LimitAssumption DEF BatchesInv
<1> QED  BY <1>7, <1>8, <1>9 DEF ProgressInv

LEMMA ProgressStep ==
    ASSUME IInv, PrizeInv, ProgressInv, [Next]_vars
    PROVE  ProgressInv'
<1>1. IInv' /\ PrizeInv'  BY StepInv, PrizeStep
<1>2. CASE \E w \in Candidates : Participate(w)  BY <1>2, ParticipateProgress
<1>3. CASE \E byProvider \in BOOLEAN, last \in 1..Len(roster), seed \in Drawn :
              FinalizeChunk(byProvider, last, seed)
  BY <1>1, <1>3, ChunkProgress
<1>4. CASE \E batch \in Batches : MayIdle(batch) /\ SettlePayoutBatch(batch)
  BY <1>4, BatchProgress
<1>5. CASE SettleGiveaway
  <2>1. /\ giveaway' = [giveaway EXCEPT !.settled = TRUE]
        /\ root' = root /\ stamp' = stamp /\ roster' = roster /\ ledger' = ledger
    BY <1>5 DEF SettleGiveaway
  <2>2. giveaway'.settled  BY <2>1 DEF IInv, TypeOK, GiveawayType
  <2> QED  BY <2>1, <2>2 DEF ProgressInv, MarksInv, VaultInv, BatchesInv
<1>6. CASE \/ \E w \in Candidates :
                 \/ DisqualifyParticipant(w) \/ AttestUploaded(w)
                 \/ AttestReveal(w) \/ CloseParticipant(w)
           \/ \E byProvider \in BOOLEAN, S \in SUBSET Candidates : UploadReveals(byProvider, S)
           \/ \E byProvider \in BOOLEAN : BeginRemediation(byProvider)
           \/ Tick \/ UNCHANGED vars
  <2>1. PrizeQuiet  BY <1>6, QuietSteps
  <2>2. UNCHANGED <<root, stamp, roster>>
    BY <1>6
    DEF DisqualifyParticipant, AttestUploaded, AttestReveal, CloseParticipant,
        UploadReveals, BeginRemediation, Tick, vars
  <2> QED  BY <2>1, <2>2 DEF ProgressInv, MarksInv, VaultInv, BatchesInv, PrizeQuiet
<1> QED  BY <1>2, <1>3, <1>4, <1>5, <1>6 DEF Next

(* CreateGiveaway has checked that the pool pays as many winners as there may
   be: it pays fewer all the more. *)
LEMMA SharesFit ==
    ASSUME NEW n \in 1..NumberOfWinners
    PROVE  /\ PerWinner(n) \in Nat /\ PerWinner(n) >= MinWinnerPayout
           /\ PerWinner(n) * n <= WinnersPool
           /\ TotalPayout = WinnersPool + ServiceFee
<1>1. /\ n \in Nat \ {0} /\ n <= NumberOfWinners /\ NumberOfWinners \in Nat
      /\ WinnersPool >= NumberOfWinners
  BY MoneyAssumption DEF MinWinnerPayout
<1>2. PICK pool \in Nat, fee \in Nat : pool = WinnersPool /\ fee = ServiceFee  BY Money
<1>3. TotalPayout = pool + fee
  <2> HIDE DEF ServiceFee
  <2> QED  BY <1>2, MoneyAssumption DEF WinnersPool
<1>4. PICK share : share = PerWinner(n)  OBVIOUS
<1>5. share = pool \div n
  <2> HIDE DEF WinnersPool
  <2> QED  BY <1>1, <1>2, <1>4 DEF PerWinner
<1>6. share \in Nat /\ share * n <= pool /\ pool < share * n + n
  BY <1>1, <1>5, DivisionBounds
<1>7. share # 0
  <2>1. pool >= n  BY <1>1, <1>2
  <2>2. share = 0 => share * n + n = n  BY <1>1
  <2> QED  BY <1>1, <1>6, <2>1, <2>2
<1> QED  BY <1>2, <1>3, <1>4, <1>6, <1>7 DEF MinWinnerPayout

LEMMA SelectionAccepted ==
    ASSUME IInv, MarksInv, ReadyToSelect
    PROVE  /\ LoadRoot.required_count = giveaway.participants_count
           /\ LoadRoot.processed_count < LoadRoot.required_count
           /\ \A last \in (LoadRoot.processed_count + 1)..LoadRoot.required_count :
                 MaySelect(LoadRoot, roster, Eligible, last)
           /\ MayLock(LoadRoot)
<1>1. /\ LoadRoot.required_count = giveaway.participants_count
      /\ Listed(roster, Eligible)
      /\ SelectionInv(LoadRoot, roster, Eligible, NumberOfWinners)
  BY SelectionReady
<1>2. Marked(stamp, LoadRoot, roster) /\ LoadRoot.phase # "completed"  BY ReadyMarks
<1>3. PICK r : r = LoadRoot  OBVIOUS
<1>4. NumberOfWinners \in Nat  BY MoneyAssumption
<1>5. /\ r.processed_count < Len(roster)
      /\ \A last \in (r.processed_count + 1)..Len(roster) :
            MaySelect(r, roster, Eligible, last)
  BY <1>1, <1>2, <1>3, <1>4, ChunkAccepted
<1>6. r.required_count = Len(roster)  BY <1>1, <1>3 DEF SelectionInv, ShapedRoot
<1>7. MayLock(r)
  <2> SUFFICES ASSUME r.target_winners > 0
               PROVE  PerWinner(r.target_winners) >= MinWinnerPayout
    BY DEF MayLock
  <2>1. Seeded(r, Eligible, NumberOfWinners)
    BY <1>1, <1>2, <1>3
    DEF SelectionInv, AtAggregation, AtRadix, AtResolution, AtEmission, AtEnd, Found
  <2>2. Eligible \in SUBSET Candidates  BY DEF Eligible
  <2>3. Cardinality(Eligible) \in Nat  BY <2>2, CandidateCount
  <2>4. r.target_winners \in 1..NumberOfWinners  BY <1>4, <2>1, <2>3, MinOf DEF Seeded
  <2> QED  BY <2>4, SharesFit
<1> QED  BY <1>1, <1>3, <1>5, <1>6, <1>7

LEMMA WinnersPayable ==
    ASSUME IInv, PrizeInv, ProgressInv, giveaway.winners_locked, ~giveaway.settled
    PROVE  UnpaidWinners # {} /\ \A w \in UnpaidWinners : MayPay(<<w>>)
<1>1. /\ PrizeWinners \in SUBSET Candidates
      /\ Cardinality(PrizeWinners) = ledger.winners_count
      /\ ledger.winners_count \in 1..NumberOfWinners
      /\ ledger.per_winner = PerWinner(ledger.winners_count)
  BY LockedWinners
<1>2. /\ Paid \subseteq PrizeWinners /\ Paid # PrizeWinners
      /\ ledger.paid_count = Cardinality(Paid)
  BY DEF PrizeInv
<1>3. UnpaidWinners = PrizeWinners \ Paid
  BY DEF UnpaidWinners, PrizeWinners, Paid, Eligible
<1>4. UnpaidWinners # {}  BY <1>2, <1>3
<1>5. PICK share \in Nat, count \in Nat \ {0}, paid \in Nat :
          /\ share = ledger.per_winner /\ count = ledger.winners_count
          /\ paid = ledger.paid_count
  <2>1. Paid \in SUBSET Candidates  BY DEF Paid
  <2>2. Cardinality(Paid) \in Nat  BY <2>1, CandidateCount
  <2>3. ledger.per_winner \in Nat  BY <1>1, SharesFit
  <2> QED  BY <1>1, <1>2, <2>2, <2>3, MoneyAssumption
<1>6. paid + 1 <= count
  <2>1. Cardinality(Paid) <= Cardinality(PrizeWinners)  BY <1>1, <1>2, SubCount
  <2>2. Cardinality(Paid) # Cardinality(PrizeWinners)  BY <1>1, <1>2, SubCount
  <2> QED  BY <1>1, <1>2, <1>5, <2>1, <2>2
<1>7. /\ share >= MinWinnerPayout /\ share * count <= WinnersPool
      /\ TotalPayout = WinnersPool + ServiceFee
      /\ WinnersPool \in Nat /\ ServiceFee \in Nat
  BY <1>1, <1>5, SharesFit, Money
<1>8. /\ vault = TotalPayout + VaultRent - share * paid
      /\ vault - share >= ServiceFee /\ vault - share >= 0
  <2>1. vault = TotalPayout + VaultRent - share * paid
    BY <1>5 DEF ProgressInv, VaultInv
  <2>2. share * count = share * paid + share + share * (count - paid - 1)
    BY <1>5, <1>6, <1>7
  <2>3. /\ share * count \in Nat /\ share * paid \in Nat
        /\ share * (count - paid - 1) \in Nat
    <3>1. count - paid - 1 \in Nat  BY <1>5, <1>6
    <3> QED  BY <1>5, <1>7, <3>1
  <2> HIDE DEF WinnersPool, ServiceFee
  <2> QED  BY <1>7, <2>1, <2>2, <2>3, MoneyAssumption
<1>9. ledger.batches_processed < U32Max
  <2>1. ledger.batches_processed <= paid + MaxIdle /\ ledger.batches_processed \in Nat
    BY <1>5, LimitAssumption DEF ProgressInv, BatchesInv, IInv, TypeOK, LedgerType
  <2>2. count <= NumberOfWinners  BY <1>1, <1>5
  <2> QED  BY <1>5, <1>6, <2>1, <2>2, LimitAssumption, MoneyAssumption
<1>10. ASSUME NEW w \in UnpaidWinners
       PROVE  MayPay(<<w>>)
  <2>1. /\ w \in Candidates /\ w \in Eligible /\ Wins(ledger, w)
        /\ ~participant[w].paid
    BY DEF UnpaidWinners, Eligible
  <2>2. Winner(w)
    <3>1. w \in Entered  BY <2>1 DEF IInv, Roles, Eligible, Included
    <3>2. participant[w].open  BY <3>1 DEF IInv, Roles
    <3> QED  BY <2>1, <3>2 DEF Winner
  <2>3. Cardinality(PayingPositions(<<w>>)) = 1
    <3>1. PayingPositions(<<w>>) = {1}  BY <2>1 DEF PayingPositions
    <3> QED  BY <3>1, FS_Singleton
  <2>4. LeftAfter(<<w>>) = vault - share  BY <1>5, <1>7, <2>3 DEF LeftAfter
  <2>5. PaidAfter(<<w>>) = paid + 1  BY <1>5, <2>3 DEF PaidAfter
  <2>6. \A i \in DOMAIN <<w>> : Winner(<<w>>[i])  BY <2>2
  <2>7. giveaway.winners_computed  BY DEF IInv, Drawing
  <2> QED  BY <1>5, <1>6, <1>7, <1>8, <1>9, <2>4, <2>5, <2>6, <2>7 DEF MayPay
<1> QED  BY <1>4, <1>10

(* Whatever chunks and batches came before, the next chunk of the selection is
   accepted and every winner that is not paid yet can be (finalize_winners.rs;
   settle_payout_batch.rs). *)
THEOREM NobodyIsBlocked == Spec => []NobodyBlocked
<1>1. Init => PrizeInv /\ ProgressInv  BY PrizeInit, ProgressInit
<1>2. IInv /\ PrizeInv /\ ProgressInv /\ [Next]_vars => PrizeInv' /\ ProgressInv'
  BY PrizeStep, ProgressStep
<1>3. IInv /\ PrizeInv /\ ProgressInv => NobodyBlocked
  BY SelectionAccepted, WinnersPayable DEF NobodyBlocked, ProgressInv
<1> QED  BY <1>1, <1>2, <1>3, InvAlways, PTL DEF Spec
==============================================================================
