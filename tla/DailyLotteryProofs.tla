-------------------------- MODULE DailyLotteryProofs --------------------------
(***************************************************************************)
(* Proofs about DailyLottery, for every value of its constants: types,     *)
(* finality of the outcome, eligibility, the draw, and the election of     *)
(* the number of winners, in this order.                                   *)
(***************************************************************************)
EXTENDS DailyLottery, Election, NaturalFacts, FiniteSetTheorems, TLAPS

(***************************************************************************)
(* The minimum and the maximum of two integers.                            *)
(***************************************************************************)
LEMMA MinPair ==
    ASSUME NEW a \in Int, NEW b \in Int
    PROVE  /\ Min({a, b}) \in {a, b}
           /\ Min({a, b}) <= a /\ Min({a, b}) <= b
<1>1. \E x \in {a, b} : \A y \in {a, b} : x <= y
  <2>1. CASE a <= b  BY <2>1
  <2>2. CASE b <= a  BY <2>2
  <2> QED  BY <2>1, <2>2
<1> QED  BY <1>1 DEF Min

LEMMA MaxPair ==
    ASSUME NEW a \in Int, NEW b \in Int
    PROVE  /\ Max({a, b}) \in {a, b}
           /\ Max({a, b}) >= a /\ Max({a, b}) >= b
<1>1. \E x \in {a, b} : \A y \in {a, b} : x >= y
  <2>1. CASE a <= b  BY <2>1
  <2>2. CASE b <= a  BY <2>2
  <2> QED  BY <2>1, <2>2
<1> QED  BY <1>1 DEF Max

(***************************************************************************)
(* effective_max_winners lies between one and the frozen cap.              *)
(***************************************************************************)
LEMMA EffectiveMaxWinnersRange ==
    ASSUME TypeOK
    PROVE  EffectiveMaxWinners \in 1..MaxWinnersCap
<1> DEFINE others == Max({lottery.participants_count - 1, 1})
<1>1. lottery.participants_count \in Int  BY LimitAssumption DEF TypeOK, LotteryType
<1>2. others \in Int /\ others >= 1
  <2> DEFINE one == 1
             pc  == lottery.participants_count - one
  <2>1. pc \in Int /\ one \in Int  BY <1>1
  <2>2. others = Max({pc, one})  OBVIOUS
  <2> HIDE DEF pc, others
  <2>3. others \in {pc, one} /\ others >= one
    <3> HIDE DEF one
    <3> QED  BY <2>1, <2>2, MaxPair
  <2> QED  BY <2>1, <2>3
<1>3. MaxWinnersCap \in Int /\ MaxWinnersCap >= 1  BY LimitAssumption
<1>4. EffectiveMaxWinners = Min({MaxWinnersCap, others})  BY DEF EffectiveMaxWinners
<1> HIDE DEF others
<1>5. EffectiveMaxWinners \in {MaxWinnersCap, others} /\ EffectiveMaxWinners <= MaxWinnersCap
  BY <1>2, <1>3, <1>4, MinPair
<1> QED  BY <1>2, <1>3, <1>5

(***************************************************************************)
(* The tickets of a set of wallets are finite, and so are their ballots.   *)
(***************************************************************************)
LEMMA TicketsFinite ==
    ASSUME TypeOK, NEW S \in SUBSET Wallets
    PROVE  IsFiniteSet(Tickets(S)) /\ TicketCount(S) \in Nat
<1>1. IsFiniteSet(S)  BY WalletsAssumption, FS_Subset
<1>2. IsFiniteSet(1..MaxTickets)  BY LimitAssumption, FS_Interval
<1>3. IsFiniteSet(S \X (1..MaxTickets))  BY <1>1, <1>2, FS_Product
<1>4. Tickets(S) \in SUBSET (S \X (1..MaxTickets))  BY DEF Tickets
<1>5. IsFiniteSet(Tickets(S))  BY <1>3, <1>4, FS_Subset
<1> QED  BY <1>5, FS_CardinalityType DEF TicketCount

LEMMA BallotsFinite ==
    ASSUME TypeOK, NEW S \in SUBSET Wallets, NEW p
    PROVE  IsFiniteSet(Ballots(p, S))
<1> DEFINE B(t) == [ticket |-> t, count |-> p[t[1]].vote, at |-> p[t[1]].attested_at]
           f    == [t \in Tickets(S) |-> B(t)]
<1>1. Ballots(p, S) = {B(t) : t \in Tickets(S)}  BY DEF Ballots
<1>2. f \in Surjection(Tickets(S), Ballots(p, S))
  <2> HIDE DEF B
  <2> QED  BY <1>1 DEF Surjection
<1>3. IsFiniteSet(Tickets(S))  BY TicketsFinite
<1> HIDE DEF f
<1> QED  BY <1>2, <1>3, FS_Surjection

(***************************************************************************)
(* Adding votes keeps a tally a tally of the same size.                    *)
(***************************************************************************)
LEMMA AddVotesTally ==
    ASSUME NEW t, IsTally(t), NEW ballots, IsFiniteSet(ballots)
    PROVE  IsTally(AddVotes(t, ballots)) /\ AddVotes(t, ballots).max_winners = t.max_winners
<1> DEFINE For(c)  == {b \in ballots : b.count = c}
           weights == [c \in 1..t.max_winners |-> t.weights[c] + Cardinality(For(c))]
           seen    == [c \in 1..t.max_winners |->
                          Min({t.first_seen[c]} \cup {b.at : b \in For(c)})]
<1>1. \A c : Cardinality(For(c)) \in Nat
  <2>1. \A c : For(c) \in SUBSET ballots  OBVIOUS
  <2> QED  BY <2>1, FS_Subset, FS_CardinalityType
<1>2. weights \in [1..t.max_winners -> Nat]
  <2> HIDE DEF For
  <2> QED  BY <1>1 DEF IsTally
<1>3. DOMAIN seen = 1..t.max_winners  OBVIOUS
<1>4. AddVotes(t, ballots) =
        [max_winners |-> t.max_winners, weights |-> weights, first_seen |-> seen]
  BY DEF AddVotes
<1> HIDE DEF weights, seen
<1> QED  BY <1>2, <1>3, <1>4 DEF IsTally

LEMMA LoadTallyIsTally ==
    ASSUME TypeOK
    PROVE  IsTally(LoadTally)
<1> DEFINE n == EffectiveMaxWinners
<1>1. n \in 1..MaxWinnersCap  BY EffectiveMaxWinnersRange
<1>2. IsTally(NewTally(n))
  <2> HIDE DEF n
  <2>1. [c \in 1..n |-> 0] \in [1..n -> Nat]  OBVIOUS
  <2>2. n \in 0..MaxWinnersCap  BY <1>1, LimitAssumption
  <2> QED  BY <2>1, <2>2 DEF IsTally, NewTally
<1>3. IsTally(tally)  BY DEF TypeOK
<1> QED  BY <1>2, <1>3 DEF LoadTally

LEMMA CardinalityOfWallets ==
    ASSUME NEW S \in SUBSET Wallets
    PROVE  Cardinality(S) \in Nat
BY WalletsAssumption, FS_Subset, FS_CardinalityType

LEMMA ChunkOfWallets ==
    ASSUME TypeOK, NEW first \in Nat \ {0}, NEW last \in 1..Len(roster)
    PROVE  Chunk(first, last) \in SUBSET Wallets
<1>1. roster \in Seq(Wallets)  BY DEF TypeOK
<1>2. \A i \in first..last : i \in 1..Len(roster)  BY <1>1
<1>3. \A i \in 1..Len(roster) : roster[i] \in Wallets  BY <1>1
<1> QED  BY <1>2, <1>3 DEF Chunk

(***************************************************************************)
(* Type correctness.  That a participant's tickets stay in range follows   *)
(* from the check of the total only because the total counts them all.     *)
(***************************************************************************)
TypeInv ==
    /\ TypeOK
    /\ \A w \in Wallets : participant[w].tickets <= lottery.total_tickets

LEMMA TypeInvInit == Init => TypeInv
<1> SUFFICES ASSUME Init  PROVE TypeInv
  OBVIOUS
<1>1. now \in 1..Horizon  BY ScheduleAssumption DEF Init
<1>2. lottery \in LotteryType
  BY LimitAssumption DEF Init, NewLottery, LotteryType
<1>3. participant \in [Wallets -> ParticipantType]
  BY LimitAssumption DEF Init, NewParticipant, ParticipantType
<1>4. roster \in Seq(Wallets)  BY DEF Init
<1>5. IsTally(tally)
  <2>1. [c \in 1..0 |-> 0] \in [1..0 -> Nat]  OBVIOUS
  <2> QED  BY <2>1, LimitAssumption DEF Init, NoTally, NewTally, IsTally
<1>6. root \in RootType  BY DEF Init, NoRoot, RootType
<1>7. page \in [entries: Seq(Wallets), paid: SUBSET Nat]  BY DEF Init
<1>8. vault \in Nat /\ treasury \in Nat  BY MoneyAssumption DEF Init
<1>9. received \in [Wallets -> Nat]  BY DEF Init
<1>10. \A w \in Wallets : participant[w].tickets <= lottery.total_tickets
  BY DEF Init, NewParticipant, NewLottery
<1> QED
  BY <1>1, <1>2, <1>3, <1>4, <1>5, <1>6, <1>7, <1>8, <1>9, <1>10 DEF TypeInv, TypeOK

LEMMA BuyTicketsType ==
    ASSUME TypeInv, NEW w \in Wallets, NEW n \in 1..MaxTickets, BuyTickets(w, n)
    PROVE  TypeInv'
<1> DEFINE cost  == TicketPrice * n
           count == IF participant[w].open THEN lottery.participants_count
                    ELSE lottery.participants_count + 1
<1>1. TypeOK /\ \A u \in Wallets : participant[u].tickets <= lottery.total_tickets
  BY DEF TypeInv
<1>2. /\ lottery \in LotteryType /\ roster \in Seq(Wallets) /\ vault \in Nat
      /\ participant \in [Wallets -> ParticipantType]
  BY <1>1 DEF TypeOK
<1>3. /\ participant[w].open \/ lottery.participants_count < MaxParticipants
      /\ lottery.total_tickets + n <= MaxTickets
      /\ participant' = [participant EXCEPT ![w].open = TRUE, ![w].tickets = @ + n]
      /\ roster' = IF participant[w].open THEN roster ELSE Append(roster, w)
      /\ lottery' = [lottery EXCEPT !.participants_count = count,
                                    !.total_tickets = @ + n, !.total_funds = @ + cost]
      /\ vault' = vault + cost
      /\ UNCHANGED <<now, tally, root, page, received, treasury>>
  BY DEF BuyTickets
<1>4. cost \in Nat
  <2>1. n \in Nat /\ TicketPrice \in Nat  BY MoneyAssumption, LimitAssumption
  <2> QED  BY <2>1
<1>5. count \in 0..MaxParticipants
  <2>1. lottery.participants_count \in 0..MaxParticipants  BY <1>2 DEF LotteryType
  <2> QED  BY <1>3, <2>1, LimitAssumption
<1>6. lottery.total_tickets + n \in 0..MaxTickets
  <2>1. lottery.total_tickets \in 0..MaxTickets  BY <1>2 DEF LotteryType
  <2> QED  BY <1>3, <2>1, LimitAssumption
<1> HIDE DEF cost, count
<1>7. lottery' \in LotteryType /\ lottery'.total_tickets = lottery.total_tickets + n
  <2>1. lottery.total_funds \in Nat  BY <1>2 DEF LotteryType
  <2>2. lottery.total_funds + cost \in Nat  BY <1>4, <2>1
  <2>3. lottery' = [lottery EXCEPT !.participants_count = count,
                                   !.total_tickets = lottery.total_tickets + n,
                                   !.total_funds = lottery.total_funds + cost]
    BY <1>2, <1>3 DEF LotteryType
  <2> QED  BY <1>2, <1>5, <1>6, <2>2, <2>3 DEF LotteryType
<1>8. /\ participant' \in [Wallets -> ParticipantType]
      /\ \A u \in Wallets : participant'[u].tickets <= lottery'.total_tickets
  <2>1. \A u \in Wallets : participant[u].tickets \in 0..MaxTickets
    BY <1>2 DEF ParticipantType
  <2>2. lottery.total_tickets \in Int  BY <1>2, LimitAssumption DEF LotteryType
  <2>3. participant[w].tickets + n \in 0..MaxTickets
    BY <1>1, <1>6, <2>1, <2>2, LimitAssumption
  <2>4. participant' \in [Wallets -> ParticipantType]
    <3>1. participant' = [participant EXCEPT ![w] =
              [participant[w] EXCEPT !.open = TRUE, !.tickets = participant[w].tickets + n]]
      BY <1>2, <1>3 DEF ParticipantType
    <3> QED  BY <1>2, <2>3, <3>1 DEF ParticipantType
  <2>5. ASSUME NEW u \in Wallets
        PROVE  participant'[u].tickets = IF u = w THEN participant[u].tickets + n
                                         ELSE participant[u].tickets
    BY <1>2, <1>3 DEF ParticipantType
  <2> QED  BY <1>1, <1>7, <2>1, <2>2, <2>4, <2>5, LimitAssumption
<1>9. roster' \in Seq(Wallets)  BY <1>2, <1>3
<1>10. vault' \in Nat  BY <1>2, <1>3, <1>4
<1> QED  BY <1>1, <1>3, <1>7, <1>8, <1>9, <1>10 DEF TypeInv, TypeOK, IsTally

(***************************************************************************)
(* Only a purchase changes tickets; elsewhere type correctness is enough.  *)
(***************************************************************************)
LEMMA TypeInvKept ==
    ASSUME TypeInv, TypeOK', lottery'.total_tickets = lottery.total_tickets,
           \A u \in Wallets : participant'[u].tickets = participant[u].tickets
    PROVE  TypeInv'
BY DEF TypeInv

LEMMA SettlementStartType ==
    ASSUME TypeOK
    PROVE  SettlementStart \in Nat \ {0}
<1>1. now \in Nat \ {0}  BY ScheduleAssumption DEF TypeOK
<1>2. lottery.settlement_start \in Nat  BY DEF TypeOK, LotteryType
<1> QED  BY <1>1, <1>2 DEF SettlementStart

LEMMA AttestedType ==
    ASSUME TypeOK, NEW w \in Wallets, NEW v \in Nat
    PROVE  /\ Attested(participant[w], v) \in ParticipantType
           /\ Attested(participant[w], v) =
                [participant[w] EXCEPT !.attested = TRUE, !.attested_at = now, !.vote = v]
           /\ Attested(participant[w], v).tickets = participant[w].tickets
           /\ Attested(participant[w], v).included = participant[w].included
           /\ Attested(participant[w], v).attested
<1>1. now \in Nat  BY ScheduleAssumption DEF TypeOK
<1>2. participant[w] \in ParticipantType  BY DEF TypeOK
<1> QED  BY <1>1, <1>2 DEF Attested, ParticipantType

LEMMA AttestUploadedType ==
    ASSUME TypeInv, NEW w \in Wallets, NEW v \in 1..MaxWinnersCap, AttestUploaded(w, v)
    PROVE  TypeInv'
<1> DEFINE start == IF lottery.attested_count + 1 = lottery.participants_count
                    THEN SettlementStart ELSE lottery.settlement_start
<1>1. TypeOK  BY DEF TypeInv
<1>2. lottery \in LotteryType /\ participant \in [Wallets -> ParticipantType]
  BY <1>1 DEF TypeOK
<1>3. /\ participant' = [participant EXCEPT ![w] = Attested(participant[w], v)]
      /\ lottery' = [lottery EXCEPT !.attested_count = lottery.attested_count + 1,
                                    !.settlement_start = start]
      /\ UNCHANGED <<now, roster, tally, root, page, vault, received, treasury>>
  BY DEF AttestUploaded
<1>4. start \in Nat
  <2>1. lottery.settlement_start \in Nat  BY <1>2 DEF LotteryType
  <2> QED  BY <1>1, <2>1, SettlementStartType
<1> HIDE DEF start
<1>5. lottery' \in LotteryType /\ lottery'.total_tickets = lottery.total_tickets
  <2>1. lottery.attested_count + 1 \in Nat  BY <1>2 DEF LotteryType
  <2> QED  BY <1>2, <1>3, <1>4, <2>1 DEF LotteryType
<1>6. v \in Nat  BY LimitAssumption
<1>7. /\ participant' \in [Wallets -> ParticipantType]
      /\ \A u \in Wallets : participant'[u].tickets = participant[u].tickets
  <2> DEFINE mine == Attested(participant[w], v)
  <2>1. mine \in ParticipantType /\ mine.tickets = participant[w].tickets
    BY <1>1, <1>6, AttestedType
  <2>2. participant' = [participant EXCEPT ![w] = mine]  BY <1>3
  <2> HIDE DEF mine
  <2> QED  BY <1>2, <2>1, <2>2
<1>8. TypeOK'  BY <1>1, <1>3, <1>5, <1>7 DEF TypeOK, IsTally
<1> QED  BY <1>5, <1>7, <1>8, TypeInvKept

LEMMA AttestRevealType ==
    ASSUME TypeInv, NEW w \in Wallets, NEW v \in 1..MaxWinnersCap, AttestReveal(w, v)
    PROVE  TypeInv'
<1> DEFINE mine  == [Attested(participant[w], v) EXCEPT !.included = TRUE]
           p     == [participant EXCEPT ![w] = [Attested(@, v) EXCEPT !.included = TRUE]]
           votes == AddVotes(LoadTally, Ballots(p, {w}))
           won   == SelectedWinners(votes, lottery.participants_count)
           count == IF lottery.participants_count > 1 THEN won
                    ELSE lottery.selected_number_of_winners
           all   == lottery.attested_count + 1 = lottery.participants_count
           start == IF all THEN SettlementStart ELSE lottery.settlement_start
           done  == \/ lottery.uploads_complete
                    \/ /\ lottery.provider_uploaded_count + 1 >= lottery.attested_count + 1
                       /\ all \/ UploadElapsed
<1>1. TypeOK  BY DEF TypeInv
<1>2. lottery \in LotteryType /\ participant \in [Wallets -> ParticipantType]
  BY <1>1 DEF TypeOK
<1>3. /\ lottery.participants_count > 1 => ValidWinnersCount(won)
      /\ participant' = p
      /\ tally' = votes
      /\ lottery' = [lottery EXCEPT
            !.attested_count = lottery.attested_count + 1,
            !.provider_uploaded_count = lottery.provider_uploaded_count + 1,
            !.selected_number_of_winners = count,
            !.settlement_start = start, !.uploads_complete = done]
      /\ UNCHANGED <<now, roster, root, page, vault, received, treasury>>
  BY DEF AttestReveal
<1>4. start \in Nat
  <2>1. lottery.settlement_start \in Nat  BY <1>2 DEF LotteryType
  <2> QED  BY <1>1, <2>1, SettlementStartType
<1>5. count \in Nat \ {0}
  <2>1. /\ lottery.participants_count \in Int
        /\ lottery.selected_number_of_winners \in Nat \ {0}
    BY <1>2, LimitAssumption DEF LotteryType
  <2> HIDE DEF won
  <2> QED  BY <1>3, <2>1 DEF ValidWinnersCount
<1>6. done \in BOOLEAN  BY <1>2 DEF LotteryType
<1>7. IsTally(tally')
  <2> HIDE DEF p
  <2>1. IsFiniteSet(Ballots(p, {w}))  BY <1>1, BallotsFinite
  <2> QED  BY <1>1, <1>3, <2>1, LoadTallyIsTally, AddVotesTally
<1>8. mine \in ParticipantType /\ mine.tickets = participant[w].tickets
  <2>1. v \in Nat  BY LimitAssumption
  <2>2. /\ Attested(participant[w], v) \in ParticipantType
        /\ Attested(participant[w], v).tickets = participant[w].tickets
    BY <1>1, <2>1, AttestedType
  <2> QED  BY <2>2 DEF ParticipantType
<1>9. participant' = [participant EXCEPT ![w] = mine]  BY <1>3
<1> HIDE DEF mine, p, votes, won, count, all, start, done
<1>10. lottery' \in LotteryType /\ lottery'.total_tickets = lottery.total_tickets
  <2>1. lottery.attested_count + 1 \in Nat /\ lottery.provider_uploaded_count + 1 \in Nat
    BY <1>2 DEF LotteryType
  <2> QED  BY <1>2, <1>3, <1>4, <1>5, <1>6, <2>1 DEF LotteryType
<1>11. /\ participant' \in [Wallets -> ParticipantType]
       /\ \A u \in Wallets : participant'[u].tickets = participant[u].tickets
  BY <1>2, <1>8, <1>9
<1>12. TypeOK'  BY <1>1, <1>3, <1>7, <1>10, <1>11 DEF TypeOK
<1> QED  BY <1>10, <1>11, <1>12, TypeInvKept

LEMMA BegunRemediationType ==
    ASSUME TypeOK
    PROVE  /\ BegunRemediation(lottery) \in LotteryType
           /\ BegunRemediation(lottery).total_tickets = lottery.total_tickets
<1>1. now \in Nat /\ lottery \in LotteryType  BY ScheduleAssumption DEF TypeOK
<1>2. RemediationDeadline \in Nat
  BY ScheduleAssumption DEF RemediationDeadline, UploadDeadline, BuyDeadline
<1> QED  BY <1>1, <1>2 DEF BegunRemediation, LotteryType

LEMMA UploadRevealsType ==
    ASSUME TypeInv, NEW byAuthority \in BOOLEAN, NEW S \in SUBSET Wallets,
           UploadReveals(byAuthority, S)
    PROVE  TypeInv'
<1> DEFINE begun    == IF ~byAuthority /\ lottery.remediation_start = 0
                       THEN BegunRemediation(lottery) ELSE lottery
           votes    == AddVotes(LoadTally, Ballots(participant, S))
           count    == SelectedWinners(votes, lottery.participants_count)
           uploaded == lottery.provider_uploaded_count + Cardinality(S)
           done     == uploaded >= lottery.attested_count
<1>1. TypeOK  BY DEF TypeInv
<1>2. lottery \in LotteryType /\ participant \in [Wallets -> ParticipantType]
  BY <1>1 DEF TypeOK
<1>3. /\ ValidWinnersCount(count)
      /\ participant' = [w \in Wallets |->
            IF w \in S THEN [participant[w] EXCEPT !.included = TRUE] ELSE participant[w]]
      /\ tally' = votes
      /\ lottery' = [begun EXCEPT
            !.settlement_start = SettlementStart, !.provider_uploaded_count = uploaded,
            !.uploads_complete = done, !.selected_number_of_winners = count]
      /\ UNCHANGED <<now, roster, root, page, vault, received, treasury>>
  BY DEF UploadReveals
<1>4. begun \in LotteryType /\ begun.total_tickets = lottery.total_tickets
  BY <1>1, <1>2, BegunRemediationType
<1>5. uploaded \in Nat
  <2>1. lottery.provider_uploaded_count \in Nat  BY <1>2 DEF LotteryType
  <2> QED  BY <2>1, CardinalityOfWallets
<1>6. count \in Nat \ {0}
  <2>1. lottery.participants_count \in Int  BY <1>2, LimitAssumption DEF LotteryType
  <2> HIDE DEF count
  <2> QED  BY <1>3, <2>1 DEF ValidWinnersCount
<1>7. IsTally(tally')
  <2>1. IsFiniteSet(Ballots(participant, S))  BY <1>1, BallotsFinite
  <2> QED  BY <1>1, <1>3, <2>1, LoadTallyIsTally, AddVotesTally
<1>8. done \in BOOLEAN  OBVIOUS
<1> HIDE DEF begun, votes, count, uploaded, done
<1>9. lottery' \in LotteryType /\ lottery'.total_tickets = lottery.total_tickets
  <2>1. SettlementStart \in Nat  BY <1>1, SettlementStartType
  <2> QED  BY <1>3, <1>4, <1>5, <1>6, <1>8, <2>1 DEF LotteryType
<1>10. /\ participant' \in [Wallets -> ParticipantType]
       /\ \A u \in Wallets : participant'[u].tickets = participant[u].tickets
  BY <1>2, <1>3 DEF ParticipantType
<1>11. TypeOK'  BY <1>1, <1>3, <1>7, <1>9, <1>10 DEF TypeOK
<1> QED  BY <1>9, <1>10, <1>11, TypeInvKept

LEMMA BeginRemediationType ==
    ASSUME TypeInv, BeginRemediation
    PROVE  TypeInv'
<1>1. TypeOK  BY DEF TypeInv
<1>2. lottery' = BegunRemediation(lottery)
      /\ UNCHANGED <<now, participant, roster, tally, root, page, vault, received, treasury>>
  BY DEF BeginRemediation
<1>3. TypeOK' /\ lottery'.total_tickets = lottery.total_tickets
  BY <1>1, <1>2, BegunRemediationType DEF TypeOK, IsTally
<1> QED  BY <1>2, <1>3, TypeInvKept

LEMMA BeginSelectionRoundType ==
    ASSUME NEW r \in RootType, NEW draw \in Nat
    PROVE  BeginSelectionRound(r, draw) \in RootType
BY DEF BeginSelectionRound, RootType

LEMMA AggregateChunkType ==
    ASSUME TypeInv, NEW last \in 1..Len(roster), NEW draw \in 0..MaxTickets,
           AggregateChunk(last, draw)
    PROVE  TypeInv'
<1> DEFINE r        == LoadRoot
           chunk    == Chunk(r.processed + 1, last)
           eligible == {w \in chunk : participant[w].included}
           counted  == [r EXCEPT !.processed = last,
                                 !.eligible_count = @ + Cardinality(eligible),
                                 !.eligible_tickets = @ + TicketCount(eligible)]
           target   == Min({Max({lottery.selected_number_of_winners, 1}),
                            EffectiveMaxWinners, counted.eligible_count})
<1>1. TypeOK  BY DEF TypeInv
<1>2. /\ lottery \in LotteryType /\ participant \in [Wallets -> ParticipantType]
      /\ root \in RootType /\ roster \in Seq(Wallets)
  BY <1>1 DEF TypeOK
<1>3. /\ participant' = [w \in Wallets |->
            IF w \in chunk THEN [participant[w] EXCEPT !.finalized = TRUE] ELSE participant[w]]
      /\ \/ root' = counted /\ UNCHANGED lottery
         \/ /\ ValidWinnersCount(target)
            /\ root' = BeginSelectionRound([counted EXCEPT !.target = target], draw)
            /\ lottery' = [lottery EXCEPT !.selected_number_of_winners = target]
      /\ UNCHANGED <<now, roster, tally, page, vault, received, treasury>>
  BY DEF AggregateChunk
<1>4. r \in RootType
  <2>1. lottery.participants_count \in Nat  BY <1>2, LimitAssumption DEF LotteryType
  <2> QED  BY <1>2, <2>1 DEF LoadRoot, NoRoot, RootType
<1>5. eligible \in SUBSET Wallets
  <2>1. r.processed + 1 \in Nat \ {0}  BY <1>4 DEF RootType
  <2> DEFINE first == r.processed + 1
  <2> HIDE DEF first
  <2>2. Chunk(first, last) \in SUBSET Wallets
    <3>1. first \in Nat \ {0}  BY <2>1 DEF first
    <3> QED  BY <1>1, <3>1, ChunkOfWallets
  <2> QED  BY <2>2 DEF first
<1>6. Cardinality(eligible) \in Nat /\ TicketCount(eligible) \in Nat
  <2> HIDE DEF eligible
  <2> QED  BY <1>1, <1>5, CardinalityOfWallets, TicketsFinite
<1>7. last \in Nat /\ draw \in Nat  BY <1>2, LimitAssumption
<1>8. counted \in RootType
  <2> HIDE DEF r, eligible
  <2>1. r.eligible_count \in Nat /\ r.eligible_tickets \in Nat  BY <1>4 DEF RootType
  <2>2. /\ r.eligible_count + Cardinality(eligible) \in Nat
        /\ r.eligible_tickets + TicketCount(eligible) \in Nat
    BY <1>6, <2>1
  <2>3. counted = [r EXCEPT !.processed = last,
                      !.eligible_count = r.eligible_count + Cardinality(eligible),
                      !.eligible_tickets = r.eligible_tickets + TicketCount(eligible)]
    OBVIOUS
  <2> QED  BY <1>4, <1>7, <2>2, <2>3 DEF RootType
<1> HIDE DEF r, counted, target
<1>9. ValidWinnersCount(target) => target \in Nat \ {0}
  <2>1. lottery.participants_count \in Int  BY <1>2, LimitAssumption DEF LotteryType
  <2> QED  BY <2>1 DEF ValidWinnersCount
<1>10. root' \in RootType
  <2>1. ASSUME ValidWinnersCount(target)
        PROVE  BeginSelectionRound([counted EXCEPT !.target = target], draw) \in RootType
    <3>1. [counted EXCEPT !.target = target] \in RootType  BY <1>8, <1>9, <2>1 DEF RootType
    <3> QED  BY <1>7, <3>1, BeginSelectionRoundType
  <2> QED  BY <1>3, <1>8, <2>1
<1>11. lottery' \in LotteryType /\ lottery'.total_tickets = lottery.total_tickets
  BY <1>2, <1>3, <1>9 DEF LotteryType
<1>12. /\ participant' \in [Wallets -> ParticipantType]
       /\ \A u \in Wallets : participant'[u].tickets = participant[u].tickets
  <2>1. \A u \in Wallets :
          /\ [participant[u] EXCEPT !.finalized = TRUE] \in ParticipantType
          /\ [participant[u] EXCEPT !.finalized = TRUE].tickets = participant[u].tickets
    BY <1>2 DEF ParticipantType
  <2>2. participant' = [w \in Wallets |->
            IF w \in chunk THEN [participant[w] EXCEPT !.finalized = TRUE] ELSE participant[w]]
    BY <1>3
  <2> HIDE DEF chunk
  <2> QED  BY <1>2, <2>1, <2>2
<1>13. TypeOK'  BY <1>1, <1>3, <1>10, <1>11, <1>12 DEF TypeOK, IsTally
<1> QED  BY <1>11, <1>12, <1>13, TypeInvKept

LEMMA WalkChunkType ==
    ASSUME TypeOK, NEW last \in 1..Len(roster)
    PROVE  /\ WalkChunk(last) \in RootType
           /\ WalkChunk(last).selected_count = root.selected_count
<1> DEFINE first    == root.round_processed + 1
           live     == {w \in Chunk(first, last) : Live(w)}
           start(i) == root.round_seen + TicketCount({w \in Chunk(first, i - 1) : Live(w)})
           hits     == {i \in first..last :
                           /\ roster[i] \in live
                           /\ start(i) <= root.draw
                           /\ root.draw < start(i) + participant[roster[i]].tickets}
           found    == root.pending = NoWallet /\ hits # {}
           hit      == roster[CHOOSE i \in hits : TRUE]
           pending  == IF found THEN hit ELSE root.pending
           seen     == root.round_seen + TicketCount(live)
<1>1. root \in RootType /\ roster \in Seq(Wallets)  BY DEF TypeOK
<1>2. live \in SUBSET Wallets
  <2>1. first \in Nat \ {0}  BY <1>1 DEF RootType
  <2> HIDE DEF first
  <2> QED  BY <2>1, ChunkOfWallets
<1>3. hits # {} => hit \in live
  <2> HIDE DEF live, start, first
  <2>1. \A i \in hits : roster[i] \in live  OBVIOUS
  <2> HIDE DEF hits
  <2> QED  BY <2>1
<1>4. WalkChunk(last) = [root EXCEPT !.round_processed = last, !.round_seen = seen,
                                     !.pending = pending]
  BY <1>1 DEF WalkChunk, RootType
<1> HIDE DEF live, hits, hit
<1>5. seen \in Nat
  <2>1. root.round_seen \in Nat  BY <1>1 DEF RootType
  <2> QED  BY <1>2, <2>1, TicketsFinite
<1>6. pending \in Wallets \cup {NoWallet}  BY <1>1, <1>2, <1>3 DEF RootType
<1>7. last \in Nat  BY <1>1
<1> DEFINE walked == [root EXCEPT !.round_processed = last, !.round_seen = seen,
                                !.pending = pending]
<1> HIDE DEF seen, pending, first
<1>8. walked \in RootType  BY <1>1, <1>5, <1>6, <1>7 DEF RootType
<1> QED  BY <1>4, <1>8

(***************************************************************************)
(* The service fee is taken out of the funds, so the pool is no debt.      *)
(***************************************************************************)
LEMMA VestedType ==
    ASSUME TypeOK, NEW count \in Nat \ {0}, WinnersPool >= count
    PROVE  /\ Vested(lottery, count) \in LotteryType
           /\ Vested(lottery, count).total_tickets = lottery.total_tickets
<1>1. lottery \in LotteryType  BY DEF TypeOK
<1>2. WinnersPool \in Nat
  <2>1. lottery.total_funds \in Nat /\ ServiceChargeBps \in Nat
    BY <1>1, MoneyAssumption DEF LotteryType
  <2>2. lottery.total_funds * ServiceChargeBps \in Nat  BY <2>1
  <2>3. ServiceFee \in Int  BY <2>2 DEF ServiceFee
  <2> QED  BY <2>1, <2>3 DEF WinnersPool
<1>3. SharePerWinner(count) \in Nat
  <2> HIDE DEF WinnersPool
  <2> QED  BY <1>2 DEF SharePerWinner
<1>4. SharePerWinner(count) * count \in Nat  BY <1>3
<1>5. SettlementStart \in Nat  BY SettlementStartType
<1> QED  BY <1>1, <1>4, <1>5 DEF Vested, LotteryType

LEMMA SelectChunkType ==
    ASSUME TypeInv, NEW last \in 1..Len(roster), NEW draw \in 0..MaxTickets,
           SelectChunk(last, draw)
    PROVE  TypeInv'
<1> DEFINE walked   == WalkChunk(last)
           recorded == RecordWinner(walked)
           marked   == IF walked.pending = root.pending THEN {} ELSE {walked.pending}
<1>1. TypeOK  BY DEF TypeInv
<1>2. /\ lottery \in LotteryType /\ participant \in [Wallets -> ParticipantType]
      /\ page \in [entries: Seq(Wallets), paid: SUBSET Nat]
  BY <1>1 DEF TypeOK
<1>3. /\ participant' = [w \in Wallets |->
            IF w \in marked THEN [participant[w] EXCEPT !.selected = TRUE] ELSE participant[w]]
      /\ \/ root' = walked /\ UNCHANGED <<lottery, page>>
         \/ /\ walked.pending # NoWallet
            /\ page' = [page EXCEPT !.entries = Append(page.entries, walked.pending)]
            /\ \/ root' = BeginSelectionRound(recorded, draw) /\ UNCHANGED lottery
               \/ /\ WinnersPool >= recorded.selected_count
                  /\ root' = [recorded EXCEPT !.phase = "completed"]
                  /\ lottery' = Vested(lottery, recorded.selected_count)
      /\ UNCHANGED <<now, roster, tally, vault, received, treasury>>
  BY DEF SelectChunk
<1>4. walked \in RootType  BY <1>1, WalkChunkType
<1> HIDE DEF walked
<1>5. walked.pending # NoWallet =>
        recorded \in RootType /\ recorded.selected_count \in Nat \ {0}
  <2> SUFFICES ASSUME walked.pending # NoWallet
               PROVE  recorded \in RootType /\ recorded.selected_count \in Nat \ {0}
    OBVIOUS
  <2> DEFINE held == participant[walked.pending].tickets
  <2>1. walked.pending \in Wallets  BY <1>4 DEF RootType
  <2>2. held \in Nat  BY <1>2, <2>1, LimitAssumption DEF ParticipantType
  <2>3. recorded = [walked EXCEPT !.selected_count = walked.selected_count + 1,
                                  !.selected_tickets = walked.selected_tickets + held]
    BY DEF RecordWinner
  <2>4. walked.selected_count + 1 \in Nat \ {0} /\ walked.selected_tickets + held \in Nat
    <3> HIDE DEF held
    <3>1. walked.selected_count \in Nat /\ walked.selected_tickets \in Nat
      BY <1>4 DEF RootType
    <3> QED  BY <2>2, <3>1
  <2> HIDE DEF held, recorded
  <2> QED  BY <1>4, <2>3, <2>4 DEF RootType
<1> HIDE DEF recorded
<1>6. root' \in RootType
  <2>1. draw \in Nat  BY LimitAssumption
  <2>2. recorded \in RootType => [recorded EXCEPT !.phase = "completed"] \in RootType
    BY DEF RootType
  <2> QED  BY <1>3, <1>4, <1>5, <2>1, <2>2, BeginSelectionRoundType
<1>7. lottery' \in LotteryType /\ lottery'.total_tickets = lottery.total_tickets
  BY <1>1, <1>2, <1>3, <1>5, VestedType
<1>8. page' \in [entries: Seq(Wallets), paid: SUBSET Nat]
  <2>1. walked.pending # NoWallet => Append(page.entries, walked.pending) \in Seq(Wallets)
    BY <1>2, <1>4 DEF RootType
  <2> QED  BY <1>2, <1>3, <2>1
<1>9. /\ participant' \in [Wallets -> ParticipantType]
      /\ \A u \in Wallets : participant'[u].tickets = participant[u].tickets
  <2>1. \A u \in Wallets :
          /\ [participant[u] EXCEPT !.selected = TRUE] \in ParticipantType
          /\ [participant[u] EXCEPT !.selected = TRUE].tickets = participant[u].tickets
    BY <1>2 DEF ParticipantType
  <2>2. participant' = [w \in Wallets |->
            IF w \in marked THEN [participant[w] EXCEPT !.selected = TRUE] ELSE participant[w]]
    BY <1>3
  <2> HIDE DEF marked
  <2> QED  BY <1>2, <2>1, <2>2
<1>10. TypeOK'  BY <1>1, <1>3, <1>6, <1>7, <1>8, <1>9 DEF TypeOK, IsTally
<1> QED  BY <1>7, <1>9, <1>10, TypeInvKept

LEMMA SettlePayoutBatchType ==
    ASSUME TypeInv, NEW batch \in Batches, SettlePayoutBatch(batch)
    PROVE  TypeInv'
<1> DEFINE amount  == lottery.total_payout \div lottery.winners_count
           paid    == {batch[i] : i \in DOMAIN batch}
           left    == vault - amount * Cardinality(PayingPositions(batch))
           allPaid == lottery.paid_winners \cup paid = 0..(lottery.winners_count - 1)
<1>1. TypeOK  BY DEF TypeInv
<1>2. /\ lottery \in LotteryType /\ page \in [entries: Seq(Wallets), paid: SUBSET Nat]
      /\ vault \in Nat /\ treasury \in Nat /\ received \in [Wallets -> Nat]
  BY <1>1 DEF TypeOK
<1>3. /\ lottery.winners_count # 0
      /\ left >= 0
      /\ page' = [page EXCEPT !.paid = @ \cup paid]
      /\ received' = [w \in Wallets |-> received[w] + amount * PaidTo(batch, w)]
      /\ lottery' = [lottery EXCEPT
            !.paid_winners = lottery.paid_winners \cup paid,
            !.settlement_batches_completed = NextBatchCount,
            !.settlement_complete = allPaid,
            !.settled = lottery.settled \/ allPaid]
      /\ vault' = IF allPaid THEN 0 ELSE left
      /\ treasury' = IF allPaid THEN treasury + left ELSE treasury
      /\ UNCHANGED <<now, participant, roster, tally, root>>
  BY DEF SettlePayoutBatch, MayPay, LeftAfter, PaidAfter, AllPaidAfter
<1>4. PICK k \in 1..MaxBatch : batch \in [1..k -> 0..(Len(page.entries) - 1)]
  BY DEF Batches
<1>5. paid \in SUBSET Nat  BY <1>2, <1>4
<1>6. amount \in Nat
  <2>1. lottery.total_payout \in Nat /\ lottery.winners_count \in Nat \ {0}
    BY <1>2, <1>3 DEF LotteryType
  <2> QED  BY <2>1
<1>7. \A w \in Wallets : PaidTo(batch, w) \in Nat
  <2>1. IsFiniteSet(1..k)  BY <1>4, LimitAssumption, FS_Interval
  <2>2. PayingPositions(batch) \in SUBSET (1..k)  BY <1>4 DEF PayingPositions
  <2> SUFFICES ASSUME NEW w \in Wallets
               PROVE  PaidTo(batch, w) \in Nat
    OBVIOUS
  <2> DEFINE to == {i \in PayingPositions(batch) : page.entries[batch[i] + 1] = w}
  <2>3. to \in SUBSET (1..k)  BY <2>2
  <2>4. PaidTo(batch, w) = Cardinality(to)  BY DEF PaidTo
  <2> HIDE DEF to
  <2> QED  BY <2>1, <2>3, <2>4, FS_Subset, FS_CardinalityType
<1>8. Cardinality(PayingPositions(batch)) \in Nat
  <2>1. IsFiniteSet(1..k)  BY <1>4, LimitAssumption, FS_Interval
  <2>2. PayingPositions(batch) \in SUBSET (1..k)  BY <1>4 DEF PayingPositions
  <2> QED  BY <2>1, <2>2, FS_Subset, FS_CardinalityType
<1>9. left \in Nat
  <2> DEFINE m == Cardinality(PayingPositions(batch))
  <2>1. m \in Nat  BY <1>8
  <2> HIDE DEF amount, m
  <2>2. amount * m \in Nat  BY <1>6, <2>1
  <2>3. left = vault - amount * m  BY DEF m
  <2> QED  BY <1>2, <1>3, <2>2, <2>3
<1>10. NextBatchCount \in 0..U32Max
  <2> DEFINE next == lottery.settlement_batches_completed + 1
  <2>1. next \in Nat
    <3>1. lottery.settlement_batches_completed \in 0..U32Max  BY <1>2 DEF LotteryType
    <3> QED  BY <3>1, LimitAssumption
  <2>2. U32Max \in Nat  BY LimitAssumption
  <2>3. NextBatchCount = Min({next, U32Max})  BY DEF NextBatchCount
  <2> HIDE DEF next
  <2> QED  BY <2>1, <2>2, <2>3, MinPair
<1>11. allPaid \in BOOLEAN  OBVIOUS
<1> HIDE DEF amount, paid, left, allPaid
<1>12. lottery' \in LotteryType /\ lottery'.total_tickets = lottery.total_tickets
  <2>1. lottery.paid_winners \cup paid \in SUBSET Nat  BY <1>2, <1>5 DEF LotteryType
  <2> QED  BY <1>2, <1>3, <1>10, <1>11, <2>1 DEF LotteryType
<1>13. page' \in [entries: Seq(Wallets), paid: SUBSET Nat]
  BY <1>2, <1>3, <1>5
<1>14. received' \in [Wallets -> Nat]
  <2>1. ASSUME NEW w \in Wallets
        PROVE  received[w] + amount * PaidTo(batch, w) \in Nat
    <3> DEFINE m == PaidTo(batch, w)
    <3>1. m \in Nat /\ received[w] \in Nat  BY <1>2, <1>7
    <3> HIDE DEF m
    <3>2. amount * m \in Nat  BY <1>6, <3>1
    <3>3. received[w] + amount * m \in Nat  BY <3>1, <3>2
    <3> QED  BY <3>3 DEF m
  <2> QED  BY <1>3, <2>1
<1>15. vault' \in Nat /\ treasury' \in Nat  BY <1>2, <1>3, <1>9
<1>16. TypeOK'  BY <1>1, <1>3, <1>12, <1>13, <1>14, <1>15 DEF TypeOK, IsTally
<1> QED  BY <1>3, <1>12, <1>16, TypeInvKept

LEMMA FinalizeNoAttestersType ==
    ASSUME TypeInv, FinalizeNoAttesters
    PROVE  TypeInv'
<1>1. TypeOK  BY DEF TypeInv
<1>2. /\ lottery' = [lottery EXCEPT !.settled = TRUE]
      /\ UNCHANGED <<now, participant, roster, tally, root, page, vault, received, treasury>>
  BY DEF FinalizeNoAttesters, Cancellable
<1>3. lottery' \in LotteryType /\ lottery'.total_tickets = lottery.total_tickets
  BY <1>1, <1>2 DEF TypeOK, LotteryType
<1>4. TypeOK'  BY <1>1, <1>2, <1>3 DEF TypeOK, IsTally
<1> QED  BY <1>2, <1>3, <1>4, TypeInvKept

LEMMA ClaimRefundType ==
    ASSUME TypeInv, NEW w \in Wallets, ClaimRefund(w)
    PROVE  TypeInv'
<1> DEFINE refund == RefundOf(w)
           next   == lottery.settlement_batches_completed + 1
<1>1. TypeOK  BY DEF TypeInv
<1>2. /\ lottery \in LotteryType /\ participant \in [Wallets -> ParticipantType]
      /\ vault \in Nat /\ received \in [Wallets -> Nat]
  BY <1>1 DEF TypeOK
<1>3. /\ vault >= refund
      /\ lottery.settlement_batches_completed < U32Max
      /\ vault' = vault - refund
      /\ received' = [received EXCEPT ![w] = received[w] + refund]
      /\ participant' = [participant EXCEPT ![w] =
                            [participant[w] EXCEPT !.refund_claimed = TRUE]]
      /\ lottery' = [lottery EXCEPT !.settlement_batches_completed = next]
      /\ UNCHANGED <<now, roster, tally, root, page, treasury>>
  BY DEF ClaimRefund, MayClaim
<1>4. refund \in Nat
  <2>1. participant[w].tickets \in Nat  BY <1>2, LimitAssumption DEF ParticipantType
  <2> QED  BY <2>1, MoneyAssumption DEF RefundOf
<1>5. next \in 0..U32Max  BY <1>2, <1>3, LimitAssumption DEF LotteryType
<1> HIDE DEF refund, next
<1>6. lottery' \in LotteryType /\ lottery'.total_tickets = lottery.total_tickets
  BY <1>2, <1>3, <1>5 DEF LotteryType
<1>7. /\ participant' \in [Wallets -> ParticipantType]
      /\ \A u \in Wallets : participant'[u].tickets = participant[u].tickets
  <2> DEFINE mine == [participant[w] EXCEPT !.refund_claimed = TRUE]
  <2>1. mine \in ParticipantType /\ mine.tickets = participant[w].tickets
    BY <1>2 DEF ParticipantType
  <2>2. participant' = [participant EXCEPT ![w] = mine]  BY <1>3
  <2> HIDE DEF mine
  <2> QED  BY <1>2, <2>1, <2>2
<1>8. vault' \in Nat /\ received' \in [Wallets -> Nat]
  BY <1>2, <1>3, <1>4
<1>9. TypeOK'  BY <1>1, <1>3, <1>6, <1>7, <1>8 DEF TypeOK, IsTally
<1> QED  BY <1>6, <1>7, <1>9, TypeInvKept

LEMMA CloseParticipantType ==
    ASSUME TypeInv, NEW w \in Wallets, CloseParticipant(w)
    PROVE  TypeInv'
<1>1. TypeOK  BY DEF TypeInv
<1>2. /\ participant' = [participant EXCEPT ![w] = [participant[w] EXCEPT !.open = FALSE]]
      /\ UNCHANGED <<now, lottery, roster, tally, root, page, vault, received, treasury>>
  BY DEF CloseParticipant
<1>3. participant \in [Wallets -> ParticipantType]  BY <1>1 DEF TypeOK
<1> DEFINE closed == [participant[w] EXCEPT !.open = FALSE]
<1>4. /\ participant' \in [Wallets -> ParticipantType]
      /\ \A u \in Wallets : participant'[u].tickets = participant[u].tickets
  <2>1. closed \in ParticipantType /\ closed.tickets = participant[w].tickets
    BY <1>3 DEF ParticipantType
  <2>2. participant' = [participant EXCEPT ![w] = closed]  BY <1>2
  <2> HIDE DEF closed
  <2> QED  BY <1>3, <2>1, <2>2
<1>5. TypeOK'  BY <1>1, <1>2, <1>4 DEF TypeOK, IsTally
<1> QED  BY <1>2, <1>4, <1>5, TypeInvKept

LEMMA TypeInvNext ==
    ASSUME TypeInv, [Next]_vars
    PROVE  TypeInv'
<1>1. CASE Tick
  <2>1. now' \in 1..Horizon  BY <1>1, ScheduleAssumption DEF Tick, TypeInv, TypeOK
  <2> QED  BY <1>1, <2>1 DEF Tick, TypeInv, TypeOK, IsTally
<1>2. CASE \E w \in Wallets, n \in 1..MaxTickets : BuyTickets(w, n)
  BY <1>2, BuyTicketsType
<1>3. CASE \E w \in Wallets, v \in 1..MaxWinnersCap : AttestUploaded(w, v)
  BY <1>3, AttestUploadedType
<1>4. CASE \E w \in Wallets, v \in 1..MaxWinnersCap : AttestReveal(w, v)
  BY <1>4, AttestRevealType
<1>5. CASE \E byAuthority \in BOOLEAN, S \in SUBSET Wallets : UploadReveals(byAuthority, S)
  BY <1>5, UploadRevealsType
<1>6. CASE BeginRemediation  BY <1>6, BeginRemediationType
<1>7. CASE \E last \in 1..Len(roster), draw \in 0..MaxTickets : AggregateChunk(last, draw)
  BY <1>7, AggregateChunkType
<1>8. CASE \E last \in 1..Len(roster), draw \in 0..MaxTickets : SelectChunk(last, draw)
  BY <1>8, SelectChunkType
<1>9. CASE \E batch \in Batches : SettlePayoutBatch(batch)
  BY <1>9, SettlePayoutBatchType
<1>10. CASE FinalizeNoAttesters  BY <1>10, FinalizeNoAttestersType
<1>11. CASE \E w \in Wallets : ClaimRefund(w)  BY <1>11, ClaimRefundType
<1>12. CASE CloseRefundVault
  BY <1>12 DEF CloseRefundVault, MayClose, TypeInv, TypeOK, IsTally
<1>13. CASE \E w \in Wallets : CloseParticipant(w)  BY <1>13, CloseParticipantType
<1>14. CASE UNCHANGED vars  BY <1>14 DEF vars, TypeInv, TypeOK, IsTally
<1> QED
  BY <1>1, <1>2, <1>3, <1>4, <1>5, <1>6, <1>7, <1>8, <1>9, <1>10, <1>11, <1>12,
     <1>13, <1>14 DEF Next

LEMMA TypeInvAlways == Spec => []TypeInv
BY TypeInvInit, TypeInvNext, PTL DEF Spec

(* Account fields keep their ranges in every reachable state; the batch
   counter never overflows its u32. *)
THEOREM TypeCorrect == Spec => []TypeOK
<1>1. TypeInv => TypeOK  BY DEF TypeInv
<1> QED  BY <1>1, TypeInvAlways, PTL

------------------------------------------------------------------------------
(***************************************************************************)
(* What finalization may rely on: once it has begun nobody's eligibility   *)
(* changes and no attested reveal is missing, and an outcome once reached  *)
(* stays.                                                                  *)
(***************************************************************************)

(***************************************************************************)
(* An outcome is final because each of the two is guarded by the other:    *)
(* vesting needs a lottery that is not settled, and a record of the draw   *)
(* that is not completed.                                                  *)
(***************************************************************************)
OutcomeInv == TypeInv /\ (HasVestedWinners => root.phase = "completed")

LEMMA OutcomeUndisturbed ==
    ASSUME OutcomeInv, TypeInv',
           lottery'.winners_count = lottery.winners_count,
           lottery'.total_payout = lottery.total_payout,
           lottery.settled => lottery'.settled,
           page'.entries = page.entries,
           root.phase = "completed" => root'.phase = "completed",
           HasVestedWinners => \A w \in Wallets :
               participant'[w].refund_claimed = participant[w].refund_claimed
    PROVE  OutcomeInv' /\ OutcomeKept
BY DEF OutcomeInv, OutcomeKept, HasVestedWinners, Refundable

LEMMA OutcomeNext ==
    ASSUME OutcomeInv, [Next]_vars
    PROVE  OutcomeInv' /\ OutcomeKept
<1>1. TypeInv /\ TypeInv'  BY TypeInvNext DEF OutcomeInv
<1>2. /\ lottery \in LotteryType /\ participant \in [Wallets -> ParticipantType]
      /\ root \in RootType /\ page \in [entries: Seq(Wallets), paid: SUBSET Nat]
  BY <1>1 DEF TypeInv, TypeOK
<1>3. CASE Tick \/ UNCHANGED vars
  BY <1>1, <1>3, OutcomeUndisturbed DEF Tick, vars
<1>4. CASE \E w \in Wallets, n \in 1..MaxTickets : BuyTickets(w, n)
  <2>1. PICK w \in Wallets, n \in 1..MaxTickets : BuyTickets(w, n)  BY <1>4
  <2>2. /\ lottery'.winners_count = lottery.winners_count
        /\ lottery'.total_payout = lottery.total_payout
        /\ lottery'.settled = lottery.settled
    BY <1>2, <2>1 DEF BuyTickets, LotteryType
  <2>3. \A u \in Wallets : participant'[u].refund_claimed = participant[u].refund_claimed
    BY <1>2, <2>1 DEF BuyTickets, ParticipantType
  <2> QED  BY <1>1, <2>1, <2>2, <2>3, OutcomeUndisturbed DEF BuyTickets
<1>5. CASE \E w \in Wallets, v \in 1..MaxWinnersCap : AttestUploaded(w, v)
  <2>1. PICK w \in Wallets, v \in 1..MaxWinnersCap : AttestUploaded(w, v)  BY <1>5
  <2>2. /\ lottery'.winners_count = lottery.winners_count
        /\ lottery'.total_payout = lottery.total_payout
        /\ lottery'.settled = lottery.settled
    BY <1>2, <2>1 DEF AttestUploaded, LotteryType
  <2>3. \A u \in Wallets : participant'[u].refund_claimed = participant[u].refund_claimed
    BY <1>2, <2>1 DEF AttestUploaded, Attested, ParticipantType
  <2> QED  BY <1>1, <2>1, <2>2, <2>3, OutcomeUndisturbed DEF AttestUploaded
<1>6. CASE \E w \in Wallets, v \in 1..MaxWinnersCap : AttestReveal(w, v)
  <2>1. PICK w \in Wallets, v \in 1..MaxWinnersCap : AttestReveal(w, v)  BY <1>6
  <2>2. /\ lottery'.winners_count = lottery.winners_count
        /\ lottery'.total_payout = lottery.total_payout
        /\ lottery'.settled = lottery.settled
    BY <1>2, <2>1 DEF AttestReveal, LotteryType
  <2>3. \A u \in Wallets : participant'[u].refund_claimed = participant[u].refund_claimed
    BY <1>2, <2>1 DEF AttestReveal, Attested, ParticipantType
  <2> QED  BY <1>1, <2>1, <2>2, <2>3, OutcomeUndisturbed DEF AttestReveal
<1>7. CASE \E byAuthority \in BOOLEAN, S \in SUBSET Wallets : UploadReveals(byAuthority, S)
  <2>1. PICK byAuthority \in BOOLEAN, S \in SUBSET Wallets : UploadReveals(byAuthority, S)
    BY <1>7
  <2>2. /\ lottery'.winners_count = lottery.winners_count
        /\ lottery'.total_payout = lottery.total_payout
        /\ lottery'.settled = lottery.settled
    BY <1>2, <2>1 DEF UploadReveals, BegunRemediation, LotteryType
  <2>3. \A u \in Wallets : participant'[u].refund_claimed = participant[u].refund_claimed
    BY <1>2, <2>1 DEF UploadReveals, ParticipantType
  <2> QED  BY <1>1, <2>1, <2>2, <2>3, OutcomeUndisturbed DEF UploadReveals
<1>8. CASE BeginRemediation
  <2>1. /\ lottery'.winners_count = lottery.winners_count
        /\ lottery'.total_payout = lottery.total_payout
        /\ lottery'.settled = lottery.settled
    BY <1>2, <1>8 DEF BeginRemediation, BegunRemediation, LotteryType
  <2> QED  BY <1>1, <1>8, <2>1, OutcomeUndisturbed DEF BeginRemediation
<1>9. CASE \E last \in 1..Len(roster), draw \in 0..MaxTickets : AggregateChunk(last, draw)
  <2>1. PICK last \in 1..Len(roster), draw \in 0..MaxTickets : AggregateChunk(last, draw)
    BY <1>9
  <2>2. /\ lottery'.winners_count = lottery.winners_count
        /\ lottery'.total_payout = lottery.total_payout
        /\ lottery'.settled = lottery.settled
    BY <1>2, <2>1 DEF AggregateChunk, LotteryType
  <2>3. \A u \in Wallets : participant'[u].refund_claimed = participant[u].refund_claimed
    BY <1>2, <2>1 DEF AggregateChunk, ParticipantType
  <2>4. root.phase # "completed"  BY <2>1 DEF AggregateChunk, LoadRoot
  <2> QED  BY <1>1, <2>1, <2>2, <2>3, <2>4, OutcomeUndisturbed DEF AggregateChunk
<1>10. CASE \E last \in 1..Len(roster), draw \in 0..MaxTickets : SelectChunk(last, draw)
  <2>1. PICK last \in 1..Len(roster), draw \in 0..MaxTickets : SelectChunk(last, draw)
    BY <1>10
  <2>2. ~HasVestedWinners /\ ~Refundable
    BY <2>1 DEF SelectChunk, ReadyToFinalize, Finalizing, Refundable, OutcomeInv
  <2>3. HasVestedWinners' => root'.phase = "completed"
    <3>1. CASE UNCHANGED lottery  BY <2>2, <3>1 DEF HasVestedWinners
    <3>2. CASE \E r : root' = [r EXCEPT !.phase = "completed"]
      BY <1>1, <3>2 DEF TypeInv, TypeOK, RootType
    <3> QED  BY <2>1, <3>1, <3>2 DEF SelectChunk
  <2> QED  BY <1>1, <2>2, <2>3 DEF OutcomeInv, OutcomeKept
<1>11. CASE \E batch \in Batches : SettlePayoutBatch(batch)
  <2>1. PICK batch \in Batches : SettlePayoutBatch(batch)  BY <1>11
  <2>2. /\ lottery'.winners_count = lottery.winners_count
        /\ lottery'.total_payout = lottery.total_payout
        /\ lottery.settled => lottery'.settled
    BY <1>2, <2>1 DEF SettlePayoutBatch, MayPay, LotteryType
  <2>3. page'.entries = page.entries  BY <1>2, <2>1 DEF SettlePayoutBatch, MayPay
  <2> QED  BY <1>1, <2>1, <2>2, <2>3, OutcomeUndisturbed DEF SettlePayoutBatch, MayPay
<1>12. CASE FinalizeNoAttesters
  <2>1. /\ lottery'.winners_count = lottery.winners_count
        /\ lottery'.total_payout = lottery.total_payout
        /\ lottery'.settled
    BY <1>2, <1>12 DEF FinalizeNoAttesters, Cancellable, LotteryType
  <2> QED  BY <1>1, <1>12, <2>1, OutcomeUndisturbed DEF FinalizeNoAttesters, Cancellable
<1>13. CASE \E w \in Wallets : ClaimRefund(w)
  <2>1. PICK w \in Wallets : ClaimRefund(w)  BY <1>13
  <2>2. /\ lottery'.winners_count = lottery.winners_count
        /\ lottery'.total_payout = lottery.total_payout
        /\ lottery'.settled = lottery.settled
    BY <1>2, <2>1 DEF ClaimRefund, MayClaim, LotteryType
  <2>3. ~HasVestedWinners  BY <2>1 DEF ClaimRefund, MayClaim, Refundable, HasVestedWinners
  <2> QED  BY <1>1, <2>1, <2>2, <2>3, OutcomeUndisturbed DEF ClaimRefund, MayClaim
<1>14. CASE CloseRefundVault
  BY <1>1, <1>14, OutcomeUndisturbed DEF CloseRefundVault, MayClose
<1>15. CASE \E w \in Wallets : CloseParticipant(w)
  <2>1. PICK w \in Wallets : CloseParticipant(w)  BY <1>15
  <2>2. \A u \in Wallets : participant'[u].refund_claimed = participant[u].refund_claimed
    BY <1>2, <2>1 DEF CloseParticipant, ParticipantType
  <2> QED  BY <1>1, <2>1, <2>2, OutcomeUndisturbed DEF CloseParticipant
<1> QED
  BY <1>3, <1>4, <1>5, <1>6, <1>7, <1>8, <1>9, <1>10, <1>11, <1>12, <1>13, <1>14,
     <1>15 DEF Next

(* Vested winners and their payout never change again and are never refunded,
   and a cancelled lottery never vests, for any number of wallets, any prices
   and any schedule. *)
THEOREM OutcomeFinal == Spec => OutcomeIsFinal
<1>1. Init => OutcomeInv
  BY TypeInvInit DEF Init, OutcomeInv, NewLottery, HasVestedWinners
<1>2. OutcomeInv /\ [Next]_vars => OutcomeInv'  BY OutcomeNext
<1>3. OutcomeInv /\ [Next]_vars => [OutcomeKept]_vars  BY OutcomeNext
<1> QED  BY <1>1, <1>2, <1>3, PTL DEF Spec, OutcomeIsFinal

(***************************************************************************)
(* Why finalization cannot start too early: the two counters the guards    *)
(* compare count the attested and the published wallets, and a lottery     *)
(* whose reveals are all there has left the upload phase.                  *)
(***************************************************************************)
Voted == {w \in Wallets : participant[w].attested}

Revealed == {w \in Wallets : participant[w].included}

CountersInv ==
    /\ lottery.attested_count = Cardinality(Voted)
    /\ lottery.provider_uploaded_count = Cardinality(Revealed)
    /\ Revealed \in SUBSET Voted

PhaseInv ==
    /\ lottery.attested_count # 0 => now >= UploadStart
    /\ AllAttested => lottery.settlement_start # 0
    /\ lottery.uploads_complete => lottery.settlement_start # 0
    /\ root.phase # "none" =>
          /\ lottery.attested_count # 0
          /\ lottery.uploads_complete \/ UploadElapsed
          /\ lottery.provider_uploaded_count >= lottery.attested_count

FinalityInv == TypeInv /\ CountersInv /\ PhaseInv

LEMMA CountedWallets ==
    ASSUME CountersInv
    PROVE  /\ IsFiniteSet(Voted) /\ IsFiniteSet(Revealed)
           /\ lottery.attested_count \in Nat /\ lottery.provider_uploaded_count \in Nat
<1>1. Voted \in SUBSET Wallets /\ Revealed \in SUBSET Wallets  BY DEF Voted, Revealed
<1> QED  BY <1>1, WalletsAssumption, FS_Subset, FS_CardinalityType DEF CountersInv

LEMMA ScheduleOrdered == BuyDeadline \in Int /\ UploadStart = BuyDeadline /\ UploadDeadline > UploadStart
BY ScheduleAssumption DEF BuyDeadline, UploadStart, UploadDeadline

(***************************************************************************)
(* No missing reveal by the counters means no missing reveal.              *)
(***************************************************************************)
LEMMA AllRevealed ==
    ASSUME FinalityInv, root.phase # "none"
    PROVE  Revealed = Voted
<1>1. Cardinality(Revealed) >= Cardinality(Voted)
  BY DEF FinalityInv, CountersInv, PhaseInv
<1>2. IsFiniteSet(Voted) /\ Revealed \in SUBSET Voted
  BY CountedWallets DEF FinalityInv, CountersInv
<1>3. Cardinality(Revealed) \in Nat /\ Cardinality(Voted) \in Nat
  BY CountedWallets, FS_CardinalityType DEF FinalityInv
<1> QED  BY <1>1, <1>2, <1>3, FS_Subset

(***************************************************************************)
(* In the upload phase finalization has not begun.                         *)
(***************************************************************************)
LEMMA NotBegunInUploadPhase ==
    ASSUME FinalityInv, UploadPhase
    PROVE  /\ root.phase = "none" /\ ~UploadElapsed /\ now >= UploadStart
           /\ lottery.settlement_start = 0
<1>1. now \in Int  BY ScheduleAssumption DEF FinalityInv, TypeInv, TypeOK
<1>2. UploadDeadline \in Int  BY ScheduleOrdered, ScheduleAssumption DEF UploadDeadline
<1> QED  BY <1>1, <1>2 DEF FinalityInv, PhaseInv, UploadPhase, UploadElapsed

(***************************************************************************)
(* Steps that touch neither votes, reveals nor what the guards compare.    *)
(***************************************************************************)
LEMMA FinalityUndisturbed ==
    ASSUME FinalityInv, TypeInv',
           now' = now,
           lottery'.attested_count = lottery.attested_count,
           lottery'.provider_uploaded_count = lottery.provider_uploaded_count,
           lottery'.participants_count = lottery.participants_count,
           lottery'.uploads_complete = lottery.uploads_complete,
           lottery'.settlement_start = lottery.settlement_start \/ lottery'.settlement_start # 0,
           root'.phase # "none" =>
               root.phase # "none"
               \/ /\ lottery.attested_count # 0
                  /\ lottery.uploads_complete \/ UploadElapsed
                  /\ lottery.provider_uploaded_count >= lottery.attested_count,
           \A w \in Wallets : Eligibility(w)' = Eligibility(w)
    PROVE  FinalityInv' /\ EligibilityKept
<1>1. Voted' = Voted /\ Revealed' = Revealed  BY DEF Voted, Revealed, Eligibility
<1>2. CountersInv'  BY <1>1 DEF FinalityInv, CountersInv
<1>3. AllAttested' => AllAttested  BY DEF AllAttested
<1>4. UploadElapsed' = UploadElapsed  BY DEF UploadElapsed, UploadDeadline, BuyDeadline
<1>5. PhaseInv'
  BY <1>3, <1>4 DEF FinalityInv, PhaseInv, UploadStart, BuyDeadline
<1> QED  BY <1>2, <1>5 DEF FinalityInv, EligibilityKept

LEMMA TickFinality ==
    ASSUME FinalityInv, TypeInv', Tick
    PROVE  FinalityInv' /\ EligibilityKept
<1>1. UNCHANGED <<lottery, participant, root>> /\ now' = now + 1  BY DEF Tick
<1>2. CountersInv'  BY <1>1 DEF FinalityInv, CountersInv, Voted, Revealed
<1>3. now \in Int /\ UploadStart \in Int /\ UploadDeadline \in Int
  BY ScheduleOrdered, ScheduleAssumption DEF FinalityInv, TypeInv, TypeOK, UploadDeadline
<1>4. AllAttested' = AllAttested  BY <1>1 DEF AllAttested
<1>5. /\ now >= UploadStart => (now >= UploadStart)'
      /\ UploadElapsed => UploadElapsed'
  BY <1>1, <1>3 DEF UploadElapsed, UploadStart, UploadDeadline, BuyDeadline
<1>6. PhaseInv'  BY <1>1, <1>4, <1>5 DEF FinalityInv, PhaseInv
<1>7. EligibilityKept  BY <1>1 DEF EligibilityKept, Eligibility
<1> QED  BY <1>2, <1>6, <1>7 DEF FinalityInv

LEMMA BuyTicketsFinality ==
    ASSUME FinalityInv, TypeInv', NEW w \in Wallets, NEW n \in 1..MaxTickets, BuyTickets(w, n)
    PROVE  FinalityInv' /\ EligibilityKept
<1>1. lottery \in LotteryType /\ participant \in [Wallets -> ParticipantType] /\ now \in Int
  BY ScheduleAssumption DEF FinalityInv, TypeInv, TypeOK
<1>2. lottery.attested_count = 0 /\ root.phase = "none"
  <2>1. now < UploadStart  BY DEF BuyTickets, InBuyWindow
  <2>2. UploadStart \in Int  BY ScheduleOrdered
  <2> QED  BY <1>1, <2>1, <2>2 DEF FinalityInv, PhaseInv
<1>3. /\ lottery'.attested_count = lottery.attested_count
      /\ lottery'.provider_uploaded_count = lottery.provider_uploaded_count
      /\ lottery'.uploads_complete = lottery.uploads_complete
      /\ lottery'.settlement_start = lottery.settlement_start
  BY <1>1 DEF BuyTickets, LotteryType
<1>4. \A u \in Wallets : /\ participant'[u].attested = participant[u].attested
                         /\ participant'[u].included = participant[u].included
  BY <1>1 DEF BuyTickets, ParticipantType
<1>5. CountersInv'
  <2>1. Voted' = Voted /\ Revealed' = Revealed  BY <1>4 DEF Voted, Revealed
  <2> QED  BY <1>3, <2>1 DEF FinalityInv, CountersInv
<1>6. root' = root  BY DEF BuyTickets
<1>7. ~AllAttested'  BY <1>2, <1>3 DEF AllAttested
<1>8. PhaseInv'  BY <1>2, <1>3, <1>6, <1>7 DEF FinalityInv, PhaseInv
<1> QED  BY <1>2, <1>5, <1>8 DEF FinalityInv, EligibilityKept

LEMMA AttestUploadedFinality ==
    ASSUME FinalityInv, TypeInv', NEW w \in Wallets, NEW v \in 1..MaxWinnersCap,
           AttestUploaded(w, v)
    PROVE  FinalityInv' /\ EligibilityKept
<1>1. /\ TypeOK /\ lottery \in LotteryType /\ participant \in [Wallets -> ParticipantType]
  BY DEF FinalityInv, TypeInv, TypeOK
<1>2. root.phase = "none" /\ now >= UploadStart /\ lottery.settlement_start = 0
  BY NotBegunInUploadPhase DEF AttestUploaded, MayAttest
<1>3. /\ lottery'.attested_count = lottery.attested_count + 1
      /\ lottery'.provider_uploaded_count = lottery.provider_uploaded_count
      /\ lottery'.uploads_complete = lottery.uploads_complete
      /\ lottery'.participants_count = lottery.participants_count
      /\ lottery'.settlement_start =
            IF lottery.attested_count + 1 = lottery.participants_count
            THEN SettlementStart ELSE lottery.settlement_start
      /\ root' = root /\ now' = now
  BY <1>1 DEF AttestUploaded, LotteryType
<1>4. /\ Voted' = Voted \cup {w} /\ w \notin Voted
      /\ Revealed' = Revealed
  <2>1. participant' = [participant EXCEPT ![w] = Attested(participant[w], v)]
    BY DEF AttestUploaded
  <2>2. v \in Nat  BY LimitAssumption
  <2>3. /\ Attested(participant[w], v).attested
        /\ Attested(participant[w], v).included = participant[w].included
    BY <1>1, <2>2, AttestedType
  <2>4. ~participant[w].attested  BY DEF AttestUploaded, MayAttest
  <2> QED  BY <1>1, <2>1, <2>3, <2>4 DEF Voted, Revealed
<1>5. CountersInv'
  <2>1. IsFiniteSet(Voted)  BY CountedWallets DEF FinalityInv
  <2>2. Cardinality(Voted') = Cardinality(Voted) + 1  BY <1>4, <2>1, FS_AddElement
  <2> QED  BY <1>3, <1>4, <2>2 DEF FinalityInv, CountersInv
<1>6. PhaseInv'
  <2>1. SettlementStart # 0  BY <1>1, SettlementStartType
  <2>2. (now >= UploadStart)'  BY <1>2, <1>3 DEF UploadStart, BuyDeadline
  <2>3. AllAttested' => lottery'.settlement_start # 0  BY <1>3, <2>1 DEF AllAttested
  <2>4. ~lottery'.uploads_complete  BY <1>2, <1>3 DEF FinalityInv, PhaseInv
  <2> QED  BY <1>2, <1>3, <2>2, <2>3, <2>4 DEF PhaseInv
<1> QED  BY <1>2, <1>5, <1>6 DEF FinalityInv, EligibilityKept

LEMMA AttestRevealFinality ==
    ASSUME FinalityInv, TypeInv', NEW w \in Wallets, NEW v \in 1..MaxWinnersCap,
           AttestReveal(w, v)
    PROVE  FinalityInv' /\ EligibilityKept
<1>1. /\ TypeOK /\ lottery \in LotteryType /\ participant \in [Wallets -> ParticipantType]
  BY DEF FinalityInv, TypeInv, TypeOK
<1>2. /\ root.phase = "none" /\ now >= UploadStart /\ ~UploadElapsed
      /\ lottery.settlement_start = 0
  BY NotBegunInUploadPhase DEF AttestReveal, MayAttest
<1>3. ~lottery.uploads_complete  BY <1>2 DEF FinalityInv, PhaseInv
<1> DEFINE all == lottery.attested_count + 1 = lottery.participants_count
<1>4. /\ lottery'.attested_count = lottery.attested_count + 1
      /\ lottery'.provider_uploaded_count = lottery.provider_uploaded_count + 1
      /\ lottery'.uploads_complete => all
      /\ lottery'.participants_count = lottery.participants_count
      /\ lottery'.settlement_start =
            IF all THEN SettlementStart ELSE lottery.settlement_start
      /\ root' = root /\ now' = now
  BY <1>1, <1>2, <1>3 DEF AttestReveal, LotteryType
<1>5. /\ Voted' = Voted \cup {w} /\ w \notin Voted
      /\ Revealed' = Revealed \cup {w} /\ w \notin Revealed
  <2> DEFINE mine == [Attested(participant[w], v) EXCEPT !.included = TRUE]
  <2>1. participant' = [participant EXCEPT ![w] = mine]  BY DEF AttestReveal
  <2>2. v \in Nat  BY LimitAssumption
  <2>3. mine.attested /\ mine.included
    <3> DEFINE base == Attested(participant[w], v)
    <3>1. base \in ParticipantType /\ base.attested  BY <1>1, <2>2, AttestedType
    <3> HIDE DEF base
    <3>2. LET p == [base EXCEPT !.included = TRUE] IN p.attested /\ p.included
      BY <3>1 DEF ParticipantType
    <3> QED  BY <3>2 DEF base
  <2>4. ~participant[w].attested /\ ~participant[w].included
    BY DEF AttestReveal, MayAttest
  <2> HIDE DEF mine
  <2> QED  BY <1>1, <2>1, <2>3, <2>4 DEF Voted, Revealed
<1>6. CountersInv'
  <2>1. IsFiniteSet(Voted) /\ IsFiniteSet(Revealed)  BY CountedWallets DEF FinalityInv
  <2>2. /\ Cardinality(Voted') = Cardinality(Voted) + 1
        /\ Cardinality(Revealed') = Cardinality(Revealed) + 1
    BY <1>5, <2>1, FS_AddElement
  <2> QED  BY <1>4, <1>5, <2>2 DEF FinalityInv, CountersInv
<1>7. PhaseInv'
  <2>1. SettlementStart # 0  BY <1>1, SettlementStartType
  <2>2. (now >= UploadStart)'  BY <1>2, <1>4 DEF UploadStart, BuyDeadline
  <2>3. AllAttested' => lottery'.settlement_start # 0  BY <1>4, <2>1 DEF AllAttested
  <2> QED  BY <1>2, <1>4, <2>1, <2>2, <2>3 DEF PhaseInv
<1> QED  BY <1>2, <1>6, <1>7 DEF FinalityInv, EligibilityKept

LEMMA UploadRevealsFinality ==
    ASSUME FinalityInv, TypeInv', NEW byAuthority \in BOOLEAN, NEW S \in SUBSET Wallets,
           UploadReveals(byAuthority, S)
    PROVE  FinalityInv' /\ EligibilityKept
<1>1. /\ TypeOK /\ lottery \in LotteryType /\ participant \in [Wallets -> ParticipantType]
  BY DEF FinalityInv, TypeInv, TypeOK
<1>2. /\ ~lottery.uploads_complete
      /\ \A w \in S : participant[w].attested /\ ~participant[w].included
      /\ participant' = [w \in Wallets |->
            IF w \in S THEN [participant[w] EXCEPT !.included = TRUE] ELSE participant[w]]
      /\ root' = root /\ now' = now
  BY DEF UploadReveals
<1>3. /\ lottery'.attested_count = lottery.attested_count
      /\ lottery'.provider_uploaded_count = lottery.provider_uploaded_count + Cardinality(S)
      /\ lottery'.participants_count = lottery.participants_count
      /\ lottery'.settlement_start = SettlementStart
  BY <1>1 DEF UploadReveals, BegunRemediation, LotteryType
<1>4. Voted' = Voted /\ Revealed' = Revealed \cup S /\ Revealed \cap S = {}
  BY <1>1, <1>2 DEF Voted, Revealed, ParticipantType
<1>5. CountersInv'
  <2>1. IsFiniteSet(Revealed) /\ IsFiniteSet(S)
    BY CountedWallets, WalletsAssumption, FS_Subset DEF FinalityInv
  <2>2. Cardinality(Revealed') = Cardinality(Revealed) + Cardinality(S)
    <3>1. /\ Cardinality(Revealed \cup S) =
                Cardinality(Revealed) + Cardinality(S) - Cardinality(Revealed \cap S)
          /\ Cardinality(Revealed) \in Nat /\ Cardinality(S) \in Nat
      BY <2>1, FS_Union, FS_CardinalityType
    <3>2. Cardinality(Revealed \cap S) = 0  BY <1>4, FS_EmptySet
    <3> QED  BY <1>4, <3>1, <3>2
  <2>3. Revealed' \in SUBSET Voted'  BY <1>2, <1>4 DEF FinalityInv, CountersInv, Voted
  <2> QED  BY <1>3, <1>4, <2>2, <2>3 DEF FinalityInv, CountersInv
<1>6. PhaseInv'
  <2>1. lottery'.settlement_start # 0  BY <1>1, <1>3, SettlementStartType
  <2>2. UploadElapsed' = UploadElapsed /\ (now >= UploadStart)' = (now >= UploadStart)
    BY <1>2 DEF UploadElapsed, UploadDeadline, UploadStart, BuyDeadline
  <2>3. lottery.provider_uploaded_count \in Nat /\ lottery.attested_count \in Nat
    BY CountedWallets DEF FinalityInv
  <2>4. Cardinality(S) \in Nat  BY CardinalityOfWallets
  <2> QED  BY <1>2, <1>3, <2>1, <2>2, <2>3, <2>4 DEF FinalityInv, PhaseInv
<1>7. EligibilityKept
  <2> SUFFICES ASSUME root.phase # "none"  PROVE S = {}
    BY <1>1, <1>2 DEF EligibilityKept, Eligibility
  <2> QED  BY <1>2, AllRevealed DEF Voted, Revealed
<1> QED  BY <1>5, <1>6, <1>7 DEF FinalityInv

LEMMA FinalityNext ==
    ASSUME FinalityInv, [Next]_vars
    PROVE  FinalityInv' /\ EligibilityKept
<1>1. TypeInv /\ TypeInv'  BY TypeInvNext DEF FinalityInv
<1>2. /\ TypeOK /\ lottery \in LotteryType /\ participant \in [Wallets -> ParticipantType]
      /\ root \in RootType
  BY <1>1 DEF TypeInv, TypeOK
<1>3. CASE Tick  BY <1>1, <1>3, TickFinality
<1>4. CASE UNCHANGED vars
  BY <1>1, <1>4, FinalityUndisturbed DEF vars, Eligibility
<1>5. CASE \E w \in Wallets, n \in 1..MaxTickets : BuyTickets(w, n)
  BY <1>1, <1>5, BuyTicketsFinality
<1>6. CASE \E w \in Wallets, v \in 1..MaxWinnersCap : AttestUploaded(w, v)
  BY <1>1, <1>6, AttestUploadedFinality
<1>7. CASE \E w \in Wallets, v \in 1..MaxWinnersCap : AttestReveal(w, v)
  BY <1>1, <1>7, AttestRevealFinality
<1>8. CASE \E byAuthority \in BOOLEAN, S \in SUBSET Wallets : UploadReveals(byAuthority, S)
  BY <1>1, <1>8, UploadRevealsFinality
<1> DEFINE Same(l) == /\ l.attested_count = lottery.attested_count
                      /\ l.provider_uploaded_count = lottery.provider_uploaded_count
                      /\ l.participants_count = lottery.participants_count
                      /\ l.uploads_complete = lottery.uploads_complete
<1>9. CASE BeginRemediation
  <2>1. Same(lottery') /\ lottery'.settlement_start = lottery.settlement_start
    BY <1>2, <1>9 DEF BeginRemediation, BegunRemediation, LotteryType
  <2> QED  BY <1>1, <1>9, <2>1, FinalityUndisturbed DEF BeginRemediation, Eligibility
<1>10. CASE \E last \in 1..Len(roster), draw \in 0..MaxTickets : AggregateChunk(last, draw)
  <2>1. PICK last \in 1..Len(roster), draw \in 0..MaxTickets : AggregateChunk(last, draw)
    BY <1>10
  <2>2. Same(lottery') /\ lottery'.settlement_start = lottery.settlement_start
    BY <1>2, <2>1 DEF AggregateChunk, LotteryType
  <2>3. \A u \in Wallets : Eligibility(u)' = Eligibility(u)
    BY <1>2, <2>1 DEF AggregateChunk, Eligibility, ParticipantType
  <2>4. /\ lottery.attested_count # 0
        /\ lottery.uploads_complete \/ UploadElapsed
        /\ lottery.provider_uploaded_count >= lottery.attested_count
    <3>1. /\ lottery.attested_count # 0 /\ ~HasMissingAttestedReveals
          /\ lottery.uploads_complete \/ UploadElapsed
      BY <2>1 DEF AggregateChunk, ReadyToFinalize, Finalizing
    <3>2. lottery.provider_uploaded_count \in Nat /\ lottery.attested_count \in Nat
      BY <1>2 DEF LotteryType
    <3> QED  BY <3>1, <3>2 DEF HasMissingAttestedReveals
  <2>5. now' = now  BY <2>1 DEF AggregateChunk
  <2> QED  BY <1>1, <2>2, <2>3, <2>4, <2>5, FinalityUndisturbed
<1>11. CASE \E last \in 1..Len(roster), draw \in 0..MaxTickets : SelectChunk(last, draw)
  <2>1. PICK last \in 1..Len(roster), draw \in 0..MaxTickets : SelectChunk(last, draw)
    BY <1>11
  <2>2. /\ Same(lottery')
        /\ lottery'.settlement_start \in {lottery.settlement_start, SettlementStart}
    BY <1>2, <2>1 DEF SelectChunk, Vested, LotteryType
  <2>3. \A u \in Wallets : Eligibility(u)' = Eligibility(u)
    BY <1>2, <2>1 DEF SelectChunk, Eligibility, ParticipantType
  <2>4. SettlementStart # 0  BY <1>2, SettlementStartType
  <2>5. now' = now /\ root.phase # "none"  BY <2>1 DEF SelectChunk
  <2> QED  BY <1>1, <2>2, <2>3, <2>4, <2>5, FinalityUndisturbed
<1>12. CASE \E batch \in Batches : SettlePayoutBatch(batch)
  <2>1. PICK batch \in Batches : SettlePayoutBatch(batch)  BY <1>12
  <2>2. Same(lottery') /\ lottery'.settlement_start = lottery.settlement_start
    BY <1>2, <2>1 DEF SettlePayoutBatch, MayPay, LotteryType
  <2> QED  BY <1>1, <2>1, <2>2, FinalityUndisturbed DEF SettlePayoutBatch, MayPay, Eligibility
<1>13. CASE FinalizeNoAttesters
  <2>1. Same(lottery') /\ lottery'.settlement_start = lottery.settlement_start
    BY <1>2, <1>13 DEF FinalizeNoAttesters, Cancellable, LotteryType
  <2> QED  BY <1>1, <1>13, <2>1, FinalityUndisturbed DEF FinalizeNoAttesters, Cancellable, Eligibility
<1>14. CASE \E w \in Wallets : ClaimRefund(w)
  <2>1. PICK w \in Wallets : ClaimRefund(w)  BY <1>14
  <2>2. Same(lottery') /\ lottery'.settlement_start = lottery.settlement_start
    BY <1>2, <2>1 DEF ClaimRefund, MayClaim, LotteryType
  <2>3. \A u \in Wallets : Eligibility(u)' = Eligibility(u)
    BY <1>2, <2>1 DEF ClaimRefund, MayClaim, Eligibility, ParticipantType
  <2> QED  BY <1>1, <2>1, <2>2, <2>3, FinalityUndisturbed DEF ClaimRefund, MayClaim
<1>15. CASE CloseRefundVault
  BY <1>1, <1>15, FinalityUndisturbed DEF CloseRefundVault, MayClose, Eligibility
<1>16. CASE \E w \in Wallets : CloseParticipant(w)
  <2>1. PICK w \in Wallets : CloseParticipant(w)  BY <1>16
  <2>2. \A u \in Wallets : Eligibility(u)' = Eligibility(u)
    BY <1>2, <2>1 DEF CloseParticipant, Eligibility, ParticipantType
  <2> QED  BY <1>1, <2>1, <2>2, FinalityUndisturbed DEF CloseParticipant
<1> QED
  BY <1>3, <1>4, <1>5, <1>6, <1>7, <1>8, <1>9, <1>10, <1>11, <1>12, <1>13, <1>14,
     <1>15, <1>16 DEF Next

LEMMA FinalityInit == Init => FinalityInv
<1> SUFFICES ASSUME Init  PROVE FinalityInv
  OBVIOUS
<1>1. TypeInv  BY TypeInvInit
<1>2. Voted = {} /\ Revealed = {}  BY DEF Init, NewParticipant, Voted, Revealed
<1>3. CountersInv  BY <1>2, FS_EmptySet DEF Init, NewLottery, CountersInv
<1>4. PhaseInv  BY DEF Init, NewLottery, NoRoot, PhaseInv, AllAttested
<1> QED  BY <1>1, <1>3, <1>4 DEF FinalityInv

LEMMA FinalityAlways == Spec => []FinalityInv
<1>1. FinalityInv /\ [Next]_vars => FinalityInv'  BY FinalityNext
<1> QED  BY <1>1, FinalityInit, PTL DEF Spec

(* However uploads, attestations and finalization interleave, finalization
   never begins while a reveal its owner attested is missing. *)
THEOREM NoRevealOmitted == Spec => []NoAttestedRevealOmitted
<1>1. FinalityInv => NoAttestedRevealOmitted
  <2> SUFFICES ASSUME FinalityInv, root.phase # "none"
               PROVE  \A w \in Wallets : participant[w].attested => participant[w].included
    BY DEF NoAttestedRevealOmitted
  <2> QED  BY AllRevealed DEF Voted, Revealed
<1> QED  BY <1>1, FinalityAlways, PTL

(* Nothing that decides who can win changes between two chunks of a
   finalization, for any number of wallets and any schedule. *)
THEOREM EligibilityIsFrozen == Spec => EligibilityFrozen
<1>1. FinalityInv /\ [Next]_vars => FinalityInv'  BY FinalityNext
<1>2. FinalityInv /\ [Next]_vars => [EligibilityKept]_vars  BY FinalityNext
<1> QED  BY <1>1, <1>2, FinalityInit, PTL DEF Spec, EligibilityFrozen
------------------------------------------------------------------------------
(***************************************************************************)
(* The draw of a daily lottery, proved for every value of its constants:   *)
(* however the roster is cut into chunks, each round walks the tickets     *)
(* that remain once, and finds the one wallet that holds the drawn ticket. *)
(***************************************************************************)

(***************************************************************************)
(* Counting tickets: a set of wallets holds what its parts hold.           *)
(***************************************************************************)
LEMMA TicketsOfUnion ==
    ASSUME TypeOK, NEW S \in SUBSET Wallets, NEW T \in SUBSET Wallets, S \cap T = {}
    PROVE  TicketCount(S \cup T) = TicketCount(S) + TicketCount(T)
<1>1. IsFiniteSet(Tickets(S)) /\ IsFiniteSet(Tickets(T))  BY TicketsFinite
<1>2. Tickets(S \cup T) = Tickets(S) \cup Tickets(T)  BY DEF Tickets
<1>3. Tickets(S) \cap Tickets(T) = {}  BY DEF Tickets
<1>4. Cardinality(Tickets(S) \cup Tickets(T)) =
          Cardinality(Tickets(S)) + Cardinality(Tickets(T)) - Cardinality({})
  BY <1>1, <1>3, FS_Union
<1>5. /\ Cardinality({}) = 0
      /\ Cardinality(Tickets(S)) \in Nat /\ Cardinality(Tickets(T)) \in Nat
  BY <1>1, FS_EmptySet, FS_CardinalityType
<1> DEFINE a == Cardinality(Tickets(S))
           b == Cardinality(Tickets(T))
<1>6. Cardinality(Tickets(S \cup T)) = a + b - 0  BY <1>2, <1>4, <1>5
<1>7. a + b - 0 = a + b
  <2> HIDE DEF a, b
  <2>1. a \in Nat /\ b \in Nat  BY <1>5 DEF a, b
  <2> QED  BY <2>1
<1> QED  BY <1>6, <1>7 DEF TicketCount

LEMMA TicketsOfNone == TicketCount({}) = 0
<1>1. Tickets({}) = {}  BY DEF Tickets
<1> QED  BY <1>1, FS_EmptySet DEF TicketCount

LEMMA TicketsOfOne ==
    ASSUME TypeOK, NEW w \in Wallets
    PROVE  TicketCount({w}) = participant[w].tickets
<1> DEFINE k == participant[w].tickets
<1>1. k \in Nat /\ k <= MaxTickets /\ MaxTickets \in Nat
  BY LimitAssumption DEF TypeOK, ParticipantType
<1>2. Tickets({w}) = {w} \X (1..k)
  <2>1. Tickets({w}) = {t \in {w} \X (1..MaxTickets) : t[2] <= k}  BY DEF Tickets
  <2> HIDE DEF k
  <2> QED  BY <1>1, <2>1
<1> HIDE DEF k
<1>3. IsFiniteSet({w}) /\ Cardinality({w}) = 1  BY FS_Singleton
<1>4. IsFiniteSet(1..k) /\ Cardinality(1..k) = k
  <2>1. Cardinality(1..k) = IF 1 > k THEN 0 ELSE k - 1 + 1  BY <1>1, FS_Interval
  <2>2. IsFiniteSet(1..k)  BY <1>1, FS_Interval
  <2> QED  BY <1>1, <2>1, <2>2
<1>5. Cardinality({w} \X (1..k)) = Cardinality({w}) * Cardinality(1..k)
  BY <1>3, <1>4, FS_Product
<1>6. Cardinality({w} \X (1..k)) = 1 * k  BY <1>3, <1>4, <1>5
<1>7. 1 * k = k  BY <1>1
<1> QED  BY <1>2, <1>6, <1>7 DEF TicketCount, k

LEMMA TicketsMonotone ==
    ASSUME TypeOK, NEW T \in SUBSET Wallets, NEW S \in SUBSET T
    PROVE  TicketCount(S) <= TicketCount(T)
<1>1. IsFiniteSet(Tickets(T))  BY TicketsFinite
<1>2. Tickets(S) \in SUBSET Tickets(T)  BY DEF Tickets
<1> QED  BY <1>1, <1>2, FS_Subset DEF TicketCount

LEMMA TicketsUnchanged ==
    ASSUME \A w \in Wallets : participant'[w].tickets = participant[w].tickets,
           NEW S \in SUBSET Wallets
    PROVE  Tickets(S)' = Tickets(S) /\ TicketCount(S)' = TicketCount(S)
<1>1. Tickets(S)' = Tickets(S)  BY DEF Tickets
<1> QED  BY <1>1 DEF TicketCount

(***************************************************************************)
(* Stretches of the roster.  Nobody is listed twice.                       *)
(***************************************************************************)
RosterDistinct == \A i, j \in 1..Len(roster) : roster[i] = roster[j] => i = j

LEMMA ChunkMembers ==
    ASSUME TypeOK, NEW first \in Nat \ {0}, NEW last \in 0..Len(roster)
    PROVE  /\ Chunk(first, last) \in SUBSET Wallets
           /\ \A i \in first..last : i \in 1..Len(roster) /\ roster[i] \in Wallets
<1>1. /\ roster \in Seq(Wallets) /\ Len(roster) \in Nat
      /\ \A i \in 1..Len(roster) : roster[i] \in Wallets
  BY DEF TypeOK
<1>2. \A i \in first..last : i \in 1..Len(roster)  BY <1>1
<1> QED  BY <1>1, <1>2 DEF Chunk

LEMMA ChunkEmpty ==
    ASSUME NEW first \in Nat, NEW last \in Int, last < first
    PROVE  Chunk(first, last) = {}
BY DEF Chunk

LEMMA ChunkSplit ==
    ASSUME TypeOK, RosterDistinct, NEW first \in Nat \ {0}, NEW mid \in Nat,
           NEW last \in 0..Len(roster), first <= mid + 1, mid <= last
    PROVE  /\ Chunk(first, last) = Chunk(first, mid) \cup Chunk(mid + 1, last)
           /\ Chunk(first, mid) \cap Chunk(mid + 1, last) = {}
<1>1. Len(roster) \in Nat  BY DEF TypeOK
<1>2. first..last = (first..mid) \cup ((mid + 1)..last)  BY <1>1
<1>3. Chunk(first, last) = Chunk(first, mid) \cup Chunk(mid + 1, last)
  BY <1>2 DEF Chunk
<1>4. ASSUME NEW i \in first..mid, NEW j \in (mid + 1)..last
      PROVE  roster[i] # roster[j]
  <2>1. i \in 1..Len(roster) /\ j \in 1..Len(roster) /\ i # j  BY <1>1
  <2> QED  BY <2>1 DEF RosterDistinct
<1> QED  BY <1>3, <1>4 DEF Chunk

LEMMA ChunkLast ==
    ASSUME TypeOK, RosterDistinct, NEW first \in Nat \ {0}, NEW i \in first..Len(roster)
    PROVE  /\ Chunk(first, i) = Chunk(first, i - 1) \cup {roster[i]}
           /\ roster[i] \notin Chunk(first, i - 1)
           /\ roster[i] \in Wallets
<1>1. Len(roster) \in Nat /\ i \in Nat /\ i - 1 \in Nat /\ i \in 0..Len(roster)
  BY DEF TypeOK
<1>2. first <= (i - 1) + 1 /\ i - 1 <= i /\ (i - 1) + 1 = i  BY <1>1
<1>3. /\ Chunk(first, i) = Chunk(first, i - 1) \cup Chunk(i, i)
      /\ Chunk(first, i - 1) \cap Chunk(i, i) = {}
  BY <1>1, <1>2, ChunkSplit
<1>4. Chunk(i, i) = {roster[i]}
  <2>1. i..i = {i}  BY <1>1
  <2> QED  BY <2>1 DEF Chunk
<1>5. roster[i] \in Wallets  BY <1>1, ChunkMembers
<1> QED  BY <1>3, <1>4, <1>5

(***************************************************************************)
(* The search of one walk.  `seen` tickets lie before the stretch          *)
(* first .. last.  The wallets that hold the drawn ticket in it are at the *)
(* positions Hits, and there is one exactly if the ticket is not beyond    *)
(* the stretch: the first position whose tickets reach past the draw.      *)
(***************************************************************************)
LiveIn(first, last) == {w \in Chunk(first, last) : Live(w)}

Start(first, seen, i) == seen + TicketCount(LiveIn(first, i - 1))

Hits(first, last, seen, draw) ==
    {i \in first..last : /\ roster[i] \in LiveIn(first, last)
                         /\ Start(first, seen, i) <= draw
                         /\ draw < Start(first, seen, i) + participant[roster[i]].tickets}

LEMMA LiveInStep ==
    ASSUME TypeOK, RosterDistinct, NEW first \in Nat \ {0}, NEW i \in first..Len(roster)
    PROVE  TicketCount(LiveIn(first, i)) =
               TicketCount(LiveIn(first, i - 1))
                   + (IF Live(roster[i]) THEN participant[roster[i]].tickets ELSE 0)
<1>1. /\ Chunk(first, i) = Chunk(first, i - 1) \cup {roster[i]}
      /\ roster[i] \notin Chunk(first, i - 1)
      /\ roster[i] \in Wallets
  BY ChunkLast
<1>2. LiveIn(first, i - 1) \in SUBSET Wallets
  <2>1. i - 1 \in 0..Len(roster)  BY DEF TypeOK
  <2>2. Chunk(first, i - 1) \in SUBSET Wallets  BY <2>1, ChunkMembers
  <2> QED  BY <2>2 DEF LiveIn
<1>3. TicketCount(LiveIn(first, i - 1)) \in Nat  BY <1>2, TicketsFinite
<1>4. CASE Live(roster[i])
  <2>1. LiveIn(first, i) = LiveIn(first, i - 1) \cup {roster[i]}  BY <1>1, <1>4 DEF LiveIn
  <2>2. LiveIn(first, i - 1) \cap {roster[i]} = {}  BY <1>1 DEF LiveIn
  <2>3. TicketCount(LiveIn(first, i)) = TicketCount(LiveIn(first, i - 1)) + TicketCount({roster[i]})
    BY <1>1, <1>2, <2>1, <2>2, TicketsOfUnion
  <2>4. TicketCount({roster[i]}) = participant[roster[i]].tickets  BY <1>1, TicketsOfOne
  <2> QED  BY <1>4, <2>3, <2>4
<1>5. CASE ~Live(roster[i])
  <2>1. LiveIn(first, i) = LiveIn(first, i - 1)  BY <1>1, <1>5 DEF LiveIn
  <2> QED  BY <1>3, <1>5, <2>1
<1> QED  BY <1>4, <1>5

LEMMA SearchFinds ==
    ASSUME TypeOK, RosterDistinct, NEW first \in Nat \ {0}, NEW last \in first..Len(roster),
           NEW seen \in Nat, NEW draw \in Nat, seen <= draw
    PROVE  Hits(first, last, seen, draw) # {}
               <=> draw < seen + TicketCount(LiveIn(first, last))
<1>1. Len(roster) \in Nat /\ last \in Nat /\ last \in 0..Len(roster)  BY DEF TypeOK
<1>2. \A i \in (first - 1)..last :
          /\ LiveIn(first, i) \in SUBSET Wallets
          /\ TicketCount(LiveIn(first, i)) \in Nat
  <2> SUFFICES ASSUME NEW i \in (first - 1)..last
               PROVE  /\ LiveIn(first, i) \in SUBSET Wallets
                      /\ TicketCount(LiveIn(first, i)) \in Nat
    OBVIOUS
  <2>1. i \in 0..Len(roster)  BY <1>1
  <2>2. Chunk(first, i) \in SUBSET Wallets  BY <2>1, ChunkMembers
  <2>3. LiveIn(first, i) \in SUBSET Wallets  BY <2>2 DEF LiveIn
  <2> QED  BY <2>3, TicketsFinite
<1>3. \A i \in first..last :
          /\ roster[i] \in Wallets
          /\ participant[roster[i]].tickets \in Nat
          /\ TicketCount(LiveIn(first, i)) =
                 TicketCount(LiveIn(first, i - 1))
                     + (IF Live(roster[i]) THEN participant[roster[i]].tickets ELSE 0)
  <2> SUFFICES ASSUME NEW i \in first..last
               PROVE  /\ roster[i] \in Wallets
                      /\ participant[roster[i]].tickets \in Nat
                      /\ TicketCount(LiveIn(first, i)) =
                             TicketCount(LiveIn(first, i - 1))
                                 + (IF Live(roster[i]) THEN participant[roster[i]].tickets ELSE 0)
    OBVIOUS
  <2>1. i \in first..Len(roster)  BY <1>1
  <2>2. roster[i] \in Wallets  BY <2>1, ChunkLast
  <2>3. participant[roster[i]].tickets \in Nat
    BY <2>2, LimitAssumption DEF TypeOK, ParticipantType
  <2> QED  BY <2>1, <2>2, <2>3, LiveInStep
<1>4. ASSUME draw < seen + TicketCount(LiveIn(first, last))
      PROVE  Hits(first, last, seen, draw) # {}
  <2> DEFINE Past == {i \in first..last : draw < seen + TicketCount(LiveIn(first, i))}
  <2>1. last \in Past /\ Past \in SUBSET Nat  BY <1>1, <1>4
  <2>2. PICK i \in Past : \A j \in Past : i <= j  BY <2>1, LeastNatural
  <2>3. i \in first..last /\ draw < seen + TicketCount(LiveIn(first, i))  BY <2>2
  <2>4. Start(first, seen, i) <= draw
    <3>1. CASE i = first
      <4>1. Chunk(first, first - 1) = {}  BY ChunkEmpty
      <4>2. LiveIn(first, i - 1) = {}  BY <3>1, <4>1 DEF LiveIn
      <4>3. Start(first, seen, i) = seen + 0  BY <4>2, TicketsOfNone DEF Start
      <4> QED  BY <4>3
    <3>2. CASE i # first
      <4>1. i - 1 \in first..last /\ i - 1 < i  BY <1>1, <2>3, <3>2
      <4>2. i - 1 \notin Past  BY <2>2, <4>1
      <4>3. ~(draw < seen + TicketCount(LiveIn(first, i - 1)))  BY <4>1, <4>2
      <4>4. TicketCount(LiveIn(first, i - 1)) \in Nat  BY <1>1, <1>2, <4>1
      <4> QED  BY <4>3, <4>4 DEF Start
    <3> QED  BY <3>1, <3>2
  <2>5. TicketCount(LiveIn(first, i - 1)) \in Nat
    <3>1. i - 1 \in (first - 1)..last  BY <1>1, <2>3
    <3> QED  BY <1>2, <3>1
  <2>6. Live(roster[i])  BY <1>3, <2>3, <2>4, <2>5 DEF Start
  <2>7. draw < Start(first, seen, i) + participant[roster[i]].tickets
    BY <1>3, <2>3, <2>5, <2>6 DEF Start
  <2>8. roster[i] \in LiveIn(first, last)  BY <2>3, <2>6 DEF LiveIn, Chunk
  <2> QED  BY <2>3, <2>4, <2>7, <2>8 DEF Hits
<1>5. ASSUME NEW i \in Hits(first, last, seen, draw)
      PROVE  draw < seen + TicketCount(LiveIn(first, last))
  <2>1. /\ i \in first..last /\ roster[i] \in LiveIn(first, last)
        /\ draw < Start(first, seen, i) + participant[roster[i]].tickets
    BY DEF Hits
  <2>2. Live(roster[i])  BY <2>1 DEF LiveIn
  <2>3. draw < seen + TicketCount(LiveIn(first, i))
    <3>1. i - 1 \in (first - 1)..last  BY <1>1, <2>1
    <3>2. TicketCount(LiveIn(first, i - 1)) \in Nat  BY <1>2, <3>1
    <3> QED  BY <1>3, <2>1, <2>2, <3>2 DEF Start
  <2>4. TicketCount(LiveIn(first, i)) <= TicketCount(LiveIn(first, last))
    <3>1. LiveIn(first, i) \in SUBSET LiveIn(first, last)
      <4>1. first..i \subseteq first..last  BY <1>1, <2>1
      <4> QED  BY <4>1 DEF LiveIn, Chunk
    <3>2. last \in (first - 1)..last  BY <1>1
    <3> QED  BY <1>2, <3>1, <3>2, TicketsMonotone
  <2>5. i \in (first - 1)..last /\ last \in (first - 1)..last  BY <1>1, <2>1
  <2> QED  BY <1>2, <2>3, <2>4, <2>5
<1> QED  BY <1>4, <1>5

(***************************************************************************)
(* The roster lists once every wallet that ever bought, and no vote is     *)
(* cast without a ticket.                                                  *)
(***************************************************************************)
RosterInv ==
    /\ Len(roster) = lottery.participants_count
    /\ RosterDistinct
    /\ \A w \in Wallets : participant[w].open \/ participant[w].tickets # 0 =>
          w \in Chunk(1, Len(roster))
    /\ \A w \in Wallets : participant[w].attested => participant[w].tickets # 0
    /\ lottery.settlement_complete => lottery.settled
    /\ ~lottery.settled => \A w \in Chunk(1, Len(roster)) : participant[w].open

(***************************************************************************)
(* The record of the draw.  While aggregating, it counts the eligible      *)
(* wallets up to the cursor.  From then on it counts them all, and the     *)
(* page lists distinct ones among them.  While a round is under way, the   *)
(* walk has seen the tickets, without an earlier winner's, up to the       *)
(* cursor, and holds the wallet with the drawn ticket once it is passed.   *)
(***************************************************************************)
Counted(S) == {w \in S : participant[w].included}

Unwon(S) == {w \in S : participant[w].included /\ w \notin Winners}

AggregationInv ==
    /\ root.required = Len(roster)
    /\ root.processed \in 0..Len(roster)
    /\ root.eligible_count = Cardinality(Counted(Chunk(1, root.processed)))
    /\ root.eligible_tickets = TicketCount(Counted(Chunk(1, root.processed)))
    /\ root.selected_count = 0 /\ root.selected_tickets = 0

DrawnInv ==
    /\ root.eligible_count = Cardinality(Revealed)
    /\ root.eligible_tickets = TicketCount(Revealed)
    /\ Winners \in SUBSET Revealed
    /\ \A i, j \in DOMAIN page.entries : page.entries[i] = page.entries[j] => i = j
    /\ Len(page.entries) = root.selected_count
    /\ root.selected_tickets = TicketCount(Winners)

RoundInv ==
    /\ root.required = Len(roster)
    /\ root.round_processed \in 0..Len(roster)
    /\ root.round_seen = TicketCount(Unwon(Chunk(1, root.round_processed)))
    /\ root.draw < RemainingTickets(root)
    /\ root.pending # NoWallet <=> root.draw < root.round_seen
    /\ root.pending # NoWallet => root.pending \in Unwon(Chunk(1, root.round_processed))
    /\ {w \in Wallets : participant[w].selected} = Winners \cup ({root.pending} \ {NoWallet})

Undrawn == page.entries = << >> /\ \A w \in Wallets : ~participant[w].selected

DrawInv ==
    /\ root.phase \in {"none", "aggregating"} => Undrawn
    /\ root.phase = "aggregating" => AggregationInv
    /\ root.phase = "selecting" => DrawnInv /\ RoundInv
    /\ root.phase = "completed" =>
          DrawnInv /\ lottery.winners_count = Len(page.entries) /\ lottery.winners_count # 0

SelectionInv == FinalityInv /\ OutcomeInv /\ RosterInv /\ DrawInv

(***************************************************************************)
(* The roster.                                                             *)
(***************************************************************************)
LEMMA RosterUndisturbed ==
    ASSUME RosterInv,
           roster' = roster, lottery'.participants_count = lottery.participants_count,
           \A w \in Wallets :
               /\ participant'[w].tickets = participant[w].tickets
               /\ participant'[w].attested => participant[w].attested \/ participant[w].tickets # 0
               /\ participant'[w].open => participant[w].open
               /\ ~lottery'.settled => participant'[w].open = participant[w].open,
           Chunk(1, Len(roster)) \in SUBSET Wallets,
           lottery'.settlement_complete => lottery'.settled,
           lottery.settled => lottery'.settled
    PROVE  RosterInv'
<1>1. Chunk(1, Len(roster))' = Chunk(1, Len(roster))  BY DEF Chunk
<1>2. RosterDistinct'  BY DEF RosterInv, RosterDistinct
<1> QED  BY <1>1, <1>2 DEF RosterInv

LEMMA BuyTicketsRoster ==
    ASSUME TypeInv, RosterInv, NEW w \in Wallets, NEW n \in 1..MaxTickets, BuyTickets(w, n)
    PROVE  RosterInv'
<1>1. /\ lottery \in LotteryType /\ roster \in Seq(Wallets)
      /\ participant \in [Wallets -> ParticipantType]
      /\ Len(roster) \in Nat
  BY DEF TypeInv, TypeOK
<1>2. /\ lottery'.settled = lottery.settled
      /\ lottery'.settlement_complete = lottery.settlement_complete
      /\ lottery'.participants_count =
            IF participant[w].open THEN lottery.participants_count
            ELSE lottery.participants_count + 1
      /\ roster' = IF participant[w].open THEN roster ELSE Append(roster, w)
      /\ ~lottery.settled
  BY <1>1 DEF BuyTickets, LotteryType
<1>3. /\ participant'[w].open /\ participant'[w].attested = participant[w].attested
      /\ participant'[w].tickets # 0
  <2>1. /\ participant'[w].tickets = participant[w].tickets + n
        /\ participant'[w].open /\ participant'[w].attested = participant[w].attested
    BY <1>1 DEF BuyTickets, ParticipantType
  <2>2. participant[w].tickets \in Nat /\ n \in Nat \ {0}
    BY <1>1, LimitAssumption DEF ParticipantType
  <2> QED  BY <2>1, <2>2
<1>4. \A u \in Wallets : u # w => participant'[u] = participant[u]
  BY <1>1 DEF BuyTickets
<1>5. Chunk(1, Len(roster)) \in SUBSET Wallets
  <2>1. 1 \in Nat \ {0} /\ Len(roster) \in 0..Len(roster)  BY <1>1
  <2> QED  BY <2>1, ChunkMembers DEF TypeInv
<1>6. \A u \in Wallets : participant'[u].attested => participant'[u].tickets # 0
  BY <1>3, <1>4 DEF RosterInv
<1>7. CASE participant[w].open
  <2>1. roster' = roster  BY <1>2, <1>7
  <2>2. Chunk(1, Len(roster))' = Chunk(1, Len(roster))  BY <2>1 DEF Chunk
  <2>3. RosterDistinct'  BY <2>1 DEF RosterInv, RosterDistinct
  <2>4. \A u \in Wallets : participant'[u].open \/ participant'[u].tickets # 0 =>
            u \in Chunk(1, Len(roster))
    BY <1>4, <1>7 DEF RosterInv
  <2>5. \A u \in Chunk(1, Len(roster)) : participant'[u].open
    BY <1>2, <1>3, <1>4, <1>5 DEF RosterInv
  <2> QED  BY <1>2, <1>6, <1>7, <2>1, <2>2, <2>3, <2>4, <2>5 DEF RosterInv
<1>8. CASE ~participant[w].open
  <2> DEFINE last == Len(roster) + 1
  <2>1. /\ roster' = Append(roster, w) /\ Len(roster') = last
        /\ roster'[last] = w
        /\ \A i \in 1..Len(roster) : roster'[i] = roster[i]
    BY <1>1, <1>2, <1>8
  <2>2. w \notin Chunk(1, Len(roster))  BY <1>2, <1>8 DEF RosterInv
  <2>3. \A i \in 1..last : i = last \/ i \in 1..Len(roster)  BY <1>1
  <2>4. Chunk(1, Len(roster))' = Chunk(1, Len(roster)) \cup {w}
    <3>1. {roster'[i] : i \in 1..last} = {roster[i] : i \in 1..Len(roster)} \cup {w}
      <4>1. \A i \in 1..Len(roster) : i \in 1..last  BY <1>1
      <4>2. last \in 1..last  BY <1>1
      <4> QED  BY <2>1, <2>3, <4>1, <4>2
    <3> QED  BY <2>1, <3>1 DEF Chunk
  <2>5. RosterDistinct'
    <3>1. \A i \in 1..Len(roster) : roster[i] # w  BY <2>2 DEF Chunk
    <3>2. \A i, j \in 1..last : roster'[i] = roster'[j] => i = j
      BY <2>1, <2>3, <3>1 DEF RosterInv, RosterDistinct
    <3> QED  BY <2>1, <3>2 DEF RosterDistinct
  <2>6. \A u \in Wallets : participant'[u].open \/ participant'[u].tickets # 0 =>
            u \in Chunk(1, Len(roster))'
    BY <1>4, <2>4 DEF RosterInv
  <2>7. \A u \in Chunk(1, Len(roster))' : participant'[u].open
    BY <1>2, <1>3, <1>4, <1>5, <2>4 DEF RosterInv
  <2> QED  BY <1>2, <1>6, <1>8, <2>1, <2>5, <2>6, <2>7 DEF RosterInv
<1> QED  BY <1>7, <1>8

(***************************************************************************)
(* What every instruction but a purchase and a finalization chunk leaves   *)
(* alone.                                                                  *)
(***************************************************************************)
Quiet ==
    /\ roster' = roster /\ root' = root /\ page'.entries = page.entries
    /\ lottery'.participants_count = lottery.participants_count
    /\ lottery'.winners_count = lottery.winners_count
    /\ lottery'.total_payout = lottery.total_payout
    /\ lottery'.total_tickets = lottery.total_tickets
    /\ lottery'.total_funds = lottery.total_funds
    /\ \A w \in Wallets :
          /\ participant'[w].tickets = participant[w].tickets
          /\ participant'[w].selected = participant[w].selected

LEMMA QuietSteps ==
    ASSUME TypeInv, RosterInv, [Next]_vars
    PROVE  \/ \E w \in Wallets, n \in 1..MaxTickets : BuyTickets(w, n)
           \/ \E last \in 1..Len(roster), draw \in 0..MaxTickets : AggregateChunk(last, draw)
           \/ \E last \in 1..Len(roster), draw \in 0..MaxTickets : SelectChunk(last, draw)
           \/ Quiet /\ RosterInv'
<1>1. /\ lottery \in LotteryType /\ participant \in [Wallets -> ParticipantType]
      /\ page \in [entries: Seq(Wallets), paid: SUBSET Nat] /\ TypeOK
  BY DEF TypeInv, TypeOK
<1>2. Chunk(1, Len(roster)) \in SUBSET Wallets
  <2>1. 1 \in Nat \ {0} /\ Len(roster) \in 0..Len(roster)  BY <1>1 DEF TypeOK
  <2> QED  BY <1>1, <2>1, ChunkMembers
<1> DEFINE Calm ==
        /\ lottery'.settlement_complete => lottery'.settled
        /\ lottery.settled => lottery'.settled
        /\ \A w \in Wallets :
              /\ participant'[w].attested => participant[w].attested \/ participant[w].tickets # 0
              /\ participant'[w].open => participant[w].open
              /\ ~lottery'.settled => participant'[w].open = participant[w].open
<1>3. Quiet /\ Calm => Quiet /\ RosterInv'
  <2> SUFFICES ASSUME Quiet, Calm  PROVE RosterInv'
    OBVIOUS
  <2> QED  BY <1>2, RosterUndisturbed DEF Quiet
<1>4. lottery.settlement_complete => lottery.settled  BY DEF RosterInv
<1>5. CASE Tick \/ UNCHANGED vars \/ CloseRefundVault
  BY <1>3, <1>4, <1>5 DEF Tick, vars, CloseRefundVault, MayClose, Quiet
<1>6. ASSUME NEW w \in Wallets, NEW v \in 1..MaxWinnersCap, AttestUploaded(w, v)
      PROVE  Quiet /\ RosterInv'
  <2> DEFINE mine == Attested(participant[w], v)
  <2>1. participant' = [participant EXCEPT ![w] = mine]  BY <1>6 DEF AttestUploaded
  <2>2. /\ mine.tickets = participant[w].tickets /\ mine.selected = participant[w].selected
        /\ mine.open = participant[w].open
    BY <1>1 DEF Attested, ParticipantType
  <2>3. participant[w].tickets # 0
    BY <1>1, <1>6, LimitAssumption DEF AttestUploaded, MayAttest, ParticipantType
  <2>4. /\ lottery'.participants_count = lottery.participants_count
        /\ lottery'.winners_count = lottery.winners_count
        /\ lottery'.total_payout = lottery.total_payout
        /\ lottery'.total_tickets = lottery.total_tickets
        /\ lottery'.total_funds = lottery.total_funds
        /\ lottery'.settled = lottery.settled
        /\ lottery'.settlement_complete = lottery.settlement_complete
    BY <1>1, <1>6 DEF AttestUploaded, LotteryType
  <2>5. UNCHANGED <<roster, root, page>>  BY <1>6 DEF AttestUploaded
  <2> HIDE DEF mine
  <2> QED  BY <1>1, <1>3, <1>4, <2>1, <2>2, <2>3, <2>4, <2>5 DEF Quiet
<1>7. ASSUME NEW w \in Wallets, NEW v \in 1..MaxWinnersCap, AttestReveal(w, v)
      PROVE  Quiet /\ RosterInv'
  <2> DEFINE mine == [Attested(participant[w], v) EXCEPT !.included = TRUE]
  <2>1. participant' = [participant EXCEPT ![w] = mine]  BY <1>7 DEF AttestReveal
  <2>2. /\ mine.tickets = participant[w].tickets /\ mine.selected = participant[w].selected
        /\ mine.open = participant[w].open
    BY <1>1 DEF Attested, ParticipantType
  <2>3. participant[w].tickets # 0
    BY <1>1, <1>7, LimitAssumption DEF AttestReveal, MayAttest, ParticipantType
  <2>4. /\ lottery'.participants_count = lottery.participants_count
        /\ lottery'.winners_count = lottery.winners_count
        /\ lottery'.total_payout = lottery.total_payout
        /\ lottery'.total_tickets = lottery.total_tickets
        /\ lottery'.total_funds = lottery.total_funds
        /\ lottery'.settled = lottery.settled
        /\ lottery'.settlement_complete = lottery.settlement_complete
    BY <1>1, <1>7 DEF AttestReveal, LotteryType
  <2>5. UNCHANGED <<roster, root, page>>  BY <1>7 DEF AttestReveal
  <2> HIDE DEF mine
  <2> QED  BY <1>1, <1>3, <1>4, <2>1, <2>2, <2>3, <2>4, <2>5 DEF Quiet
<1>8. ASSUME NEW byAuthority \in BOOLEAN, NEW S \in SUBSET Wallets, UploadReveals(byAuthority, S)
      PROVE  Quiet /\ RosterInv'
  <2>1. \A u \in Wallets :
            /\ participant'[u].tickets = participant[u].tickets
            /\ participant'[u].selected = participant[u].selected
            /\ participant'[u].open = participant[u].open
            /\ participant'[u].attested = participant[u].attested
    BY <1>1, <1>8 DEF UploadReveals, ParticipantType
  <2>2. /\ lottery'.participants_count = lottery.participants_count
        /\ lottery'.winners_count = lottery.winners_count
        /\ lottery'.total_payout = lottery.total_payout
        /\ lottery'.total_tickets = lottery.total_tickets
        /\ lottery'.total_funds = lottery.total_funds
        /\ lottery'.settled = lottery.settled
        /\ lottery'.settlement_complete = lottery.settlement_complete
    BY <1>1, <1>8 DEF UploadReveals, BegunRemediation, LotteryType
  <2>3. UNCHANGED <<roster, root, page>>  BY <1>8 DEF UploadReveals
  <2> QED  BY <1>3, <1>4, <2>1, <2>2, <2>3 DEF Quiet
<1>9. CASE BeginRemediation
  BY <1>1, <1>3, <1>4, <1>9 DEF BeginRemediation, BegunRemediation, LotteryType, Quiet
<1>10. ASSUME NEW batch \in Batches, SettlePayoutBatch(batch)
       PROVE  Quiet /\ RosterInv'
  <2>1. /\ lottery'.participants_count = lottery.participants_count
        /\ lottery'.winners_count = lottery.winners_count
        /\ lottery'.total_payout = lottery.total_payout
        /\ lottery'.total_tickets = lottery.total_tickets
        /\ lottery'.total_funds = lottery.total_funds
        /\ lottery'.settled = (lottery.settled \/ lottery'.settlement_complete)
    BY <1>1, <1>10 DEF SettlePayoutBatch, MayPay, LotteryType
  <2>2. UNCHANGED <<roster, root, participant>> /\ page'.entries = page.entries
    BY <1>1, <1>10 DEF SettlePayoutBatch, MayPay
  <2> QED  BY <1>3, <2>1, <2>2 DEF Quiet
<1>11. CASE FinalizeNoAttesters
  BY <1>1, <1>3, <1>4, <1>11 DEF FinalizeNoAttesters, Cancellable, LotteryType, Quiet
<1>12. ASSUME NEW w \in Wallets, ClaimRefund(w)
       PROVE  Quiet /\ RosterInv'
  BY <1>1, <1>3, <1>4, <1>12 DEF ClaimRefund, MayClaim, LotteryType, ParticipantType, Quiet
<1>13. ASSUME NEW w \in Wallets, CloseParticipant(w)
       PROVE  Quiet /\ RosterInv'
  <2>1. lottery.settled  BY <1>4, <1>13 DEF CloseParticipant
  <2> QED  BY <1>1, <1>3, <1>4, <1>13, <2>1 DEF CloseParticipant, ParticipantType, Quiet
<1> QED
  BY <1>5, <1>6, <1>7, <1>8, <1>9, <1>10, <1>11, <1>12, <1>13 DEF Next

(***************************************************************************)
(* Instructions that leave the draw alone keep its record true: from the   *)
(* first chunk on, nothing it counts changes.                              *)
(***************************************************************************)
LEMMA DrawUndisturbed ==
    ASSUME TypeInv, DrawInv, Quiet, EligibilityKept
    PROVE  DrawInv'
<1>1. /\ roster' = roster /\ root' = root /\ page'.entries = page.entries
      /\ lottery'.winners_count = lottery.winners_count
      /\ \A w \in Wallets :
            /\ participant'[w].tickets = participant[w].tickets
            /\ participant'[w].selected = participant[w].selected
  BY DEF Quiet
<1>2. Undrawn => Undrawn'  BY <1>1 DEF Undrawn
<1>3. CASE root.phase = "none"  BY <1>1, <1>2, <1>3 DEF DrawInv
<1>4. CASE root.phase # "none"
  <2>1. \A w \in Wallets : participant'[w].included = participant[w].included
    BY <1>4 DEF EligibilityKept, Eligibility
  <2>2. Winners' = Winners /\ Revealed' = Revealed
    BY <1>1, <2>1 DEF Winners, Revealed
  <2>3. Winners \in SUBSET Wallets
    BY DEF Winners, TypeInv, TypeOK
  <2>4. \A S \in SUBSET Wallets : /\ TicketCount(S)' = TicketCount(S)
                                  /\ Counted(S)' = Counted(S) /\ Unwon(S)' = Unwon(S)
                                  /\ Counted(S) \in SUBSET Wallets
                                  /\ Unwon(S) \in SUBSET Wallets
    BY <1>1, <2>1, <2>2, TicketsUnchanged DEF Counted, Unwon
  <2>5. \A n \in 0..Len(roster) : /\ Chunk(1, n)' = Chunk(1, n)
                                  /\ Chunk(1, n) \in SUBSET Wallets
    BY <1>1, ChunkMembers DEF TypeInv, Chunk
  <2>6. AggregationInv => AggregationInv'
    <3> SUFFICES ASSUME AggregationInv  PROVE AggregationInv'
      OBVIOUS
    <3> DEFINE S == Chunk(1, root.processed)
    <3>1. S' = S /\ S \in SUBSET Wallets  BY <1>1, <2>5 DEF AggregationInv
    <3>2. Counted(S)' = Counted(S) /\ TicketCount(Counted(S))' = TicketCount(Counted(S))
      BY <2>4, <3>1
    <3> QED  BY <1>1, <3>2 DEF AggregationInv
  <2>7. DrawnInv => DrawnInv'
    <3>1. TicketCount(Revealed)' = TicketCount(Revealed)  BY <2>2, <2>4 DEF Revealed
    <3>2. TicketCount(Winners)' = TicketCount(Winners)  BY <2>2, <2>3, <2>4
    <3> QED  BY <1>1, <2>2, <3>1, <3>2 DEF DrawnInv
  <2>8. RoundInv => RoundInv'
    <3> SUFFICES ASSUME RoundInv  PROVE RoundInv'
      OBVIOUS
    <3> DEFINE S == Chunk(1, root.round_processed)
    <3>1. S' = S /\ S \in SUBSET Wallets  BY <1>1, <2>5 DEF RoundInv
    <3>2. Unwon(S)' = Unwon(S) /\ TicketCount(Unwon(S))' = TicketCount(Unwon(S))
      BY <2>4, <3>1
    <3>3. {w \in Wallets : participant[w].selected}' = {w \in Wallets : participant[w].selected}
      BY <1>1
    <3>4. RemainingTickets(root)' = RemainingTickets(root)  BY <1>1 DEF RemainingTickets
    <3> QED  BY <1>1, <2>2, <3>2, <3>3, <3>4 DEF RoundInv
  <2> QED  BY <1>1, <1>4, <2>6, <2>7, <2>8, <1>2 DEF DrawInv
<1> QED  BY <1>3, <1>4

LEMMA BuyTicketsDraw ==
    ASSUME FinalityInv, DrawInv, NEW w \in Wallets, NEW n \in 1..MaxTickets, BuyTickets(w, n)
    PROVE  root.phase = "none" /\ DrawInv'
<1>1. /\ participant \in [Wallets -> ParticipantType] /\ now \in Int
  BY ScheduleAssumption DEF FinalityInv, TypeInv, TypeOK
<1>2. root.phase = "none"
  <2>1. now < UploadStart  BY DEF BuyTickets, InBuyWindow
  <2>2. UploadStart \in Int  BY ScheduleOrdered
  <2> QED  BY <1>1, <2>1, <2>2 DEF FinalityInv, PhaseInv
<1>3. UNCHANGED <<root, page>>  BY DEF BuyTickets
<1>4. \A u \in Wallets : participant'[u].selected = participant[u].selected
  BY <1>1 DEF BuyTickets, ParticipantType
<1> QED  BY <1>2, <1>3, <1>4 DEF DrawInv, Undrawn

(***************************************************************************)
(* A chunk of the aggregation.                                             *)
(***************************************************************************)
LEMMA CountedSplit ==
    ASSUME TypeOK, RosterDistinct, NEW mid \in Nat, NEW last \in 0..Len(roster), mid <= last
    PROVE  LET before == Counted(Chunk(1, mid))
               chunk  == Counted(Chunk(mid + 1, last))
               upto   == Counted(Chunk(1, last))
           IN  /\ Cardinality(upto) = Cardinality(before) + Cardinality(chunk)
               /\ TicketCount(upto) = TicketCount(before) + TicketCount(chunk)
               /\ Cardinality(upto) \in Nat /\ TicketCount(upto) \in Nat
<1> DEFINE before == Counted(Chunk(1, mid))
           chunk  == Counted(Chunk(mid + 1, last))
           upto   == Counted(Chunk(1, last))
<1>1. /\ Chunk(1, last) = Chunk(1, mid) \cup Chunk(mid + 1, last)
      /\ Chunk(1, mid) \cap Chunk(mid + 1, last) = {}
  BY ChunkSplit
<1>2. Chunk(1, last) \in SUBSET Wallets  BY ChunkMembers
<1>3. upto = before \cup chunk /\ before \cap chunk = {}  BY <1>1 DEF Counted
<1>4. /\ before \in SUBSET Wallets /\ chunk \in SUBSET Wallets /\ upto \in SUBSET Wallets
  BY <1>1, <1>2 DEF Counted
<1> HIDE DEF before, chunk, upto
<1>5. TicketCount(upto) = TicketCount(before) + TicketCount(chunk)
  BY <1>3, <1>4, TicketsOfUnion
<1>6. /\ IsFiniteSet(before) /\ IsFiniteSet(chunk)
      /\ Cardinality(before) \in Nat /\ Cardinality(chunk) \in Nat
      /\ Cardinality(upto) \in Nat
  BY <1>4, WalletsAssumption, FS_Subset, FS_CardinalityType
<1>7. Cardinality(upto) = Cardinality(before) + Cardinality(chunk)
  <2>1. Cardinality(before \cup chunk) =
            Cardinality(before) + Cardinality(chunk) - Cardinality(before \cap chunk)
    BY <1>6, FS_Union
  <2>2. Cardinality(before \cap chunk) = 0  BY <1>3, FS_EmptySet
  <2> QED  BY <1>3, <1>6, <2>1, <2>2
<1>8. TicketCount(upto) \in Nat  BY <1>4, TicketsFinite
<1> QED  BY <1>5, <1>6, <1>7, <1>8 DEF before, chunk, upto

(***************************************************************************)
(* What AggregateChunk computes, read off the record it starts from.       *)
(***************************************************************************)
AggregatedTo(last) ==
    /\ LoadRoot \in RootType
    /\ LoadRoot.phase = "aggregating" /\ LoadRoot.required = Len(roster)
    /\ LoadRoot.selected_count = 0 /\ LoadRoot.selected_tickets = 0
    /\ LoadRoot.processed \in 0..Len(roster)
    /\ LoadRoot.eligible_count = Cardinality(Counted(Chunk(1, LoadRoot.processed)))
    /\ LoadRoot.eligible_tickets = TicketCount(Counted(Chunk(1, LoadRoot.processed)))
    /\ last \in (LoadRoot.processed + 1)..Len(roster)

LEMMA LoadRootState ==
    ASSUME TypeInv, RosterInv, DrawInv, NEW last \in 1..Len(roster), NEW draw \in 0..MaxTickets,
           AggregateChunk(last, draw)
    PROVE  AggregatedTo(last) /\ Undrawn
<1>1. /\ LoadRoot.phase = "aggregating" /\ LoadRoot.required = lottery.participants_count
      /\ last \in (LoadRoot.processed + 1)..LoadRoot.required
  BY DEF AggregateChunk
<1>2. /\ root \in RootType /\ lottery.participants_count \in Nat /\ Len(roster) \in Nat
      /\ lottery.participants_count = Len(roster)
  BY LimitAssumption DEF TypeInv, TypeOK, LotteryType, RosterInv
<1>3. CASE root.phase = "none"
  <2>1. LoadRoot = [NoRoot EXCEPT !.phase = "aggregating",
                                  !.required = lottery.participants_count]
    BY <1>3 DEF LoadRoot
  <2>2. /\ LoadRoot \in RootType
        /\ LoadRoot.selected_count = 0 /\ LoadRoot.selected_tickets = 0
        /\ LoadRoot.processed = 0 /\ LoadRoot.eligible_count = 0
        /\ LoadRoot.eligible_tickets = 0
    BY <1>2, <2>1 DEF NoRoot, RootType
  <2>3. Counted(Chunk(1, 0)) = {}
    <3>1. Chunk(1, 0) = {}  BY DEF Chunk
    <3> QED  BY <3>1 DEF Counted
  <2>4. Cardinality(Counted(Chunk(1, 0))) = 0 /\ TicketCount(Counted(Chunk(1, 0))) = 0
    BY <2>3, FS_EmptySet, TicketsOfNone
  <2> QED  BY <1>1, <1>2, <1>3, <2>2, <2>4 DEF AggregatedTo, DrawInv
<1>4. CASE root.phase # "none"
  <2>1. LoadRoot = root  BY <1>4 DEF LoadRoot
  <2> QED  BY <1>1, <1>2, <2>1 DEF AggregatedTo, DrawInv, AggregationInv
<1> QED  BY <1>3, <1>4

LEMMA AllCounted ==
    ASSUME TypeOK, CountersInv, RosterInv
    PROVE  Counted(Chunk(1, Len(roster))) = Revealed
<1>1. Chunk(1, Len(roster)) \in SUBSET Wallets
  <2>1. 1 \in Nat \ {0} /\ Len(roster) \in 0..Len(roster)  BY DEF TypeOK
  <2> QED  BY <2>1, ChunkMembers
<1>2. ASSUME NEW w \in Wallets, participant[w].included
      PROVE  w \in Chunk(1, Len(roster))
  <2>1. participant[w].attested  BY <1>2 DEF CountersInv, Voted, Revealed
  <2> QED  BY <2>1 DEF RosterInv
<1> QED  BY <1>1, <1>2 DEF Counted, Revealed

LEMMA AggregateChunkDraw ==
    ASSUME FinalityInv, TypeInv', RosterInv, DrawInv,
           NEW last \in 1..Len(roster), NEW draw \in 0..MaxTickets, AggregateChunk(last, draw)
    PROVE  RosterInv' /\ DrawInv'
<1> DEFINE r        == LoadRoot
           chunk    == Chunk(r.processed + 1, last)
           eligible == Counted(chunk)
           count    == r.eligible_count + Cardinality(eligible)
           held     == r.eligible_tickets + TicketCount(eligible)
           counted  == [r EXCEPT !.processed = last, !.eligible_count = count,
                                 !.eligible_tickets = held]
           target   == Min({Max({lottery.selected_number_of_winners, 1}),
                            EffectiveMaxWinners, counted.eligible_count})
           begun    == BeginSelectionRound([counted EXCEPT !.target = target], draw)
           upto     == Counted(Chunk(1, last))
<1>1. TypeInv /\ TypeOK /\ CountersInv /\ RosterDistinct
  BY DEF FinalityInv, TypeInv, RosterInv
<1>2. AggregatedTo(last) /\ Undrawn  BY <1>1, LoadRootState
<1>3. /\ lottery \in LotteryType /\ participant \in [Wallets -> ParticipantType]
      /\ Len(roster) \in Nat /\ draw \in Nat /\ roster \in Seq(Wallets)
  BY <1>1, LimitAssumption DEF TypeOK
<1>4. /\ \/ root' = counted /\ lottery' = lottery
         \/ /\ last = Len(roster) /\ draw < RemainingTickets(counted)
            /\ root' = begun
            /\ lottery' = [lottery EXCEPT !.selected_number_of_winners = target]
      /\ participant' = [w \in Wallets |->
            IF w \in chunk THEN [participant[w] EXCEPT !.finalized = TRUE] ELSE participant[w]]
      /\ UNCHANGED <<now, roster, tally, page, vault, received, treasury>>
  <2>1. r.required = Len(roster)  BY <1>2 DEF AggregatedTo
  <2>2. eligible = {w \in chunk : participant[w].included}  BY DEF Counted
  <2> HIDE DEF eligible
  <2>3. r \in RootType  BY <1>2 DEF AggregatedTo
  <2> QED  BY <2>1, <2>2, <2>3 DEF AggregateChunk, RootType
<1>5. /\ \A w \in Wallets : /\ participant'[w].tickets = participant[w].tickets
                            /\ participant'[w].included = participant[w].included
                            /\ participant'[w].selected = participant[w].selected
                            /\ participant'[w].attested = participant[w].attested
                            /\ participant'[w].open = participant[w].open
      /\ lottery'.participants_count = lottery.participants_count
      /\ lottery'.settled = lottery.settled
      /\ lottery'.settlement_complete = lottery.settlement_complete
  <2> HIDE DEF chunk, begun, counted, target
  <2>1. \A w \in Wallets :
            participant'[w] \in {participant[w], [participant[w] EXCEPT !.finalized = TRUE]}
    BY <1>4
  <2>2. \A w \in Wallets : participant[w] \in ParticipantType  BY <1>3
  <2>3. lottery' \in {lottery, [lottery EXCEPT !.selected_number_of_winners = target]}
    BY <1>4
  <2>4. /\ lottery'.participants_count = lottery.participants_count
        /\ lottery'.settled = lottery.settled
        /\ lottery'.settlement_complete = lottery.settlement_complete
    BY <1>3, <2>3 DEF LotteryType
  <2> QED  BY <2>1, <2>2, <2>4 DEF ParticipantType
<1>6. /\ r.processed \in Nat /\ r.processed <= last /\ last \in 0..Len(roster)
      /\ r.processed + 1 \in Nat \ {0} /\ last \in Nat
  BY <1>2, <1>3 DEF AggregatedTo
<1>7. /\ count = Cardinality(upto) /\ held = TicketCount(upto)
      /\ count \in Nat /\ held \in Nat
  <2>1. /\ Cardinality(upto) = Cardinality(Counted(Chunk(1, r.processed))) + Cardinality(eligible)
        /\ TicketCount(upto) = TicketCount(Counted(Chunk(1, r.processed))) + TicketCount(eligible)
        /\ Cardinality(upto) \in Nat /\ TicketCount(upto) \in Nat
    BY <1>1, <1>6, CountedSplit
  <2>2. /\ r.eligible_count = Cardinality(Counted(Chunk(1, r.processed)))
        /\ r.eligible_tickets = TicketCount(Counted(Chunk(1, r.processed)))
    BY <1>2 DEF AggregatedTo
  <2> QED  BY <2>1, <2>2
<1>8. Chunk(1, last) \in SUBSET Wallets /\ upto \in SUBSET Wallets
  BY <1>1, <1>6, ChunkMembers DEF Counted
<1>9. upto' = upto /\ Revealed' = Revealed
  BY <1>4, <1>5, <1>8 DEF Counted, Chunk, Revealed
<1>10. /\ counted \in RootType /\ counted.phase = "aggregating"
       /\ counted.required = Len(roster) /\ counted.processed = last
       /\ counted.eligible_count = count /\ counted.eligible_tickets = held
       /\ counted.selected_count = 0 /\ counted.selected_tickets = 0
  <2> HIDE DEF count, held, r
  <2> QED  BY <1>2, <1>6, <1>7 DEF AggregatedTo, RootType, r
<1>11. RosterInv'
  <2>1. Chunk(1, Len(roster)) \in SUBSET Wallets
    <3>1. 1 \in Nat \ {0} /\ Len(roster) \in 0..Len(roster)  BY <1>3
    <3> QED  BY <1>1, <3>1, ChunkMembers
  <2>2. lottery.settlement_complete => lottery.settled  BY DEF RosterInv
  <2>3. roster' = roster  BY <1>4
  <2> QED  BY <1>5, <2>1, <2>2, <2>3, RosterUndisturbed
<1>12. Undrawn'  BY <1>2, <1>4, <1>5 DEF Undrawn
<1> HIDE DEF r, chunk, count, held, counted, target, upto
<1>13. CASE root' = counted
  <2>2. TicketCount(upto)' = TicketCount(upto)  BY <1>5, <1>8, <1>9, TicketsUnchanged
  <2>3. root'.phase = "aggregating"  BY <1>10, <1>13
  <2>4. AggregationInv'
    <3>1. Counted(Chunk(1, root.processed))' = upto'  BY <1>10, <1>13 DEF upto
    <3>2. TicketCount(Counted(Chunk(1, root.processed)))' = TicketCount(upto)'
      BY <1>10, <1>13 DEF upto
    <3>3. /\ root'.required = Len(roster') /\ root'.processed \in 0..Len(roster')
          /\ root'.selected_count = 0 /\ root'.selected_tickets = 0
          /\ root'.eligible_count = Cardinality(upto')
          /\ root'.eligible_tickets = TicketCount(upto)'
      BY <1>4, <1>6, <1>7, <1>9, <1>10, <1>13, <2>2
    <3> QED  BY <3>1, <3>2, <3>3 DEF AggregationInv
  <2> QED  BY <1>11, <1>12, <2>3, <2>4 DEF DrawInv
<1>14. CASE root' = begun /\ last = Len(roster) /\ draw < RemainingTickets(counted)
  <2>1. /\ root'.phase = "selecting" /\ root'.required = Len(roster)
        /\ root'.eligible_count = count /\ root'.eligible_tickets = held
        /\ root'.selected_count = 0 /\ root'.selected_tickets = 0
        /\ root'.round_processed = 0 /\ root'.round_seen = 0
        /\ root'.draw = draw /\ root'.pending = NoWallet
    BY <1>10, <1>14 DEF BeginSelectionRound, RootType
  <2>2. upto = Revealed  BY <1>1, <1>14, AllCounted DEF upto
  <2>3. TicketCount(Revealed)' = TicketCount(Revealed)
    <3>1. Revealed \in SUBSET Wallets  BY DEF Revealed
    <3> QED  BY <1>5, <1>9, <3>1, TicketsUnchanged
  <2>4. Winners' = {} /\ page'.entries = << >>  BY <1>12 DEF Undrawn, Winners
  <2>5. TicketCount({})' = 0 /\ TicketCount(Winners)' = 0
    BY <2>4, TicketsOfNone, FS_EmptySet DEF TicketCount, Tickets
  <2>6. DrawnInv'
    BY <1>7, <1>9, <2>1, <2>2, <2>3, <2>4, <2>5 DEF DrawnInv
  <2>7. Unwon(Chunk(1, root.round_processed))' = {}
    BY <2>1 DEF Unwon, Chunk
  <2>8. TicketCount(Unwon(Chunk(1, root.round_processed)))' = 0
    BY <2>7, FS_EmptySet DEF TicketCount, Tickets
  <2>9. root'.draw < RemainingTickets(root)'
    <3>1. RemainingTickets(root)' = RemainingTickets(counted)
      BY <1>10, <2>1 DEF RemainingTickets
    <3> QED  BY <1>14, <2>1, <3>1
  <2>10. {w \in Wallets : participant[w].selected}' = {}  BY <1>12 DEF Undrawn
  <2>11. RoundInv'
    <3>1. root'.required = Len(roster') /\ root'.round_processed \in 0..Len(roster')
      BY <1>3, <1>4, <2>1
    <3>2. ~(root'.draw < root'.round_seen)  BY <1>3, <2>1
    <3> QED  BY <2>1, <2>4, <2>8, <2>9, <2>10, <3>1, <3>2 DEF RoundInv
  <2> QED  BY <1>11, <2>1, <2>6, <2>11 DEF DrawInv
<1> QED  BY <1>4, <1>13, <1>14

(***************************************************************************)
(* A chunk of a selection round.                                           *)
(***************************************************************************)
LEMMA UnwonSplit ==
    ASSUME TypeOK, RosterDistinct, NEW mid \in Nat, NEW last \in 0..Len(roster), mid <= last
    PROVE  /\ TicketCount(Unwon(Chunk(1, last))) =
                  TicketCount(Unwon(Chunk(1, mid))) + TicketCount(Unwon(Chunk(mid + 1, last)))
           /\ Unwon(Chunk(1, last)) = Unwon(Chunk(1, mid)) \cup Unwon(Chunk(mid + 1, last))
           /\ Unwon(Chunk(1, last)) \in SUBSET Wallets
           /\ TicketCount(Unwon(Chunk(1, mid))) \in Nat
           /\ TicketCount(Unwon(Chunk(mid + 1, last))) \in Nat
<1> DEFINE before == Unwon(Chunk(1, mid))
           chunk  == Unwon(Chunk(mid + 1, last))
           upto   == Unwon(Chunk(1, last))
<1>1. /\ Chunk(1, last) = Chunk(1, mid) \cup Chunk(mid + 1, last)
      /\ Chunk(1, mid) \cap Chunk(mid + 1, last) = {}
  BY ChunkSplit
<1>2. Chunk(1, last) \in SUBSET Wallets  BY ChunkMembers
<1>3. upto = before \cup chunk /\ before \cap chunk = {}  BY <1>1 DEF Unwon
<1>4. /\ before \in SUBSET Wallets /\ chunk \in SUBSET Wallets /\ upto \in SUBSET Wallets
  BY <1>1, <1>2 DEF Unwon
<1> HIDE DEF before, chunk, upto
<1>5. TicketCount(upto) = TicketCount(before) + TicketCount(chunk)
  BY <1>3, <1>4, TicketsOfUnion
<1>6. TicketCount(before) \in Nat /\ TicketCount(chunk) \in Nat  BY <1>4, TicketsFinite
<1> QED  BY <1>3, <1>4, <1>5, <1>6 DEF before, chunk, upto

LEMMA WalkChunkDraw ==
    ASSUME TypeOK, RosterInv, DrawnInv, RoundInv,
           NEW last \in (root.round_processed + 1)..Len(roster)
    PROVE  LET walked == WalkChunk(last)
           IN  /\ walked = [root EXCEPT !.round_processed = last,
                                        !.round_seen = walked.round_seen,
                                        !.pending = walked.pending]
               /\ walked.round_seen = TicketCount(Unwon(Chunk(1, last)))
               /\ walked.round_seen \in Nat /\ walked.pending \in Wallets \cup {NoWallet}
               /\ walked.pending # NoWallet <=> root.draw < walked.round_seen
               /\ walked.pending # NoWallet => walked.pending \in Unwon(Chunk(1, last))
               /\ root.pending # NoWallet => walked.pending = root.pending
<1> DEFINE first   == root.round_processed + 1
           hits    == Hits(first, last, root.round_seen, root.draw)
           found   == root.pending = NoWallet /\ hits # {}
           hit     == roster[CHOOSE i \in hits : TRUE]
           pending == IF found THEN hit ELSE root.pending
           seen    == root.round_seen + TicketCount(LiveIn(first, last))
           here    == Unwon(Chunk(first, last))
           upto    == Unwon(Chunk(1, last))
<1>1. /\ root \in RootType /\ Len(roster) \in Nat /\ RosterDistinct
      /\ root.round_processed \in Nat /\ root.round_seen \in Nat /\ root.draw \in Nat
      /\ root.pending \in Wallets \cup {NoWallet}
  BY DEF TypeOK, RootType, RosterInv
<1>2. /\ first \in Nat \ {0} /\ last \in first..Len(roster) /\ last \in 0..Len(roster)
      /\ root.round_processed \in 0..Len(roster) /\ root.round_processed <= last
      /\ first <= root.round_processed + 1
  BY <1>1
<1>3. WalkChunk(last) = [root EXCEPT !.round_processed = last, !.round_seen = seen,
                                     !.pending = pending]
  BY <1>1 DEF WalkChunk, Hits, Start, LiveIn, RootType
<1>4. LiveIn(first, last) = here
  <2>1. /\ Chunk(1, last) = Chunk(1, root.round_processed) \cup Chunk(first, last)
        /\ Chunk(1, root.round_processed) \cap Chunk(first, last) = {}
    BY <1>1, <1>2, ChunkSplit
  <2>2. Chunk(first, last) \in SUBSET Wallets  BY <1>2, ChunkMembers
  <2>3. \A w \in Chunk(first, last) :
            participant[w].selected <=> w \in Winners \cup ({root.pending} \ {NoWallet})
    BY <2>2 DEF RoundInv
  <2>4. root.pending # NoWallet => root.pending \notin Chunk(first, last)
    BY <2>1 DEF RoundInv, Unwon
  <2> QED  BY <2>3, <2>4 DEF LiveIn, Live, Unwon
<1>5. /\ TicketCount(upto) = root.round_seen + TicketCount(here)
      /\ upto = Unwon(Chunk(1, root.round_processed)) \cup here
      /\ upto \in SUBSET Wallets
      /\ TicketCount(here) \in Nat
  <2> DEFINE mid == root.round_processed
  <2>1. mid \in Nat /\ mid <= last  BY <1>1, <1>2
  <2> HIDE DEF mid
  <2>2. /\ TicketCount(Unwon(Chunk(1, last))) =
               TicketCount(Unwon(Chunk(1, mid))) + TicketCount(Unwon(Chunk(mid + 1, last)))
        /\ Unwon(Chunk(1, last)) = Unwon(Chunk(1, mid)) \cup Unwon(Chunk(mid + 1, last))
        /\ Unwon(Chunk(1, last)) \in SUBSET Wallets
        /\ TicketCount(Unwon(Chunk(mid + 1, last))) \in Nat
    BY <1>1, <1>2, <2>1, UnwonSplit
  <2>3. root.round_seen = TicketCount(Unwon(Chunk(1, mid)))  BY DEF RoundInv, mid
  <2> QED  BY <2>2, <2>3 DEF mid
<1>6. /\ \A i \in hits : roster[i] \in here
      /\ hits # {} => hit \in here
  <2>1. \A i \in hits : roster[i] \in here  BY <1>4 DEF Hits
  <2> HIDE DEF hits, here
  <2> QED  BY <2>1
<1>7. root.round_seen <= root.draw => (hits # {} <=> root.draw < seen)
  BY <1>1, <1>2, SearchFinds DEF TypeOK
<1>8. NoWallet \notin Wallets  BY WalletsAssumption
<1> HIDE DEF hits, hit, here, upto
<1>9. seen = TicketCount(upto) /\ seen \in Nat  BY <1>1, <1>4, <1>5
<1>10. pending # NoWallet <=> root.draw < seen
  <2>1. CASE root.pending # NoWallet
    <3>1. root.draw < root.round_seen  BY <2>1 DEF RoundInv
    <3>2. root.draw < seen  BY <1>1, <1>4, <1>5, <3>1
    <3> QED  BY <2>1, <3>2
  <2>2. CASE root.pending = NoWallet
    <3>1. root.round_seen <= root.draw  BY <1>1, <2>2 DEF RoundInv
    <3>2. hits # {} => hit # NoWallet  BY <1>5, <1>6, <1>8
    <3> QED  BY <1>7, <2>2, <3>1, <3>2
  <2> QED  BY <2>1, <2>2
<1>11. pending # NoWallet => pending \in upto
  BY <1>5, <1>6 DEF RoundInv
<1>12. root.pending # NoWallet => pending = root.pending  OBVIOUS
<1>13. /\ WalkChunk(last).round_seen = seen /\ WalkChunk(last).pending = pending
  <2> HIDE DEF seen, pending
  <2> QED  BY <1>1, <1>3 DEF RootType
<1>14. pending \in Wallets \cup {NoWallet}  BY <1>5, <1>11
<1> HIDE DEF seen, pending
<1> QED  BY <1>3, <1>9, <1>10, <1>11, <1>12, <1>13, <1>14 DEF upto

LEMMA SelectChunkDraw ==
    ASSUME FinalityInv, RosterInv, DrawInv,
           NEW last \in 1..Len(roster), NEW draw \in 0..MaxTickets, SelectChunk(last, draw)
    PROVE  RosterInv' /\ DrawInv'
<1> DEFINE walked   == WalkChunk(last)
           recorded == RecordWinner(walked)
           marked   == IF walked.pending = root.pending THEN {} ELSE {walked.pending}
           upto     == Unwon(Chunk(1, last))
<1>1. TypeInv /\ TypeOK /\ CountersInv /\ RosterDistinct
  BY DEF FinalityInv, TypeInv, RosterInv
<1>2. /\ lottery \in LotteryType /\ participant \in [Wallets -> ParticipantType]
      /\ root \in RootType /\ page \in [entries: Seq(Wallets), paid: SUBSET Nat]
      /\ Len(roster) \in Nat /\ draw \in Nat /\ last \in Nat
      /\ page.entries \in Seq(Wallets)
  BY <1>1, LimitAssumption DEF TypeOK
<1>3. /\ root.phase = "selecting" /\ DrawnInv /\ RoundInv
      /\ last \in (root.round_processed + 1)..Len(roster)
      /\ root.round_processed \in Nat
  BY <1>2 DEF SelectChunk, DrawInv, RoundInv
<1>4. /\ walked = [root EXCEPT !.round_processed = last, !.round_seen = walked.round_seen,
                               !.pending = walked.pending]
      /\ walked.round_seen = TicketCount(upto)
      /\ walked.round_seen \in Nat /\ walked.pending \in Wallets \cup {NoWallet}
      /\ walked.pending # NoWallet <=> root.draw < walked.round_seen
      /\ walked.pending # NoWallet => walked.pending \in upto
      /\ root.pending # NoWallet => walked.pending = root.pending
  BY <1>1, <1>3, WalkChunkDraw
<1>5. /\ \/ /\ last < Len(roster) /\ root' = walked
            /\ UNCHANGED <<lottery, page>>
         \/ /\ last = Len(roster)
            /\ walked.round_seen = RemainingTickets(walked)
            /\ walked.pending # NoWallet
            /\ page' = [page EXCEPT !.entries = Append(page.entries, walked.pending)]
            /\ \/ /\ draw < RemainingTickets(recorded)
                  /\ root' = BeginSelectionRound(recorded, draw)
                  /\ lottery' = lottery
               \/ /\ root' = [recorded EXCEPT !.phase = "completed"]
                  /\ lottery' = Vested(lottery, recorded.selected_count)
      /\ participant' = [w \in Wallets |->
            IF w \in marked THEN [participant[w] EXCEPT !.selected = TRUE] ELSE participant[w]]
      /\ roster' = roster
  BY <1>3 DEF SelectChunk, RoundInv
<1> HIDE DEF walked
<1>6. /\ walked \in RootType /\ walked.phase = "selecting"
      /\ walked.required = Len(roster) /\ walked.round_processed = last
      /\ walked.eligible_count = root.eligible_count
      /\ walked.eligible_tickets = root.eligible_tickets
      /\ walked.selected_count = root.selected_count
      /\ walked.selected_tickets = root.selected_tickets
      /\ walked.draw = root.draw
  <2> DEFINE seen == walked.round_seen
             pend == walked.pending
  <2>1. /\ walked = [root EXCEPT !.round_processed = last, !.round_seen = seen,
                                 !.pending = pend]
        /\ seen \in Nat /\ pend \in Wallets \cup {NoWallet}
    BY <1>4
  <2> HIDE DEF seen, pend
  <2> QED  BY <1>2, <1>3, <2>1 DEF RootType, RoundInv
<1>7. \A w \in Wallets : /\ participant'[w].tickets = participant[w].tickets
                         /\ participant'[w].included = participant[w].included
                         /\ participant'[w].attested = participant[w].attested
                         /\ participant'[w].open = participant[w].open
                         /\ participant'[w].selected = (participant[w].selected \/ w \in marked)
  <2>1. \A w \in Wallets :
            /\ w \in marked => participant'[w] = [participant[w] EXCEPT !.selected = TRUE]
            /\ w \notin marked => participant'[w] = participant[w]
    BY <1>5
  <2>2. \A w \in Wallets : participant[w] \in ParticipantType  BY <1>2
  <2> HIDE DEF marked
  <2> QED  BY <2>1, <2>2 DEF ParticipantType
<1>8. {w \in Wallets : participant[w].selected}' =
          Winners \cup ({walked.pending} \ {NoWallet})
  <2>1. {w \in Wallets : participant[w].selected} = Winners \cup ({root.pending} \ {NoWallet})
    BY <1>3 DEF RoundInv
  <2>2. {w \in Wallets : participant[w].selected}' =
            {w \in Wallets : participant[w].selected} \cup (marked \ {NoWallet})
    <3>1. marked \ {NoWallet} \in SUBSET Wallets  BY <1>4
    <3>2. NoWallet \notin Wallets  BY WalletsAssumption
    <3> HIDE DEF marked
    <3> QED  BY <1>7, <3>1, <3>2
  <2> QED  BY <1>4, <2>1, <2>2
<1>9. /\ lottery'.participants_count = lottery.participants_count
      /\ lottery'.settled = lottery.settled
      /\ lottery'.settlement_complete = lottery.settlement_complete
  <2>1. lottery' = lottery \/ lottery' = Vested(lottery, recorded.selected_count)  BY <1>5
  <2> HIDE DEF recorded
  <2> QED  BY <1>2, <2>1 DEF Vested, LotteryType
<1>10. RosterInv'
  <2>1. Chunk(1, Len(roster)) \in SUBSET Wallets
    <3>1. 1 \in Nat \ {0} /\ Len(roster) \in 0..Len(roster)  BY <1>2
    <3> QED  BY <1>1, <3>1, ChunkMembers
  <2>2. lottery.settlement_complete => lottery.settled  BY DEF RosterInv
  <2> QED  BY <1>5, <1>7, <1>9, <2>1, <2>2, RosterUndisturbed
<1>11. /\ Revealed' = Revealed /\ \A a, b : Chunk(a, b)' = Chunk(a, b)
       /\ Revealed \in SUBSET Wallets /\ Winners \in SUBSET Wallets
       /\ upto \in SUBSET Wallets
  <2>1. last \in 0..Len(roster)  BY <1>2
  <2>2. Chunk(1, last) \in SUBSET Wallets  BY <1>1, <2>1, ChunkMembers
  <2> QED  BY <1>2, <1>3, <1>5, <1>7, <2>2 DEF Revealed, Chunk, DrawnInv, Unwon
<1>12. TicketCount(Revealed)' = TicketCount(Revealed)
  BY <1>7, <1>11, TicketsUnchanged
<1> HIDE DEF recorded, marked
<1>13. CASE last < Len(roster) /\ root' = walked /\ UNCHANGED <<lottery, page>>
  <2>1. Winners' = Winners  BY <1>13 DEF Winners
  <2>2. TicketCount(Winners)' = TicketCount(Winners)
    BY <1>7, <1>11, <2>1, TicketsUnchanged
  <2>3. DrawnInv'
    BY <1>3, <1>6, <1>11, <1>12, <1>13, <2>1, <2>2 DEF DrawnInv
  <2>4. Unwon(Chunk(1, root.round_processed))' = upto
    <3>1. Chunk(1, root.round_processed)' = Chunk(1, last)  BY <1>6, <1>11, <1>13 DEF Chunk
    <3>2. Chunk(1, last) \in SUBSET Wallets
      <4>1. last \in 0..Len(roster)  BY <1>2
      <4> QED  BY <1>1, <4>1, ChunkMembers
    <3>3. upto = {w \in Chunk(1, last) : participant[w].included /\ w \notin Winners}
      BY DEF Unwon
    <3> HIDE DEF upto
    <3> QED  BY <1>7, <2>1, <3>1, <3>2, <3>3 DEF Unwon
  <2>5. TicketCount(Unwon(Chunk(1, root.round_processed)))' = TicketCount(upto)
    <3> HIDE DEF upto
    <3> QED  BY <1>7, <1>11, <2>4, TicketsUnchanged
  <2>6. RemainingTickets(root)' = RemainingTickets(root)
    BY <1>6, <1>13 DEF RemainingTickets
  <2>7. RoundInv'
    <3> HIDE DEF upto
    <3>1. root'.required = Len(roster') /\ root'.round_processed \in 0..Len(roster')
      BY <1>2, <1>5, <1>6, <1>13
    <3>2. root'.draw < RemainingTickets(root)'
      BY <1>3, <1>6, <1>13, <2>6 DEF RoundInv
    <3> QED  BY <1>4, <1>6, <1>8, <1>13, <2>1, <2>4, <2>5, <3>1, <3>2 DEF RoundInv
  <2>8. root'.phase = "selecting"  BY <1>6, <1>13
  <2> QED  BY <1>10, <2>3, <2>7, <2>8 DEF DrawInv
<1>14. CASE /\ last = Len(roster)
            /\ walked.pending # NoWallet
            /\ page' = [page EXCEPT !.entries = Append(page.entries, walked.pending)]
            /\ \/ /\ draw < RemainingTickets(recorded)
                  /\ root' = BeginSelectionRound(recorded, draw)
                  /\ lottery' = lottery
               \/ /\ root' = [recorded EXCEPT !.phase = "completed"]
                  /\ lottery' = Vested(lottery, recorded.selected_count)
  <2> DEFINE winner == walked.pending
             held   == participant[winner].tickets
  <2>1. winner \in Wallets /\ winner \in Revealed /\ winner \notin Winners
    BY <1>4, <1>11, <1>14 DEF Unwon, Revealed
  <2>2. held \in Nat  BY <1>2, <2>1, LimitAssumption DEF ParticipantType
  <2>3. /\ page'.entries = Append(page.entries, winner)
        /\ Winners' = Winners \cup {winner}
        /\ Len(page'.entries) = root.selected_count + 1
        /\ \A i, j \in DOMAIN page'.entries : page'.entries[i] = page'.entries[j] => i = j
    <3> DEFINE n == Len(page.entries)
    <3>1. page'.entries = Append(page.entries, winner)  BY <1>2, <1>14
    <3>2. /\ DOMAIN page.entries = 1..n /\ n \in Nat
          /\ DOMAIN page'.entries = 1..(n + 1) /\ Len(page'.entries) = n + 1
          /\ page'.entries[n + 1] = winner
          /\ \A i \in 1..n : page'.entries[i] = page.entries[i]
      BY <1>2, <2>1, <3>1
    <3>3. \A i \in 1..(n + 1) : i = n + 1 \/ i \in 1..n  BY <3>2
    <3>4. Winners' = Winners \cup {winner}
      <4>1. n + 1 \in 1..(n + 1) /\ \A i \in 1..n : i \in 1..(n + 1)  BY <3>2
      <4> HIDE DEF n, winner
      <4> QED  BY <3>2, <3>3, <4>1 DEF Winners
    <3>5. \A i \in 1..n : page.entries[i] # winner  BY <2>1, <3>2 DEF Winners
    <3>6. \A i, j \in DOMAIN page'.entries : page'.entries[i] = page'.entries[j] => i = j
      <4> HIDE DEF n, winner
      <4> QED  BY <1>3, <3>2, <3>3, <3>5 DEF DrawnInv
    <3> QED  BY <1>3, <3>1, <3>2, <3>4, <3>6 DEF DrawnInv
  <2>4. TicketCount(Winners)' = root.selected_tickets + held
    <3>1. Winners \cap {winner} = {}  BY <2>1
    <3>2. TicketCount(Winners \cup {winner}) = TicketCount(Winners) + TicketCount({winner})
      BY <1>1, <1>11, <2>1, <3>1, TicketsOfUnion
    <3>3. TicketCount({winner}) = held  BY <1>1, <2>1, TicketsOfOne
    <3>4. Winners \cup {winner} \in SUBSET Wallets  BY <1>11, <2>1
    <3>5. TicketCount(Winners)' = TicketCount(Winners \cup {winner})
      <4> HIDE DEF winner
      <4> QED  BY <1>7, <2>3, <3>4, TicketsUnchanged
    <3> QED  BY <1>3, <3>2, <3>3, <3>5 DEF DrawnInv
  <2> HIDE DEF held, winner
  <2>5. recorded = [walked EXCEPT !.selected_count = walked.selected_count + 1,
                                  !.selected_tickets = walked.selected_tickets + held]
    BY DEF recorded, RecordWinner, held, winner
  <2>6. /\ recorded \in RootType
        /\ recorded.required = Len(roster)
        /\ recorded.eligible_count = root.eligible_count
        /\ recorded.eligible_tickets = root.eligible_tickets
        /\ recorded.selected_count = root.selected_count + 1
        /\ recorded.selected_tickets = root.selected_tickets + held
    <3>1. /\ walked.selected_count + 1 \in Nat /\ walked.selected_tickets + held \in Nat
      <4>1. walked.selected_count \in Nat /\ walked.selected_tickets \in Nat
        BY <1>6 DEF RootType
      <4> QED  BY <2>2, <4>1
    <3> QED  BY <1>6, <2>5, <3>1 DEF RootType
  <2>7. /\ root'.eligible_count = root.eligible_count
        /\ root'.eligible_tickets = root.eligible_tickets
        /\ root'.selected_count = root.selected_count + 1
        /\ root'.selected_tickets = root.selected_tickets + held
    BY <1>14, <2>6 DEF BeginSelectionRound, RootType
  <2>8. Winners' \in SUBSET Revealed'  BY <1>3, <1>11, <2>1, <2>3 DEF DrawnInv
  <2>9. DrawnInv'
    BY <1>3, <1>11, <1>12, <2>3, <2>4, <2>7, <2>8 DEF DrawnInv
  <2>10. CASE /\ draw < RemainingTickets(recorded)
              /\ root' = BeginSelectionRound(recorded, draw)
              /\ lottery' = lottery
    <3>1. /\ root'.phase = "selecting" /\ root'.required = Len(roster)
          /\ root'.round_processed = 0 /\ root'.round_seen = 0
          /\ root'.draw = draw /\ root'.pending = NoWallet
          /\ RemainingTickets(root') = RemainingTickets(recorded)
      BY <2>6, <2>10 DEF BeginSelectionRound, RootType, RemainingTickets
    <3>2. Unwon(Chunk(1, root.round_processed))' = {}  BY <3>1 DEF Unwon, Chunk
    <3>3. TicketCount(Unwon(Chunk(1, root.round_processed)))' = 0
      BY <3>2, FS_EmptySet DEF TicketCount, Tickets
    <3>4. RemainingTickets(root)' = RemainingTickets(root')
      BY DEF RemainingTickets
    <3>5. {w \in Wallets : participant[w].selected}' = Winners'
      BY <1>8, <1>14, <2>3 DEF winner
    <3>6. root'.required = Len(roster') /\ root'.round_processed \in 0..Len(roster')
      BY <1>2, <1>5, <3>1
    <3>7. ~(root'.draw < root'.round_seen)  BY <1>2, <3>1
    <3>8. RoundInv'  BY <2>10, <3>1, <3>3, <3>4, <3>5, <3>6, <3>7 DEF RoundInv
    <3> QED  BY <1>10, <2>9, <3>1, <3>8 DEF DrawInv
  <2>11. CASE /\ root' = [recorded EXCEPT !.phase = "completed"]
              /\ lottery' = Vested(lottery, recorded.selected_count)
    <3>1. root'.phase = "completed"  BY <2>6, <2>11 DEF RootType
    <3>2. lottery'.winners_count = root.selected_count + 1
      BY <1>2, <2>6, <2>11 DEF Vested, LotteryType
    <3>3. root.selected_count + 1 # 0  BY <1>2 DEF RootType
    <3> QED  BY <1>10, <2>3, <2>9, <3>1, <3>2, <3>3 DEF DrawInv
  <2> QED  BY <1>14, <2>10, <2>11
<1> QED  BY <1>5, <1>13, <1>14

LEMMA SelectionNext ==
    ASSUME SelectionInv, [Next]_vars
    PROVE  SelectionInv'
<1>1. FinalityInv /\ OutcomeInv /\ RosterInv /\ DrawInv /\ TypeInv
  BY DEF SelectionInv, FinalityInv
<1>2. FinalityInv' /\ EligibilityKept /\ OutcomeInv' /\ TypeInv'
  BY <1>1, FinalityNext, OutcomeNext DEF FinalityInv
<1>3. CASE \E w \in Wallets, n \in 1..MaxTickets : BuyTickets(w, n)
  BY <1>1, <1>2, <1>3, BuyTicketsRoster, BuyTicketsDraw DEF SelectionInv
<1>4. CASE \E last \in 1..Len(roster), draw \in 0..MaxTickets : AggregateChunk(last, draw)
  BY <1>1, <1>2, <1>4, AggregateChunkDraw DEF SelectionInv
<1>5. CASE \E last \in 1..Len(roster), draw \in 0..MaxTickets : SelectChunk(last, draw)
  BY <1>1, <1>2, <1>5, SelectChunkDraw DEF SelectionInv
<1>6. CASE Quiet /\ RosterInv'
  BY <1>1, <1>2, <1>6, DrawUndisturbed DEF SelectionInv
<1> QED  BY <1>1, <1>3, <1>4, <1>5, <1>6, QuietSteps

LEMMA SelectionInit == Init => SelectionInv
<1> SUFFICES ASSUME Init  PROVE SelectionInv
  OBVIOUS
<1>1. FinalityInv  BY FinalityInit
<1>2. OutcomeInv
  BY <1>1 DEF FinalityInv, OutcomeInv, HasVestedWinners, Init, NewLottery
<1>3. /\ roster = << >> /\ root.phase = "none" /\ page.entries = << >>
      /\ lottery.participants_count = 0 /\ ~lottery.settled /\ ~lottery.settlement_complete
      /\ \A w \in Wallets : /\ ~participant[w].open /\ participant[w].tickets = 0
                            /\ ~participant[w].attested /\ ~participant[w].selected
  BY DEF Init, NewLottery, NoRoot, NewParticipant
<1>4. RosterInv  BY <1>3 DEF RosterInv, RosterDistinct, Chunk
<1>5. DrawInv  BY <1>3 DEF DrawInv, Undrawn
<1> QED  BY <1>1, <1>2, <1>4, <1>5 DEF SelectionInv

LEMMA SelectionAlways == Spec => []SelectionInv
<1>1. SelectionInv /\ [Next]_vars => SelectionInv'  BY SelectionNext
<1> QED  BY <1>1, SelectionInit, PTL DEF Spec

(***************************************************************************)
(* A sequence without repetition names as many as it is long.              *)
(***************************************************************************)
LEMMA DistinctEntries ==
    ASSUME NEW S, NEW e \in Seq(S), \A i, j \in DOMAIN e : e[i] = e[j] => i = j
    PROVE  /\ IsFiniteSet({e[i] : i \in DOMAIN e})
           /\ Cardinality({e[i] : i \in DOMAIN e}) = Len(e)
<1> DEFINE n     == Len(e)
           named == {e[i] : i \in DOMAIN e}
<1>1. n \in Nat /\ DOMAIN e = 1..n /\ e \in [1..n -> S]  OBVIOUS
<1>2. named = {e[i] : i \in 1..n} /\ \A i, j \in 1..n : e[i] = e[j] => i = j  BY <1>1
<1> HIDE DEF n, named
<1>3. e \in [1..n -> named]  BY <1>1, <1>2
<1>4. e \in Injection(1..n, named)  BY <1>2, <1>3 DEF Injection, IsInjective
<1>5. e \in Surjection(1..n, named)  BY <1>2, <1>3 DEF Surjection
<1>6. ExistsBijection(1..n, named)  BY <1>4, <1>5 DEF ExistsBijection, Bijection
<1>7. IsFiniteSet(1..n) /\ Cardinality(1..n) = n
  <2>1. Cardinality(1..n) = IF 1 > n THEN 0 ELSE n - 1 + 1  BY <1>1, FS_Interval
  <2>2. IsFiniteSet(1..n)  BY <1>1, FS_Interval
  <2> QED  BY <1>1, <2>1, <2>2
<1> QED  BY <1>6, <1>7, FS_Bijection DEF n, named

(* However finalization is cut into chunks and interleaved, each round of
   the draw counts every remaining ticket once, its winner is the one wallet
   that holds the drawn ticket, and nobody wins twice. *)
THEOREM SelectionIsSound == Spec => []SelectionSound
<1>1. SelectionInv => SelectionSound
  <2> SUFFICES ASSUME SelectionInv, root.phase = "selecting"
               PROVE  SelectionSound
    BY DEF SelectionSound
  <2> DEFINE inRound(S) == {w \in S : participant[w].included /\ w \notin Winners}
  <2>1. /\ DrawnInv /\ RoundInv /\ TypeOK
    BY DEF SelectionInv, DrawInv, FinalityInv, TypeInv
  <2>2. \A S : inRound(S) = Unwon(S)  BY DEF Unwon
  <2>3. RemainingTickets(root) = TicketCount(Unwon(Wallets))
    <3>1. Winners \in SUBSET Revealed /\ Revealed \in SUBSET Wallets
      BY <2>1 DEF DrawnInv, Revealed
    <3>2. Revealed = Winners \cup Unwon(Wallets) /\ Winners \cap Unwon(Wallets) = {}
      BY <3>1 DEF Revealed, Unwon
    <3>3. Winners \in SUBSET Wallets /\ Unwon(Wallets) \in SUBSET Wallets
      BY <3>1 DEF Unwon
    <3>4. TicketCount(Revealed) = TicketCount(Winners) + TicketCount(Unwon(Wallets))
      BY <2>1, <3>2, <3>3, TicketsOfUnion
    <3>5. TicketCount(Winners) \in Nat /\ TicketCount(Unwon(Wallets)) \in Nat
      BY <2>1, <3>3, TicketsFinite
    <3> QED  BY <2>1, <3>4, <3>5 DEF DrawnInv, RemainingTickets
  <2>4. Cardinality(Winners) = root.selected_count
    <3> DEFINE e == page.entries
    <3>1. /\ e \in Seq(Wallets) /\ Len(e) = root.selected_count
          /\ \A i, j \in DOMAIN e : e[i] = e[j] => i = j
      BY <2>1 DEF TypeOK, DrawnInv
    <3>2. Winners = {e[i] : i \in DOMAIN e}  BY DEF Winners
    <3> HIDE DEF e
    <3> QED  BY <3>1, <3>2, DistinctEntries
  <2>5. Len(page.entries) = root.selected_count  BY <2>1 DEF DrawnInv
  <2> QED  BY <2>1, <2>2, <2>3, <2>4, <2>5 DEF SelectionSound, RoundInv
<1> QED  BY <1>1, SelectionAlways, PTL

------------------------------------------------------------------------------
(***************************************************************************)
(* The election.  A tally counts a set of ballots if its weights and first *)
(* times are theirs; the loop over such a tally elects their plurality.    *)
(***************************************************************************)
For(B, c) == {b \in B : b.count = c}

TimesOf(B, c) == {b.at : b \in For(B, c)}

CountsVotes(t, B, n) ==
    /\ t.max_winners = n
    /\ \A c \in 1..n : /\ t.weights[c] = Cardinality(For(B, c))
                       /\ t.first_seen[c] = Min({Never} \cup TimesOf(B, c))

ValidBallots(B) == IsFiniteSet(B) /\ \A b \in B : b.at \in Nat /\ b.at < Never

Candidate(t, c) == [count |-> c, weight |-> t.weights[c], time |-> t.first_seen[c]]

NobodyYet == [count |-> 1, weight |-> 0, time |-> Never]

LEMMA MinOfNaturals ==
    ASSUME NEW S \in SUBSET Nat, S # {}
    PROVE  Min(S) \in S /\ \A y \in S : Min(S) <= y
BY LeastNatural DEF Min

\* counts with votes, and the order among them
BackedCounts(t, n) == {c \in 1..n : t.weights[c] # 0}

Before(t, c, d) == Improves(Candidate(t, c), Candidate(t, d))

\* the candidate b leads among the counts 1 .. c
Leading(t, c, b) ==
    \/ BackedCounts(t, c) = {} /\ b = NobodyYet
    \/ \E e \in BackedCounts(t, c) :
          b = Candidate(t, e) /\ \A d \in BackedCounts(t, c) \ {e} : Before(t, e, d)

TallyType(t, n) ==
    \A c \in 1..n : t.weights[c] \in Nat /\ t.first_seen[c] \in Nat

Round(t, c, best) ==
    IF t.weights[c] # 0 /\ Improves(Candidate(t, c), best) THEN Candidate(t, c) ELSE best

LEMMA BeforeIsOrder ==
    ASSUME NEW t, NEW n \in Nat, TallyType(t, n),
           NEW c \in 1..n, NEW d \in 1..n, NEW e \in 1..n
    PROVE  /\ c # d => Before(t, c, d) \/ Before(t, d, c)
           /\ ~(Before(t, c, d) /\ Before(t, d, c))
           /\ Before(t, c, d) /\ Before(t, d, e) => Before(t, c, e)
BY DEF TallyType, Before, Improves, Candidate

LEMMA RoundLeads ==
    ASSUME NEW t, NEW n \in Nat, TallyType(t, n), NEW c \in 1..n, NEW best,
           Leading(t, c - 1, best)
    PROVE  Leading(t, c, Round(t, c, best))
<1>1. BackedCounts(t, c) = BackedCounts(t, c - 1) \cup (IF t.weights[c] # 0 THEN {c} ELSE {})
  BY DEF BackedCounts
<1>2. c \notin BackedCounts(t, c - 1) /\ BackedCounts(t, c) \in SUBSET (1..n)  BY DEF BackedCounts
<1>3. CASE t.weights[c] = 0
  <2>1. Round(t, c, best) = best /\ BackedCounts(t, c) = BackedCounts(t, c - 1)
    BY <1>1, <1>3 DEF Round
  <2> QED  BY <2>1 DEF Leading
<1>4. CASE t.weights[c] # 0 /\ BackedCounts(t, c - 1) = {}
  <2>1. best = NobodyYet  BY <1>4 DEF Leading
  <2>2. Improves(Candidate(t, c), best)
    BY <1>4, <2>1 DEF Improves, Candidate, NobodyYet, TallyType
  <2>3. Round(t, c, best) = Candidate(t, c)  BY <1>4, <2>2 DEF Round
  <2>4. BackedCounts(t, c) = {c}  BY <1>1, <1>4
  <2> QED  BY <2>3, <2>4 DEF Leading
<1>5. CASE t.weights[c] # 0 /\ BackedCounts(t, c - 1) # {}
  <2>1. PICK e \in BackedCounts(t, c - 1) :
            best = Candidate(t, e) /\ \A d \in BackedCounts(t, c - 1) \ {e} : Before(t, e, d)
    BY <1>5 DEF Leading
  <2>2. BackedCounts(t, c) = BackedCounts(t, c - 1) \cup {c}  BY <1>1, <1>5
  <2>3. e \in 1..n /\ e # c  BY <1>2, <2>1, <2>2
  <2>4. CASE Before(t, c, e)
    <3>1. Round(t, c, best) = Candidate(t, c)  BY <1>5, <2>1, <2>4 DEF Round, Before
    <3>2. ASSUME NEW d \in BackedCounts(t, c) \ {c}  PROVE Before(t, c, d)
      <4>1. d \in BackedCounts(t, c - 1) /\ d \in 1..n  BY <1>2, <2>2, <3>2
      <4>2. CASE d = e  BY <2>4, <4>2
      <4>3. CASE d # e
        <5>1. Before(t, e, d)  BY <2>1, <4>1, <4>3
        <5> QED  BY <2>3, <2>4, <4>1, <5>1, BeforeIsOrder
      <4> QED  BY <4>2, <4>3
    <3> QED  BY <2>2, <3>1, <3>2 DEF Leading
  <2>5. CASE ~Before(t, c, e)
    <3>1. Round(t, c, best) = best  BY <2>1, <2>5 DEF Round, Before
    <3>2. Before(t, e, c)  BY <2>3, <2>5, BeforeIsOrder
    <3>3. \A d \in BackedCounts(t, c) \ {e} : Before(t, e, d)  BY <2>1, <2>2, <3>2
    <3> QED  BY <2>1, <2>2, <3>1, <3>3 DEF Leading
  <2> QED  BY <2>4, <2>5
<1> QED  BY <1>3, <1>4, <1>5

(* The loop is a recursive function: there is one, by the least length for
   which there could be none, and each of its values leads. *)
Loop(t, m, g) ==
    [c \in 0..m |-> IF c = 0 THEN NobodyYet ELSE Round(t, c, g[c - 1])]

LEMMA LoopExists ==
    ASSUME NEW t, NEW n \in Nat
    PROVE  \E g : g = Loop(t, n, g)
<1> DEFINE Without == {m \in Nat : ~\E g : g = Loop(t, m, g)}
<1> SUFFICES ASSUME Without # {}  PROVE FALSE
  OBVIOUS
<1>1. PICK m \in Without : \A k \in Without : m <= k  BY LeastNatural
<1>2. CASE m = 0
  <2> DEFINE g == [c \in 0..m |-> NobodyYet]
  <2>1. g = Loop(t, m, g)  BY <1>2 DEF Loop
  <2> QED  BY <1>1, <2>1
<1>3. CASE m # 0
  <2>1. m - 1 \in Nat /\ m - 1 \notin Without  BY <1>1, <1>3
  <2>2. PICK g : g = Loop(t, m - 1, g)  BY <2>1
  <2> DEFINE h == [c \in 0..m |-> IF c = m THEN Round(t, m, g[m - 1]) ELSE g[c]]
  <2>3. \A c \in 0..(m - 1) :
            g[c] = IF c = 0 THEN NobodyYet ELSE Round(t, c, g[c - 1])
    BY <2>2 DEF Loop
  <2>4. ASSUME NEW c \in 0..m
        PROVE  h[c] = IF c = 0 THEN NobodyYet ELSE Round(t, c, h[c - 1])
    <3>1. c # 0 => c - 1 \in 0..m /\ c - 1 # m  BY <1>1
    <3>2. c # 0 => h[c - 1] = g[c - 1]  BY <3>1
    <3>3. c = m => h[c] = Round(t, m, g[m - 1])  BY <1>1
    <3>4. c # m => c \in 0..(m - 1) /\ h[c] = g[c]  BY <1>1
    <3> HIDE DEF h
    <3> QED  BY <1>3, <2>3, <3>2, <3>3, <3>4
  <2>5. h = Loop(t, m, h)
    <3>1. h = [c \in 0..m |-> h[c]]  OBVIOUS
    <3> HIDE DEF h
    <3> QED  BY <2>4, <3>1 DEF Loop
  <2> QED  BY <1>1, <2>5
<1> QED  BY <1>2, <1>3

LEMMA LoopLeads ==
    ASSUME NEW t, NEW n \in Nat, TallyType(t, n), NEW g, g = Loop(t, n, g),
           NEW m \in 0..n
    PROVE  Leading(t, m, g[m])
<1> DEFINE Off == {c \in 0..n : ~Leading(t, c, g[c])}
<1> SUFFICES ASSUME Off # {}  PROVE FALSE
  OBVIOUS
<1>1. PICK c \in Off : \A k \in Off : c <= k
  <2>1. Off \in SUBSET Nat  OBVIOUS
  <2> QED  BY <2>1, LeastNatural
<1>2. g[c] = IF c = 0 THEN NobodyYet ELSE Round(t, c, g[c - 1])  BY DEF Loop
<1>3. CASE c = 0
  <2>1. BackedCounts(t, 0) = {}  BY DEF BackedCounts
  <2> QED  BY <1>1, <1>2, <1>3, <2>1 DEF Leading
<1>4. CASE c # 0
  <2>1. c \in 1..n /\ c - 1 \in 0..n /\ c - 1 \notin Off  BY <1>1, <1>4
  <2>2. Leading(t, c - 1, g[c - 1])  BY <2>1
  <2>3. Leading(t, c, Round(t, c, g[c - 1]))  BY <2>1, <2>2, RoundLeads
  <2> QED  BY <1>1, <1>2, <1>4, <2>3
<1> QED  BY <1>3, <1>4

LEMMA LoopIsSelection ==
    ASSUME NEW t, NEW n \in Nat \ {0}, t.max_winners = n, NEW count \in Nat, n < count
    PROVE  \E g : g = Loop(t, n, g) /\ SelectedWinners(t, count) = g[n].count
<1> DEFINE maxCount == Min({t.max_winners, count - 1})
           body(b)  ==
              [c \in 0..maxCount |->
                  IF c = 0 THEN [count |-> 1, weight |-> 0, time |-> Never]
                  ELSE LET new == [count |-> c, weight |-> t.weights[c],
                                   time |-> t.first_seen[c]]
                       IN  IF new.weight # 0 /\ Improves(new, b[c - 1])
                           THEN new ELSE b[c - 1]]
           Best == CHOOSE b : b = body(b)
<1>1. maxCount = n
  <2> DEFINE m == count - 1
  <2>1. n \in Int /\ m \in Int /\ n <= m  OBVIOUS
  <2>2. maxCount = Min({n, m})  OBVIOUS
  <2> HIDE DEF m, maxCount
  <2> QED  BY <2>1, <2>2, MinPair
<1>2. \A b : body(b) = Loop(t, maxCount, b)
  <2> HIDE DEF maxCount
  <2> QED  BY DEF Loop, Round, Candidate, NobodyYet
<1>3. SelectedWinners(t, count) = IF count <= 1 THEN 1 ELSE Best[maxCount].count
  BY Zenon DEF SelectedWinners
<1>4. \E b : b = body(b)
  <2>1. PICK b : b = Loop(t, n, b)  BY LoopExists
  <2>2. b = body(b)
    <3> HIDE DEF body, maxCount
    <3> QED  BY <1>1, <1>2, <2>1
  <2> HIDE DEF body
  <2> QED  BY <2>2
<1>5. Best = body(Best)
  <2> HIDE DEF body
  <2> QED  BY <1>4
<1> HIDE DEF Best, body, maxCount
<1> QED  BY <1>1, <1>2, <1>3, <1>5

(***************************************************************************)
(* The plurality of the ballots is the leader of a tally that counts them. *)
(***************************************************************************)
LEMMA CountedTally ==
    ASSUME NEW t, NEW n \in Nat, NEW B, ValidBallots(B), CountsVotes(t, B, n)
    PROVE  /\ TallyType(t, n)
           /\ \A c \in 1..n : For(B, c) # {} => t.first_seen[c] = Min(TimesOf(B, c))
           /\ \A c \in 1..n : t.weights[c] # 0 <=> For(B, c) # {}
<1> SUFFICES ASSUME NEW c \in 1..n
             PROVE  /\ t.weights[c] \in Nat /\ t.first_seen[c] \in Nat
                    /\ For(B, c) # {} => t.first_seen[c] = Min(TimesOf(B, c))
                    /\ t.weights[c] # 0 <=> For(B, c) # {}
  BY DEF TallyType
<1>1. IsFiniteSet(For(B, c)) /\ t.weights[c] = Cardinality(For(B, c))
  <2>1. For(B, c) \in SUBSET B  BY DEF For
  <2> QED  BY <2>1, FS_Subset DEF ValidBallots, CountsVotes
<1>2. t.weights[c] \in Nat /\ (t.weights[c] # 0 <=> For(B, c) # {})
  BY <1>1, FS_CardinalityType, FS_EmptySet
<1>3. TimesOf(B, c) \in SUBSET Nat /\ \A x \in TimesOf(B, c) : x < Never
  BY DEF TimesOf, For, ValidBallots
<1>4. t.first_seen[c] = Min({Never} \cup TimesOf(B, c))  BY DEF CountsVotes
<1>5. /\ t.first_seen[c] \in {Never} \cup TimesOf(B, c)
      /\ \A y \in {Never} \cup TimesOf(B, c) : t.first_seen[c] <= y
  <2>1. {Never} \cup TimesOf(B, c) \in SUBSET Nat  BY <1>3, NeverAssumption
  <2> QED  BY <1>4, <2>1, MinOfNaturals
<1>6. t.first_seen[c] \in Nat  BY <1>3, <1>5, NeverAssumption
<1>7. ASSUME For(B, c) # {}  PROVE t.first_seen[c] = Min(TimesOf(B, c))
  <2>1. TimesOf(B, c) # {}  BY <1>7 DEF TimesOf
  <2>2. /\ Min(TimesOf(B, c)) \in TimesOf(B, c)
        /\ \A y \in TimesOf(B, c) : Min(TimesOf(B, c)) <= y
    BY <1>3, <2>1, MinOfNaturals
  <2>3. t.first_seen[c] # Never
    BY <1>3, <1>5, <2>2, NeverAssumption
  <2> QED  BY <1>3, <1>5, <2>2, <2>3
<1> QED  BY <1>2, <1>6, <1>7

LEMMA PluralityLeads ==
    ASSUME NEW t, NEW n \in Nat \ {0}, NEW B, ValidBallots(B), CountsVotes(t, B, n),
           NEW best, Leading(t, n, best)
    PROVE  best.count = Plurality(B, n) /\ best.count \in 1..n
<1> DEFINE first(c)   == Min({b.at : b \in For(B, c)})
           weight     == [c \in 1..n |-> Cardinality(For(B, c))]
           named      == {c \in 1..n : weight[c] > 0}
           Beats(c, d) ==
              \/ weight[c] > weight[d]
              \/ /\ weight[c] = weight[d]
                 /\ first(c) < first(d) \/ (first(c) = first(d) /\ c < d)
<1>1. Plurality(B, n) = IF named = {} THEN 1
                        ELSE CHOOSE c \in named : \A d \in named \ {c} : Beats(c, d)
  BY Zenon DEF Plurality, For
<1>2. /\ TallyType(t, n)
      /\ \A c \in 1..n : t.weights[c] = weight[c]
      /\ \A c \in 1..n : t.weights[c] # 0 => t.first_seen[c] = first(c)
  <2>1. /\ TallyType(t, n)
        /\ \A c \in 1..n : For(B, c) # {} => t.first_seen[c] = Min(TimesOf(B, c))
        /\ \A c \in 1..n : t.weights[c] # 0 <=> For(B, c) # {}
    BY CountedTally
  <2>2. \A c \in 1..n : t.weights[c] = weight[c]  BY DEF CountsVotes
  <2>3. \A c : first(c) = Min(TimesOf(B, c))  BY DEF TimesOf
  <2> HIDE DEF first, weight
  <2> QED  BY <2>1, <2>2, <2>3
<1> HIDE DEF first, weight
<1>3. named = BackedCounts(t, n)  BY <1>2 DEF BackedCounts, TallyType
<1>4. \A c, d \in named : Beats(c, d) <=> Before(t, c, d)
  BY <1>2, <1>3 DEF Before, Improves, Candidate, TallyType, BackedCounts
<1> HIDE DEF named, Beats
<1>5. CASE named = {}
  BY <1>1, <1>3, <1>5 DEF Leading, NobodyYet
<1>6. CASE named # {}
  <2>1. PICK e \in named : best = Candidate(t, e) /\ \A d \in named \ {e} : Before(t, e, d)
    BY <1>3, <1>6 DEF Leading
  <2>2. ASSUME NEW c \in named, \A d \in named \ {c} : Beats(c, d)
        PROVE  c = e
    <3> SUFFICES ASSUME c # e  PROVE FALSE
      OBVIOUS
    <3>1. Before(t, c, e) /\ Before(t, e, c)  BY <1>4, <2>1, <2>2
    <3>2. c \in 1..n /\ e \in 1..n  BY <1>3 DEF BackedCounts
    <3> QED  BY <1>2, <3>1, <3>2, BeforeIsOrder
  <2>3. \A d \in named \ {e} : Beats(e, d)  BY <1>4, <2>1
  <2>4. e = CHOOSE c \in named : \A d \in named \ {c} : Beats(c, d)
    BY <2>2, <2>3
  <2>5. Plurality(B, n) = e  BY <1>1, <1>6, <2>4
  <2>6. best.count = e  BY <2>1 DEF Candidate
  <2>7. e \in 1..n  BY <1>3, <2>1 DEF BackedCounts
  <2> QED  BY <2>5, <2>6, <2>7
<1> QED  BY <1>5, <1>6

(* selected_winners elects the plurality of the ballots the tally counts: the
   number with most tickets, ties going to the earliest vote, then the least. *)
THEOREM LoopElects ==
    ASSUME NEW t, NEW n \in Nat \ {0}, NEW B, ValidBallots(B), CountsVotes(t, B, n),
           NEW count \in Nat, n < count
    PROVE  SelectedWinners(t, count) = Plurality(B, n) /\ Plurality(B, n) \in 1..n
<1>1. t.max_winners = n  BY DEF CountsVotes
<1>2. PICK g : g = Loop(t, n, g) /\ SelectedWinners(t, count) = g[n].count
  BY <1>1, LoopIsSelection
<1>3. Leading(t, n, g[n])
  <2>1. TallyType(t, n)  BY CountedTally
  <2>2. n \in 0..n  OBVIOUS
  <2> QED  BY <1>2, <2>1, <2>2, LoopLeads
<1> QED  BY <1>2, <1>3, PluralityLeads

(***************************************************************************)
(* Adding votes to a tally of some ballots gives the tally of them all.    *)
(***************************************************************************)
LEMMA NewTallyCounts ==
    ASSUME NEW n \in Nat
    PROVE  CountsVotes(NewTally(n), {}, n)
<1> SUFFICES ASSUME NEW c \in 1..n
             PROVE  Cardinality(For({}, c)) = 0 /\ Never = Min({Never} \cup TimesOf({}, c))
  BY DEF CountsVotes, NewTally
<1>1. For({}, c) = {} /\ TimesOf({}, c) = {}  BY DEF For, TimesOf
<1>2. {Never} \in SUBSET Nat /\ {Never} # {}  BY NeverAssumption
<1>3. Min({Never}) = Never  BY <1>2, MinOfNaturals
<1> QED  BY <1>1, <1>3, FS_EmptySet

LEMMA AddVotesCounts ==
    ASSUME NEW t, NEW n \in Nat, NEW B, NEW C, CountsVotes(t, B, n),
           ValidBallots(B), ValidBallots(C), B \cap C = {}
    PROVE  CountsVotes(AddVotes(t, C), B \cup C, n)
<1> DEFINE weights == [c \in 1..n |-> t.weights[c] + Cardinality(For(C, c))]
           seen    == [c \in 1..n |-> Min({t.first_seen[c]} \cup TimesOf(C, c))]
<1>1. AddVotes(t, C) = [max_winners |-> n, weights |-> weights, first_seen |-> seen]
  BY DEF AddVotes, For, TimesOf, CountsVotes
<1>2. ASSUME NEW c \in 1..n
      PROVE  weights[c] = Cardinality(For(B \cup C, c))
  <2>1. /\ For(B \cup C, c) = For(B, c) \cup For(C, c) /\ For(B, c) \cap For(C, c) = {}
        /\ For(B, c) \in SUBSET B /\ For(C, c) \in SUBSET C
    BY DEF For
  <2>2. IsFiniteSet(For(B, c)) /\ IsFiniteSet(For(C, c))
    BY <2>1, FS_Subset DEF ValidBallots
  <2>3. Cardinality(For(B, c) \cup For(C, c)) =
            Cardinality(For(B, c)) + Cardinality(For(C, c)) - Cardinality({})
    BY <2>1, <2>2, FS_Union
  <2>4. Cardinality({}) = 0 /\ Cardinality(For(B, c)) \in Nat /\ Cardinality(For(C, c)) \in Nat
    BY <2>2, FS_EmptySet, FS_CardinalityType
  <2>5. t.weights[c] = Cardinality(For(B, c))  BY DEF CountsVotes
  <2>6. weights[c] = Cardinality(For(B, c)) + Cardinality(For(C, c))  BY <2>5
  <2>7. Cardinality(For(B \cup C, c)) = Cardinality(For(B, c)) + Cardinality(For(C, c))
    <3>1. Cardinality(For(B \cup C, c)) = Cardinality(For(B, c) \cup For(C, c))  BY <2>1
    <3> QED  BY <2>3, <2>4, <3>1
  <2> QED  BY <2>6, <2>7
<1>3. ASSUME NEW c \in 1..n
      PROVE  seen[c] = Min({Never} \cup TimesOf(B \cup C, c))
  <2> DEFINE S   == {Never} \cup TimesOf(B, c)
             all == {Never} \cup TimesOf(B \cup C, c)
  <2>1. all = S \cup TimesOf(C, c)  BY DEF TimesOf, For
  <2>2. S \in SUBSET Nat /\ TimesOf(C, c) \in SUBSET Nat /\ S # {}
    BY NeverAssumption DEF TimesOf, For, ValidBallots
  <2>3. seen[c] = Min({Min(S)} \cup TimesOf(C, c))  BY DEF CountsVotes
  <2> HIDE DEF S, all, seen
  <2>4. Min(S) \in S /\ \A y \in S : Min(S) <= y  BY <2>2, MinOfNaturals
  <2> DEFINE T == {Min(S)} \cup TimesOf(C, c)
  <2>5. T \in SUBSET Nat /\ T # {}  BY <2>2, <2>4
  <2>6. Min(T) \in T /\ \A y \in T : Min(T) <= y
    <3> HIDE DEF T
    <3> QED  BY <2>5, MinOfNaturals
  <2>7. Min(all) \in all /\ \A y \in all : Min(all) <= y
    <3>1. all \in SUBSET Nat /\ all # {}  BY <2>1, <2>2
    <3> QED  BY <3>1, MinOfNaturals
  <2>8. Min(T) \in all /\ \A y \in all : Min(T) <= y
    <3>1. Min(T) \in all  BY <2>1, <2>4, <2>6
    <3>2. ASSUME NEW y \in S  PROVE Min(T) <= y
      <4>1. Min(T) <= Min(S) /\ Min(S) <= y  BY <2>4, <2>6
      <4>2. Min(T) \in Nat /\ Min(S) \in Nat /\ y \in Nat  BY <2>2, <2>4, <2>5, <2>6
      <4> QED  BY <4>1, <4>2
    <3>3. \A y \in TimesOf(C, c) : Min(T) <= y  BY <2>6
    <3> QED  BY <2>1, <3>1, <3>2, <3>3
  <2>9. Min(T) \in Nat /\ Min(all) \in Nat  BY <2>1, <2>2, <2>7, <2>8
  <2> HIDE DEF T
  <2>10. Min(T) = Min(all)  BY <2>7, <2>8, <2>9
  <2> QED  BY <2>3, <2>10 DEF T, all
<1> HIDE DEF weights, seen
<1> QED  BY <1>1, <1>2, <1>3 DEF CountsVotes

(* The tally by itself: it counts the ballots cast so far. *)
PollInv == ValidBallots(cast) /\ CountsVotes(poll, cast, MaxWinners)

LEMMA VoteCounts ==
    ASSUME PollInv, NEW v, NEW count, NEW weight \in 1..MaxWeight, NEW at \in 1..(Never - 1),
           Vote(v, count, weight, at)
    PROVE  PollInv'
<1> DEFINE ballot  == [k \in 1..weight |-> [ticket |-> <<v, k>>, count |-> count, at |-> at]]
           ballots == {[ticket |-> <<v, k>>, count |-> count, at |-> at] : k \in 1..weight}
<1>1. weight \in Nat /\ at \in Nat /\ at < Never /\ MaxWinners \in Nat
  BY ElectionAssumption, NeverAssumption
<1>2. ValidBallots(ballots)
  <2>1. IsFiniteSet(1..weight)  BY <1>1, FS_Interval
  <2>2. ballot \in Surjection(1..weight, ballots)  BY DEF Surjection
  <2>3. IsFiniteSet(ballots)  BY <2>1, <2>2, FS_Surjection
  <2> QED  BY <1>1, <2>3 DEF ValidBallots
<1>3. cast \cap ballots = {}
  <2>1. \A b \in ballots : b.ticket[1] = v  OBVIOUS
  <2>2. \A b \in cast : b.ticket[1] # v  BY DEF Vote, HasVoted
  <2> QED  BY <2>1, <2>2
<1>4. poll' = AddVotes(poll, ballots) /\ cast' = cast \cup ballots  BY DEF Vote
<1> HIDE DEF ballots
<1>5. CountsVotes(poll', cast', MaxWinners)
  BY <1>1, <1>2, <1>3, <1>4, AddVotesCounts DEF PollInv
<1>6. ValidBallots(cast')
  <2>1. IsFiniteSet(cast \cup ballots)  BY <1>2, FS_Union DEF PollInv, ValidBallots
  <2> QED  BY <1>2, <1>4, <2>1 DEF PollInv, ValidBallots
<1> QED  BY <1>5, <1>6 DEF PollInv

(* Whoever votes for what, when and in which order, selected_winners elects
   the plurality of the votes that add_vote was given (vote_tally.rs). *)
THEOREM TallyElects == ElectionSpec => []ElectsPlurality
<1>1. ElectionInit => PollInv
  <2> SUFFICES ASSUME ElectionInit  PROVE PollInv
    OBVIOUS
  <2>1. MaxWinners \in Nat  BY ElectionAssumption
  <2>2. ValidBallots(cast)  BY FS_EmptySet DEF ElectionInit, ValidBallots
  <2> QED  BY <2>1, <2>2, NewTallyCounts DEF ElectionInit, PollInv
<1>2. PollInv /\ [ElectionNext]_<<poll, cast>> => PollInv'
  <2>1. PollInv /\ UNCHANGED <<poll, cast>> => PollInv'  BY DEF PollInv
  <2> QED  BY <2>1, VoteCounts DEF ElectionNext
<1>3. PollInv => ElectsPlurality
  <2>1. MaxWinners \in Nat \ {0} /\ MaxWinners + 1 \in Nat /\ MaxWinners < MaxWinners + 1
    BY ElectionAssumption
  <2> QED  BY <2>1, LoopElects DEF PollInv, ElectsPlurality
<1> QED  BY <1>1, <1>2, <1>3, PTL DEF ElectionSpec

(***************************************************************************)
(* The ballots of a set of wallets: those of its parts, and the same as    *)
(* long as their tickets and votes are.                                    *)
(***************************************************************************)
LEMMA BallotsSplit ==
    ASSUME NEW p, NEW S, NEW T, S \cap T = {}
    PROVE  /\ Ballots(p, S \cup T) = Ballots(p, S) \cup Ballots(p, T)
           /\ Ballots(p, S) \cap Ballots(p, T) = {}
<1>1. Tickets(S \cup T) = Tickets(S) \cup Tickets(T)  BY DEF Tickets
<1>2. Tickets(S) \cap Tickets(T) = {}  BY DEF Tickets
<1>3. \A b \in Ballots(p, S) : b.ticket \in Tickets(S)  BY DEF Ballots
<1>4. \A b \in Ballots(p, T) : b.ticket \in Tickets(T)  BY DEF Ballots
<1> QED  BY <1>1, <1>2, <1>3, <1>4 DEF Ballots

SameTickets == \A w \in Wallets : participant'[w].tickets = participant[w].tickets

SameVotes(S) ==
    \A w \in S : /\ participant'[w].vote = participant[w].vote
                 /\ participant'[w].attested_at = participant[w].attested_at

LEMMA BallotsKept ==
    ASSUME NEW S \in SUBSET Wallets, SameTickets, SameVotes(S)
    PROVE  Ballots(participant, S)' = Ballots(participant, S)
<1>1. Tickets(S)' = Tickets(S)  BY DEF Tickets, SameTickets
<1>2. \A t \in Tickets(S) : t[1] \in S  BY DEF Tickets
<1>3. \A t \in Tickets(S) :
          [ticket |-> t, count |-> participant'[t[1]].vote, at |-> participant'[t[1]].attested_at] =
          [ticket |-> t, count |-> participant[t[1]].vote, at |-> participant[t[1]].attested_at]
  BY <1>2 DEF SameVotes
<1> QED  BY <1>1, <1>3 DEF Ballots

(***************************************************************************)
(* The election's invariant: the tally counts the tickets of the wallets   *)
(* whose reveal is included, and until the passes are over the lottery's   *)
(* selected number is what that tally elects.                              *)
(***************************************************************************)
TallyInv ==
    /\ \A w \in Wallets : participant[w].attested_at < Never
    /\ tally.max_winners = 0 => Revealed = {}
    /\ tally.max_winners # 0 =>
          /\ lottery.attested_count # 0
          /\ CountsVotes(tally, Ballots(participant, Revealed), EffectiveMaxWinners)

ElectedInv ==
    tally.max_winners # 0 /\ root.phase \in {"none", "aggregating"}
        /\ lottery.participants_count > 1 =>
        lottery.selected_number_of_winners = SelectedWinners(tally, lottery.participants_count)

TargetInv ==
    root.phase \in {"selecting", "completed"} =>
        root.target = Min({Plurality(Ballots(participant, Voted), EffectiveMaxWinners),
                           root.eligible_count})

VoteInv == TallyInv /\ ElectedInv /\ TargetInv

LEMMA ValidVotes ==
    ASSUME TypeOK, NEW S \in SUBSET Wallets, NEW p,
           \A w \in S : p[w].attested_at \in Nat /\ p[w].attested_at < Never
    PROVE  ValidBallots(Ballots(p, S))
<1>1. IsFiniteSet(Ballots(p, S))  BY BallotsFinite
<1>2. \A t \in Tickets(S) : t[1] \in S  BY DEF Tickets
<1>3. \A b \in Ballots(p, S) : \E w \in S : b.at = p[w].attested_at  BY <1>2 DEF Ballots
<1> QED  BY <1>1, <1>3 DEF ValidBallots

\* a step that adds the votes of the wallets S
LEMMA VotesAdded ==
    ASSUME TypeOK, TypeOK', TallyInv, NEW S \in SUBSET Wallets, S \cap Revealed = {},
           Revealed' = Revealed \cup S, SameTickets, SameVotes(Revealed),
           \A w \in Wallets : participant'[w].attested_at < Never,
           lottery'.participants_count = lottery.participants_count,
           lottery'.attested_count # 0,
           TallyUsable, tally' = AddVotes(LoadTally, Ballots(participant, S)')
    PROVE  TallyInv' /\ tally'.max_winners # 0
<1>1. PICK n : n = EffectiveMaxWinners  OBVIOUS
<1>2. n \in 1..MaxWinnersCap /\ n \in Nat /\ n # 0
  BY <1>1, EffectiveMaxWinnersRange, LimitAssumption
<1>3. EffectiveMaxWinners' = n  BY <1>1 DEF EffectiveMaxWinners
<1>4. PICK R : R = Revealed  OBVIOUS
<1>5. R \in SUBSET Wallets  BY <1>4 DEF Revealed
<1>6. PICK B : B = Ballots(participant, R)  OBVIOUS
<1>7. PICK C : C = Ballots(participant, S)'  OBVIOUS
<1>8. B = Ballots(participant, R)'  BY <1>4, <1>5, <1>6, BallotsKept
<1>9. CountsVotes(LoadTally, B, n)
  <2>1. CASE tally.max_winners = 0
    <3>1. R = {}  BY <1>4, <2>1 DEF TallyInv
    <3>2. B = {}  BY <1>6, <3>1 DEF Ballots, Tickets
    <3> QED  BY <1>1, <1>2, <2>1, <3>2, NewTallyCounts DEF LoadTally
  <2>2. CASE tally.max_winners # 0
    BY <1>1, <1>4, <1>6, <2>2 DEF LoadTally, TallyInv
  <2> QED  BY <2>1, <2>2
<1>10. ValidBallots(B) /\ ValidBallots(C)
  <2>1. \A w \in Wallets : participant[w].attested_at \in Nat /\ participant'[w].attested_at \in Nat
    BY DEF TypeOK, ParticipantType
  <2>2. ValidBallots(B)  BY <1>5, <1>6, <2>1, ValidVotes DEF TallyInv
  <2>3. C = Ballots(participant', S)
    <3>1. Tickets(S)' = Tickets(S)  BY DEF Tickets, SameTickets
    <3> QED  BY <1>7, <3>1 DEF Ballots
  <2>4. ValidBallots(C)  BY <2>1, <2>3, ValidVotes
  <2> QED  BY <2>2, <2>4
<1>11. B \cap C = {} /\ B \cup C = Ballots(participant, R \cup S)'
  <2>1. B = Ballots(participant', R) /\ C = Ballots(participant', S)
        /\ Ballots(participant, R \cup S)' = Ballots(participant', R \cup S)
    <3>1. \A T \in SUBSET Wallets : Tickets(T)' = Tickets(T)  BY DEF Tickets, SameTickets
    <3>2. R \cup S \in SUBSET Wallets  BY <1>5
    <3> QED  BY <1>5, <1>7, <1>8, <3>1, <3>2 DEF Ballots
  <2>2. R \cap S = {}  BY <1>4
  <2> QED  BY <2>1, <2>2, BallotsSplit
<1>12. CountsVotes(tally', B \cup C, n)
  <2>1. tally' = AddVotes(LoadTally, C)  BY <1>7
  <2> QED  BY <1>2, <1>9, <1>10, <1>11, <2>1, AddVotesCounts
<1>13. tally'.max_winners = n  BY <1>12 DEF CountsVotes
<1>14. Ballots(participant, Revealed)' = B \cup C  BY <1>4, <1>11 DEF Ballots, Tickets
<1> QED  BY <1>2, <1>3, <1>12, <1>13, <1>14 DEF TallyInv

(* Steps that leave tickets, votes and reveals alone. *)
VotesQuiet ==
    /\ SameTickets /\ SameVotes(Wallets)
    /\ Voted' = Voted /\ Revealed' = Revealed
    /\ tally' = tally
    /\ lottery'.participants_count = lottery.participants_count
    /\ lottery'.attested_count = lottery.attested_count

LEMMA TallyFrame ==
    ASSUME TallyInv, VotesQuiet
    PROVE  /\ TallyInv' /\ EffectiveMaxWinners' = EffectiveMaxWinners
           /\ Ballots(participant, Voted)' = Ballots(participant, Voted)
<1>1. EffectiveMaxWinners' = EffectiveMaxWinners  BY DEF VotesQuiet, EffectiveMaxWinners
<1>2. ASSUME NEW S \in SUBSET Wallets
      PROVE  Ballots(participant, S)' = Ballots(participant, S)
  <2>1. SameVotes(S)  BY DEF VotesQuiet, SameVotes
  <2> QED  BY <2>1, BallotsKept DEF VotesQuiet
<1>3. Ballots(participant, Voted)' = Ballots(participant, Voted)
  <2>1. PICK S : S = Voted  OBVIOUS
  <2>2. S \in SUBSET Wallets /\ Voted' = S  BY <2>1 DEF Voted, VotesQuiet
  <2>3. Ballots(participant, Voted)' = Ballots(participant, S)'
    BY <2>2 DEF Ballots, Tickets
  <2> QED  BY <1>2, <2>1, <2>2, <2>3
<1>4. Ballots(participant, Revealed)' = Ballots(participant, Revealed)
  <2>1. PICK S : S = Revealed  OBVIOUS
  <2>2. S \in SUBSET Wallets /\ Revealed' = S  BY <2>1 DEF Revealed, VotesQuiet
  <2>3. Ballots(participant, Revealed)' = Ballots(participant, S)'
    BY <2>2 DEF Ballots, Tickets
  <2> QED  BY <1>2, <2>1, <2>2, <2>3
<1>5. \A w \in Wallets : participant'[w].attested_at = participant[w].attested_at
  BY DEF VotesQuiet, SameVotes
<1> QED  BY <1>1, <1>3, <1>4, <1>5 DEF VotesQuiet, TallyInv

LEMMA VoteFrame ==
    ASSUME VoteInv, VotesQuiet,
           lottery'.selected_number_of_winners = lottery.selected_number_of_winners,
           \/ root.phase \in {"none", "aggregating"} /\ root'.phase \in {"none", "aggregating"}
           \/ /\ root'.phase \in {"selecting", "completed"} /\ root.phase = "selecting"
              /\ root'.target = root.target /\ root'.eligible_count = root.eligible_count
           \/ root' = root
    PROVE  VoteInv'
<1>1. /\ TallyInv' /\ EffectiveMaxWinners' = EffectiveMaxWinners
      /\ Ballots(participant, Voted)' = Ballots(participant, Voted)
  BY TallyFrame DEF VoteInv
<1>2. ElectedInv'  BY DEF VoteInv, ElectedInv, VotesQuiet
<1>3. TargetInv'  BY <1>1 DEF VoteInv, TargetInv
<1> QED  BY <1>1, <1>2, <1>3 DEF VoteInv

LEMMA NoneMissing ==
    ASSUME TypeOK, CountersInv, ~HasMissingAttestedReveals, lottery.attested_count # 0
    PROVE  Revealed = Voted /\ Revealed # {}
<1>1. lottery.provider_uploaded_count \in Nat /\ lottery.attested_count \in Nat
  BY DEF TypeOK, LotteryType
<1>2. Cardinality(Revealed) >= Cardinality(Voted)
  BY <1>1 DEF CountersInv, HasMissingAttestedReveals
<1>3. IsFiniteSet(Voted) /\ Revealed \in SUBSET Voted
  BY CountedWallets DEF CountersInv
<1>4. Cardinality(Revealed) \in Nat /\ Cardinality(Voted) \in Nat
  BY CountedWallets, FS_CardinalityType
<1>5. Revealed = Voted  BY <1>2, <1>3, <1>4, FS_Subset
<1> QED  BY <1>5, FS_EmptySet DEF CountersInv

LEMMA BuyTicketsVotes ==
    ASSUME FinalityInv, VoteInv, NEW w \in Wallets, NEW n \in 1..MaxTickets, BuyTickets(w, n)
    PROVE  VoteInv'
<1>1. /\ TypeOK /\ lottery \in LotteryType /\ participant \in [Wallets -> ParticipantType]
  BY DEF FinalityInv, TypeInv, TypeOK
<1>2. lottery.attested_count = 0
  <2>1. now < UploadStart  BY DEF BuyTickets, InBuyWindow
  <2>2. now \in Int /\ UploadStart \in Int
    BY <1>1, ScheduleOrdered, ScheduleAssumption DEF TypeOK
  <2> QED  BY <2>1, <2>2 DEF FinalityInv, PhaseInv
<1>3. tally.max_winners = 0 /\ Revealed = {} /\ root.phase = "none"
  BY <1>2 DEF FinalityInv, PhaseInv, VoteInv, TallyInv
<1>4. tally' = tally /\ root' = root  BY DEF BuyTickets
<1>5. \A u \in Wallets : /\ participant'[u].attested_at = participant[u].attested_at
                         /\ participant'[u].included = participant[u].included
  BY <1>1 DEF BuyTickets, ParticipantType
<1>6. Revealed' = Revealed  BY <1>5 DEF Revealed
<1> QED  BY <1>3, <1>4, <1>5, <1>6 DEF VoteInv, TallyInv, ElectedInv, TargetInv

LEMMA BeforeNever ==
    ASSUME TypeOK
    PROVE  now < Never /\ now \in Nat
BY ScheduleAssumption, NeverAssumption DEF TypeOK

LEMMA AttestUploadedVotes ==
    ASSUME FinalityInv, VoteInv, NEW w \in Wallets, NEW v \in 1..MaxWinnersCap,
           AttestUploaded(w, v)
    PROVE  VoteInv'
<1>1. /\ TypeOK /\ lottery \in LotteryType /\ participant \in [Wallets -> ParticipantType]
  BY DEF FinalityInv, TypeInv, TypeOK
<1>2. /\ UploadPhase /\ ~participant[w].attested
      /\ participant' = [participant EXCEPT ![w] = Attested(participant[w], v)]
      /\ tally' = tally /\ root' = root
  BY DEF AttestUploaded, MayAttest
<1>3. root.phase = "none"  BY <1>2, NotBegunInUploadPhase
<1>4. /\ lottery'.attested_count = lottery.attested_count + 1
      /\ lottery'.participants_count = lottery.participants_count
      /\ lottery'.selected_number_of_winners = lottery.selected_number_of_winners
  BY <1>1 DEF AttestUploaded, LotteryType
<1>5. \A u \in Wallets :
          /\ participant'[u].tickets = participant[u].tickets
          /\ participant'[u].included = participant[u].included
          /\ u # w => participant'[u] = participant[u]
          /\ participant'[w].attested_at = now
  <2>1. Attested(participant[w], v) =
            [participant[w] EXCEPT !.attested = TRUE, !.attested_at = now, !.vote = v]
    BY DEF Attested
  <2> QED  BY <1>1, <1>2, <2>1 DEF ParticipantType
<1>6. PICK R : R = Revealed  OBVIOUS
<1>7. R \in SUBSET Wallets /\ w \notin R /\ Revealed' = R
  <2>1. Revealed' = Revealed  BY <1>5 DEF Revealed
  <2>2. w \notin Voted  BY <1>2 DEF Voted
  <2> QED  BY <1>6, <2>1, <2>2 DEF Revealed, FinalityInv, CountersInv
<1>8. Ballots(participant, R)' = Ballots(participant, R)
  <2>1. SameTickets /\ SameVotes(R)  BY <1>5, <1>7 DEF SameTickets, SameVotes
  <2> QED  BY <1>7, <2>1, BallotsKept
<1>9. TallyInv'
  <2>1. \A u \in Wallets : participant'[u].attested_at < Never
    BY <1>1, <1>5, BeforeNever DEF VoteInv, TallyInv
  <2>2. lottery'.attested_count # 0  BY <1>1, <1>4 DEF LotteryType
  <2>3. EffectiveMaxWinners' = EffectiveMaxWinners  BY <1>4 DEF EffectiveMaxWinners
  <2>4. Ballots(participant, Revealed)' = Ballots(participant, Revealed)
    BY <1>6, <1>7, <1>8 DEF Ballots, Tickets
  <2> QED
    BY <1>2, <1>6, <1>7, <2>1, <2>2, <2>3, <2>4 DEF VoteInv, TallyInv
<1>10. ElectedInv' /\ TargetInv'
  BY <1>2, <1>3, <1>4 DEF VoteInv, ElectedInv, TargetInv
<1> QED  BY <1>9, <1>10 DEF VoteInv

LEMMA AttestRevealVotes ==
    ASSUME FinalityInv, FinalityInv', VoteInv, NEW w \in Wallets, NEW v \in 1..MaxWinnersCap,
           AttestReveal(w, v)
    PROVE  VoteInv'
<1>1. /\ TypeOK /\ TypeOK' /\ lottery \in LotteryType
      /\ participant \in [Wallets -> ParticipantType]
  BY DEF FinalityInv, TypeInv, TypeOK
<1>2. /\ UploadPhase /\ ~participant[w].included /\ TallyUsable
      /\ participant' = [participant EXCEPT ![w] = [Attested(@, v) EXCEPT !.included = TRUE]]
      /\ tally' = AddVotes(LoadTally, Ballots(participant', {w})) /\ root' = root
  BY DEF AttestReveal, MayAttest
<1>3. root.phase = "none"  BY <1>2, NotBegunInUploadPhase
<1>4. /\ lottery'.attested_count = lottery.attested_count + 1
      /\ lottery'.participants_count = lottery.participants_count
      /\ lottery.participants_count > 1 =>
            lottery'.selected_number_of_winners =
                SelectedWinners(tally', lottery.participants_count)
  BY <1>1 DEF AttestReveal, LotteryType
<1>5. /\ \A u \in Wallets \ {w} : participant'[u] = participant[u]
      /\ participant'[w].tickets = participant[w].tickets
      /\ participant'[w].included /\ participant'[w].attested_at = now
  <2>1. Attested(participant[w], v) =
            [participant[w] EXCEPT !.attested = TRUE, !.attested_at = now, !.vote = v]
    BY DEF Attested
  <2> QED  BY <1>1, <1>2, <2>1 DEF ParticipantType
<1>6. {w} \cap Revealed = {} /\ Revealed' = Revealed \cup {w}
  BY <1>2, <1>5 DEF Revealed
<1>7. SameTickets /\ SameVotes(Revealed)
  BY <1>2, <1>5 DEF SameTickets, SameVotes, Revealed
<1>8. \A u \in Wallets : participant'[u].attested_at < Never
  BY <1>1, <1>5, BeforeNever DEF VoteInv, TallyInv
<1>9. Ballots(participant, {w})' = Ballots(participant', {w})
  BY <1>7 DEF Ballots, Tickets, SameTickets
<1>10. lottery'.attested_count # 0  BY <1>1, <1>4 DEF LotteryType
<1>11. TallyInv'
  <2>1. {w} \in SUBSET Wallets  OBVIOUS
  <2>2. tally' = AddVotes(LoadTally, Ballots(participant, {w})')  BY <1>2, <1>9
  <2> QED
    BY <1>1, <1>2, <1>4, <1>6, <1>7, <1>8, <1>10, <2>1, <2>2, VotesAdded DEF VoteInv
<1>12. ElectedInv' /\ TargetInv'
  BY <1>2, <1>3, <1>4 DEF ElectedInv, TargetInv
<1> QED  BY <1>11, <1>12 DEF VoteInv

LEMMA UploadRevealsVotes ==
    ASSUME FinalityInv, FinalityInv', VoteInv, NEW byAuthority \in BOOLEAN,
           NEW S \in SUBSET Wallets, UploadReveals(byAuthority, S)
    PROVE  VoteInv'
<1>1. /\ TypeOK /\ TypeOK' /\ lottery \in LotteryType
      /\ participant \in [Wallets -> ParticipantType]
  BY DEF FinalityInv, TypeInv, TypeOK
<1>2. /\ TallyUsable /\ lottery.attested_count # 0
      /\ \A w \in S : participant[w].attested /\ ~participant[w].included
      /\ participant' = [w \in Wallets |->
            IF w \in S THEN [participant[w] EXCEPT !.included = TRUE] ELSE participant[w]]
      /\ tally' = AddVotes(LoadTally, Ballots(participant, S)) /\ root' = root
  BY DEF UploadReveals
<1>3. /\ lottery'.attested_count = lottery.attested_count
      /\ lottery'.participants_count = lottery.participants_count
      /\ lottery'.selected_number_of_winners =
            SelectedWinners(tally', lottery.participants_count)
  BY <1>1 DEF UploadReveals, BegunRemediation, LotteryType
<1>4. \A w \in Wallets :
          /\ participant'[w].tickets = participant[w].tickets
          /\ participant'[w].vote = participant[w].vote
          /\ participant'[w].attested_at = participant[w].attested_at
          /\ participant'[w].attested = participant[w].attested
          /\ participant'[w].included = (participant[w].included \/ w \in S)
  BY <1>1, <1>2 DEF ParticipantType
<1>5. /\ SameTickets /\ SameVotes(Wallets) /\ SameVotes(S) /\ SameVotes(Revealed)
      /\ Voted' = Voted /\ S \cap Revealed = {} /\ Revealed' = Revealed \cup S
  BY <1>2, <1>4 DEF SameTickets, SameVotes, Voted, Revealed
<1>6. TallyInv'
  <2>1. Ballots(participant, S)' = Ballots(participant, S)  BY <1>5, BallotsKept
  <2>2. tally' = AddVotes(LoadTally, Ballots(participant, S)')  BY <1>2, <2>1
  <2>3. \A w \in Wallets : participant'[w].attested_at < Never
    BY <1>4 DEF VoteInv, TallyInv
  <2> QED  BY <1>1, <1>2, <1>3, <1>5, <2>2, <2>3, VotesAdded DEF VoteInv
<1>7. ElectedInv'  BY <1>3 DEF ElectedInv
<1>8. TargetInv'
  <2>1. PICK V : V = Voted  OBVIOUS
  <2>2. V \in SUBSET Wallets /\ Voted' = V  BY <1>5, <2>1 DEF Voted
  <2>3. SameVotes(V)  BY <1>5, <2>2 DEF SameVotes
  <2>4. Ballots(participant, V)' = Ballots(participant, V)  BY <1>5, <2>2, <2>3, BallotsKept
  <2>5. Ballots(participant, Voted)' = Ballots(participant, Voted)
    BY <2>1, <2>2, <2>4 DEF Ballots, Tickets
  <2>6. EffectiveMaxWinners' = EffectiveMaxWinners  BY <1>3 DEF EffectiveMaxWinners
  <2> QED  BY <1>2, <2>5, <2>6 DEF VoteInv, TargetInv
<1> QED  BY <1>6, <1>7, <1>8 DEF VoteInv

\* a number within the cap: capping it again changes nothing
LEMMA CappedTwice ==
    ASSUME NEW n \in Nat, NEW m \in 1..n, NEW k \in Nat
    PROVE  Min({Max({m, 1}), n, k}) = Min({m, k})
<1>1. Max({m, 1}) = m
  <2> DEFINE one == 1
  <2>1. m \in Int /\ one \in Int /\ m >= one  OBVIOUS
  <2>2. Max({m, one}) = m
    <3> HIDE DEF one
    <3> QED  BY <2>1, MaxPair
  <2> QED  BY <2>2
<1> DEFINE T == {m, n, k}
           S == {m, k}
<1>2. T \in SUBSET Nat /\ T # {} /\ S \in SUBSET Nat /\ S # {}  OBVIOUS
<1>3. Min(T) \in T /\ \A y \in T : Min(T) <= y
  <2> HIDE DEF T, S
  <2> QED  BY <1>2, MinOfNaturals
<1>4. Min(S) \in S /\ \A y \in S : Min(S) <= y
  <2> HIDE DEF T, S
  <2> QED  BY <1>2, MinOfNaturals
<1>5. Min(T) = Min(S)
  <2> DEFINE a == Min(T)
             b == Min(S)
  <2>1. a \in {m, n, k} /\ a <= m /\ a <= n /\ a <= k  BY <1>3
  <2>2. b \in {m, k} /\ b <= m /\ b <= k  BY <1>4
  <2> HIDE DEF a, b
  <2>3. a = b  BY <2>1, <2>2
  <2> QED  BY <2>3 DEF a, b
<1> QED  BY <1>1, <1>5

LEMMA CapBelowParticipants ==
    ASSUME TypeOK, lottery.participants_count > 1
    PROVE  EffectiveMaxWinners < lottery.participants_count
<1> DEFINE others == Max({lottery.participants_count - 1, 1})
<1>1. lottery.participants_count \in Int  BY LimitAssumption DEF TypeOK, LotteryType
<1>2. others \in Int /\ others < lottery.participants_count
  <2> DEFINE one == 1
             pc  == lottery.participants_count - one
  <2>1. pc \in Int /\ one \in Int /\ pc < lottery.participants_count
        /\ one < lottery.participants_count
    BY <1>1
  <2>2. others = Max({pc, one})  OBVIOUS
  <2> HIDE DEF pc, others
  <2>3. others \in {pc, one}
    <3> HIDE DEF one
    <3> QED  BY <2>1, <2>2, MaxPair
  <2> QED  BY <2>1, <2>3
<1>3. MaxWinnersCap \in Int  BY LimitAssumption
<1>4. EffectiveMaxWinners = Min({MaxWinnersCap, others})  BY DEF EffectiveMaxWinners
<1> HIDE DEF others
<1>5. EffectiveMaxWinners \in Int /\ EffectiveMaxWinners <= others
  BY <1>2, <1>3, <1>4, MinPair
<1> QED  BY <1>1, <1>2, <1>5

LEMMA AggregateChunkVotes ==
    ASSUME FinalityInv, VoteInv, NEW last \in 1..Len(roster), NEW draw \in 0..MaxTickets,
           TypeOK', AggregateChunk(last, draw)
    PROVE  VoteInv'
<1>1. /\ TypeOK /\ lottery \in LotteryType /\ participant \in [Wallets -> ParticipantType]
      /\ root \in RootType /\ CountersInv
  BY DEF FinalityInv, TypeInv, TypeOK
<1> DEFINE r        == LoadRoot
           chunk    == Chunk(r.processed + 1, last)
           eligible == {w \in chunk : participant[w].included}
           counted  == [r EXCEPT !.processed = last,
                                 !.eligible_count = @ + Cardinality(eligible),
                                 !.eligible_tickets = @ + TicketCount(eligible)]
           target   == Min({Max({lottery.selected_number_of_winners, 1}),
                            EffectiveMaxWinners, counted.eligible_count})
<1>2. /\ ReadyToFinalize /\ r.phase = "aggregating"
      /\ \/ root' = counted /\ UNCHANGED lottery
         \/ /\ root' = BeginSelectionRound([counted EXCEPT !.target = target], draw)
            /\ lottery' = [lottery EXCEPT !.selected_number_of_winners = target]
      /\ participant' = [w \in Wallets |->
            IF w \in chunk THEN [participant[w] EXCEPT !.finalized = TRUE] ELSE participant[w]]
      /\ tally' = tally
  BY DEF AggregateChunk
<1>3. /\ root.phase \in {"none", "aggregating"}
      /\ r.phase = "aggregating" /\ r \in RootType
  <2>1. lottery.participants_count \in Nat  BY <1>1, LimitAssumption DEF LotteryType
  <2>2. r.phase = "aggregating"  BY <1>2
  <2>3. root.phase \in {"none", "aggregating"}  BY <2>2 DEF LoadRoot
  <2>4. r \in RootType  BY <1>1, <2>1 DEF LoadRoot, NoRoot, RootType
  <2> QED  BY <2>2, <2>3, <2>4
<1> HIDE DEF r, chunk
<1>4. VotesQuiet
  <2>1. \A w \in Wallets :
            /\ participant'[w].tickets = participant[w].tickets
            /\ participant'[w].vote = participant[w].vote
            /\ participant'[w].attested_at = participant[w].attested_at
            /\ participant'[w].attested = participant[w].attested
            /\ participant'[w].included = participant[w].included
    BY <1>1, <1>2 DEF ParticipantType
  <2>2. /\ lottery'.participants_count = lottery.participants_count
        /\ lottery'.attested_count = lottery.attested_count
    <3> HIDE DEF counted, target
    <3> QED  BY <1>1, <1>2 DEF LotteryType
  <2>3. tally' = tally  BY <1>2
  <2> QED  BY <2>1, <2>2, <2>3 DEF VotesQuiet, SameTickets, SameVotes, Voted, Revealed
<1>5. CASE root' = counted /\ UNCHANGED lottery
  <2>1. root'.phase = "aggregating"  BY <1>3, <1>5 DEF RootType
  <2> QED  BY <1>3, <1>4, <1>5, <2>1, VoteFrame
<1>6. CASE /\ root' = BeginSelectionRound([counted EXCEPT !.target = target], draw)
           /\ lottery' = [lottery EXCEPT !.selected_number_of_winners = target]
  <2>1. /\ root'.phase = "selecting" /\ root'.target = target
        /\ root'.eligible_count = counted.eligible_count
    <3>1. counted.eligible_count = r.eligible_count + Cardinality(eligible)
      BY <1>3 DEF RootType
    <3> HIDE DEF target
    <3> QED  BY <1>3, <1>6, <3>1 DEF BeginSelectionRound, RootType
  <2>2. counted.eligible_count \in Nat
    BY <1>1, <2>1 DEF TypeOK, RootType
  <2>3. /\ lottery.attested_count # 0 /\ ~HasMissingAttestedReveals
        /\ lottery.participants_count > 1
    BY <1>2 DEF ReadyToFinalize, Finalizing
  <2>4. Revealed = Voted /\ Revealed # {}  BY <1>1, <2>3, NoneMissing
  <2>5. PICK n : n = EffectiveMaxWinners  OBVIOUS
  <2>6. n \in Nat \ {0} /\ n < lottery.participants_count
    BY <1>1, <2>3, <2>5, EffectiveMaxWinnersRange, CapBelowParticipants, LimitAssumption
  <2>7. PICK B : B = Ballots(participant, Voted)  OBVIOUS
  <2>8. tally.max_winners # 0 /\ CountsVotes(tally, B, n)
    BY <2>4, <2>5, <2>7 DEF VoteInv, TallyInv
  <2>9. ValidBallots(B)
    <3>1. Voted \in SUBSET Wallets  BY DEF Voted
    <3>2. \A w \in Voted : participant[w].attested_at \in Nat /\ participant[w].attested_at < Never
      BY <1>1 DEF Voted, ParticipantType, VoteInv, TallyInv
    <3> QED  BY <1>1, <2>7, <3>1, <3>2, ValidVotes
  <2>10. lottery.participants_count \in Nat  BY <1>1, LimitAssumption DEF LotteryType
  <2>11. lottery.selected_number_of_winners = SelectedWinners(tally, lottery.participants_count)
    BY <1>3, <2>3, <2>8 DEF VoteInv, ElectedInv
  <2>12. /\ lottery.selected_number_of_winners = Plurality(B, n) /\ Plurality(B, n) \in 1..n
    BY <2>6, <2>8, <2>9, <2>10, <2>11, LoopElects
  <2>13. target = Min({Plurality(B, n), counted.eligible_count})
    <3>1. PICK m : m = Plurality(B, n)  OBVIOUS
    <3>2. PICK k : k = counted.eligible_count  OBVIOUS
    <3>3. target = Min({Max({m, 1}), n, k})  BY <2>5, <2>12, <3>1, <3>2
    <3>4. m \in 1..n /\ k \in Nat /\ n \in Nat  BY <2>2, <2>6, <2>12, <3>1, <3>2
    <3> HIDE DEF target
    <3>5. target = Min({m, k})  BY <3>3, <3>4, CappedTwice
    <3> QED  BY <3>1, <3>2, <3>5
  <2>14. /\ TallyInv' /\ EffectiveMaxWinners' = n
         /\ Ballots(participant, Voted)' = B
    BY <1>4, <2>5, <2>7, TallyFrame DEF VoteInv
  <2> HIDE DEF target, counted
  <2>15. TargetInv'  BY <2>1, <2>13, <2>14 DEF TargetInv
  <2>16. ElectedInv'  BY <2>1 DEF ElectedInv
  <2> QED  BY <2>14, <2>15, <2>16 DEF VoteInv
<1> QED  BY <1>2, <1>5, <1>6

LEMMA VoteNext ==
    ASSUME FinalityInv, VoteInv, [Next]_vars
    PROVE  VoteInv'
<1>1. TypeInv /\ TypeInv' /\ FinalityInv'  BY FinalityNext, TypeInvNext DEF FinalityInv
<1>2. /\ TypeOK /\ TypeOK' /\ lottery \in LotteryType
      /\ participant \in [Wallets -> ParticipantType] /\ root \in RootType
  BY <1>1 DEF TypeInv, TypeOK
<1> DEFINE SameElection(l) ==
               /\ l.participants_count = lottery.participants_count
               /\ l.attested_count = lottery.attested_count
               /\ l.selected_number_of_winners = lottery.selected_number_of_winners
           SameVoters ==
               \A w \in Wallets :
                   /\ participant'[w].tickets = participant[w].tickets
                   /\ participant'[w].vote = participant[w].vote
                   /\ participant'[w].attested_at = participant[w].attested_at
                   /\ participant'[w].attested = participant[w].attested
                   /\ participant'[w].included = participant[w].included
<1>3. ASSUME SameElection(lottery'), SameVoters, tally' = tally
      PROVE  VotesQuiet
  BY <1>3 DEF VotesQuiet, SameTickets, SameVotes, Voted, Revealed
<1>4. ASSUME SameElection(lottery'), SameVoters, tally' = tally, root' = root
      PROVE  VoteInv'
  <2>1. VotesQuiet  BY <1>3, <1>4
  <2> QED  BY <1>4, <2>1, VoteFrame
<1> HIDE DEF SameElection
<1>5. CASE Tick \/ UNCHANGED vars \/ CloseRefundVault
  BY <1>4, <1>5 DEF Tick, vars, CloseRefundVault, MayClose, SameElection
<1>6. CASE \E w \in Wallets, n \in 1..MaxTickets : BuyTickets(w, n)
  BY <1>6, BuyTicketsVotes
<1>7. CASE \E w \in Wallets, v \in 1..MaxWinnersCap : AttestUploaded(w, v)
  BY <1>7, AttestUploadedVotes
<1>8. CASE \E w \in Wallets, v \in 1..MaxWinnersCap : AttestReveal(w, v)
  BY <1>1, <1>8, AttestRevealVotes
<1>9. CASE \E byAuthority \in BOOLEAN, S \in SUBSET Wallets : UploadReveals(byAuthority, S)
  BY <1>1, <1>9, UploadRevealsVotes
<1>10. CASE \E last \in 1..Len(roster), draw \in 0..MaxTickets : AggregateChunk(last, draw)
  BY <1>2, <1>10, AggregateChunkVotes
<1>11. ASSUME NEW last \in 1..Len(roster), NEW draw \in 0..MaxTickets, SelectChunk(last, draw)
       PROVE  VoteInv'
  <2>1. SameElection(lottery')
    BY <1>2, <1>11 DEF SelectChunk, Vested, LotteryType, SameElection
  <2>2. SameVoters
    <3>1. PICK m : participant' = [w \in Wallets |->
              IF w \in m THEN [participant[w] EXCEPT !.selected = TRUE] ELSE participant[w]]
      BY <1>11 DEF SelectChunk
    <3> QED  BY <1>2, <3>1 DEF ParticipantType
  <2>3. tally' = tally /\ root.phase = "selecting"  BY <1>11 DEF SelectChunk
  <2>4. /\ root'.phase \in {"selecting", "completed"}
        /\ root'.target = root.target /\ root'.eligible_count = root.eligible_count
    <3> DEFINE walked == WalkChunk(last)
    <3>1. /\ DOMAIN walked = DOMAIN root /\ walked.phase = root.phase
          /\ walked.target = root.target /\ walked.eligible_count = root.eligible_count
      BY <1>2 DEF WalkChunk, RootType
    <3>2. \/ root' = walked
          \/ root' = BeginSelectionRound(RecordWinner(walked), draw)
          \/ root' = [RecordWinner(walked) EXCEPT !.phase = "completed"]
      BY <1>11 DEF SelectChunk
    <3> HIDE DEF walked
    <3>3. DOMAIN root = {"phase", "required", "processed", "eligible_count",
              "eligible_tickets", "target", "selected_count", "selected_tickets",
              "round_processed", "round_seen", "draw", "pending"}
      BY <1>2 DEF RootType
    <3> DEFINE recorded == RecordWinner(walked)
    <3>4. /\ DOMAIN recorded = DOMAIN root /\ recorded.phase = root.phase
          /\ recorded.target = root.target /\ recorded.eligible_count = root.eligible_count
      BY <3>1, <3>3 DEF RecordWinner
    <3> HIDE DEF recorded
    <3>5. CASE root' = walked  BY <2>3, <3>1, <3>5
    <3>6. CASE root' = BeginSelectionRound(recorded, draw)
      BY <3>3, <3>4, <3>6 DEF BeginSelectionRound
    <3>7. CASE root' = [recorded EXCEPT !.phase = "completed"]  BY <3>3, <3>4, <3>7
    <3> QED  BY <3>2, <3>5, <3>6, <3>7 DEF recorded
  <2>5. lottery'.selected_number_of_winners = lottery.selected_number_of_winners
    BY <2>1 DEF SameElection
  <2>6. VotesQuiet  BY <1>3, <2>1, <2>2, <2>3
  <2> QED  BY <2>3, <2>4, <2>5, <2>6, VoteFrame
<1>12. CASE BeginRemediation
  <2>1. SameElection(lottery')
    BY <1>2, <1>12 DEF BeginRemediation, BegunRemediation, LotteryType, SameElection
  <2> QED  BY <1>4, <1>12, <2>1 DEF BeginRemediation
<1>13. ASSUME NEW batch \in Batches, SettlePayoutBatch(batch)  PROVE VoteInv'
  <2>1. SameElection(lottery')
    BY <1>2, <1>13 DEF SettlePayoutBatch, MayPay, LotteryType, SameElection
  <2> QED  BY <1>4, <1>13, <2>1 DEF SettlePayoutBatch, MayPay
<1>14. CASE FinalizeNoAttesters
  <2>1. SameElection(lottery')
    BY <1>2, <1>14 DEF FinalizeNoAttesters, Cancellable, LotteryType, SameElection
  <2> QED  BY <1>4, <1>14, <2>1 DEF FinalizeNoAttesters, Cancellable
<1>15. ASSUME NEW w \in Wallets, ClaimRefund(w)  PROVE VoteInv'
  <2>1. SameElection(lottery')
    BY <1>2, <1>15 DEF ClaimRefund, MayClaim, LotteryType, SameElection
  <2>2. SameVoters  BY <1>2, <1>15 DEF ClaimRefund, MayClaim, ParticipantType
  <2>3. tally' = tally /\ root' = root  BY <1>15 DEF ClaimRefund, MayClaim
  <2> QED  BY <1>4, <2>1, <2>2, <2>3
<1>16. ASSUME NEW w \in Wallets, CloseParticipant(w)  PROVE VoteInv'
  <2>1. SameElection(lottery')  BY <1>16 DEF CloseParticipant, SameElection
  <2>2. SameVoters  BY <1>2, <1>16 DEF CloseParticipant, ParticipantType
  <2>3. tally' = tally /\ root' = root  BY <1>16 DEF CloseParticipant
  <2> QED  BY <1>4, <2>1, <2>2, <2>3
<1> QED
  BY <1>5, <1>6, <1>7, <1>8, <1>9, <1>10, <1>11, <1>12, <1>13, <1>14, <1>15, <1>16 DEF Next

LEMMA VoteInit == Init => VoteInv
<1> SUFFICES ASSUME Init  PROVE VoteInv
  OBVIOUS
<1>1. 0 < Never  BY ScheduleAssumption, NeverAssumption
<1>2. /\ \A w \in Wallets : participant[w].attested_at = 0 /\ ~participant[w].included
      /\ tally.max_winners = 0 /\ root.phase = "none"
  BY DEF Init, NewParticipant, NoTally, NewTally, NoRoot
<1>3. Revealed = {}  BY <1>2 DEF Revealed
<1> QED  BY <1>1, <1>2, <1>3 DEF VoteInv, TallyInv, ElectedInv, TargetInv

(* However the votes and reveals are batched and interleaved, the number of
   winners that finalization settles on is the one with most attested tickets
   behind it, ties going to the earliest vote, capped by who is eligible. *)
THEOREM WinnersCountIsElected == Spec => []WinnerCountIsPlurality
<1>1. FinalityInv /\ VoteInv /\ [Next]_vars => FinalityInv' /\ VoteInv'
  BY FinalityNext, VoteNext
<1>2. Init => FinalityInv /\ VoteInv  BY FinalityInit, VoteInit
<1>3. VoteInv => WinnerCountIsPlurality
  BY DEF VoteInv, TargetInv, WinnerCountIsPlurality, Voted
<1> QED  BY <1>1, <1>2, <1>3, PTL DEF Spec

===============================================================================
