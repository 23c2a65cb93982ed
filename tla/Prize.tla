-------------------------------- MODULE Prize --------------------------------
(***************************************************************************)
(* What a giveaway promises with the money it holds, whatever its phases   *)
(* and uploads are.  The prize is either awarded, once, to some winners or *)
(* goes back to its sponsor.  Every winner is sent one equal share; the    *)
(* house gets its fee and the sponsor the rest with the last share.        *)
(***************************************************************************)
EXTENDS Integers, FiniteSets

CONSTANTS Entrants, Fund, Fee, Pool, MaxWinners

VARIABLES
    stage,     \* "open", "awarded" or "closed"
    winners,   \* the entrants that share the prize
    share,     \* what each of them gets
    paid,      \* those who got it
    held,      \* what is left of the money
    sent,      \* what each entrant was sent
    house,     \* what the house was sent
    sponsor    \* what the sponsor was sent

pvars == <<stage, winners, share, paid, held, sent, house, sponsor>>

Init ==
    /\ stage = "open"
    /\ winners = {} /\ share = 0 /\ paid = {}
    /\ held = Fund
    /\ sent = [e \in Entrants |-> 0]
    /\ house = 0 /\ sponsor = 0

Award(W) ==
    /\ stage = "open"
    /\ W # {} /\ Cardinality(W) <= MaxWinners
    /\ Pool \div Cardinality(W) > 0
    /\ stage' = "awarded"
    /\ winners' = W
    /\ share' = Pool \div Cardinality(W)
    /\ UNCHANGED <<paid, held, sent, house, sponsor>>

Send(S) ==
    /\ stage = "awarded"
    /\ S # {} /\ S \subseteq winners \ paid
    /\ paid' = paid \cup S
    /\ sent' = [e \in Entrants |-> IF e \in S THEN sent[e] + share ELSE sent[e]]
    /\ UNCHANGED <<winners, share>>

Pay(S) ==
    /\ Send(S)
    /\ S # winners \ paid
    /\ held' = held - share * Cardinality(S)
    /\ UNCHANGED <<stage, house, sponsor>>

PayLast(S) ==
    /\ Send(S)
    /\ S = winners \ paid
    /\ stage' = "closed"
    /\ held' = 0
    /\ house' = Fee
    /\ sponsor' = held - share * Cardinality(S) - Fee

Cancel ==
    /\ stage = "open"
    /\ stage' = "closed"
    /\ held' = 0
    /\ sponsor' = held
    /\ UNCHANGED <<winners, share, paid, sent, house>>

Next ==
    \/ \E W \in SUBSET Entrants : Award(W)
    \/ \E S \in SUBSET Entrants : Pay(S) \/ PayLast(S)
    \/ Cancel

Spec == Init /\ [][Next]_pvars
==============================================================================
