-------------------------------- MODULE Escrow --------------------------------
(***************************************************************************)
(* What a lottery promises to those whose money it holds, whatever its     *)
(* phases, uploads and votes are.  Money goes in while the escrow is open. *)
(* It is then decided once: either some depositors win equal shares, or    *)
(* every deposit is due back.  Whoever is due is paid in full, once, and   *)
(* the house takes what is left only when nobody is due anything.          *)
(***************************************************************************)
EXTENDS Integers, FiniteSets, FiniteSetsExt

CONSTANTS Depositors, Reserve   \* Reserve: what the vault holds at first

VARIABLES
    mode,       \* "open", "vested" or "refunding"
    deposit,    \* [Depositors -> Nat]
    due,        \* what each depositor is owed under the decision
    paid,       \* what each depositor was sent
    held,       \* what the vault holds
    house       \* what the house was sent

evars == <<mode, deposit, due, paid, held, house>>

Nothing == [d \in Depositors |-> 0]

SumOver(f, S) == MapThenSumSet(LAMBDA d : f[d], S)

Total(f) == SumOver(f, Depositors)

Owing == {d \in Depositors : paid[d] < due[d]}

Init ==
    /\ mode = "open"
    /\ deposit = Nothing /\ due = Nothing /\ paid = Nothing
    /\ held = Reserve
    /\ house = 0

Deposit(d) ==
    /\ mode = "open"
    /\ deposit' \in [Depositors -> Nat]
    /\ deposit'[d] > deposit[d]
    /\ \A o \in Depositors \ {d} : deposit'[o] = deposit[o]
    /\ held' = held + (deposit'[d] - deposit[d])
    /\ UNCHANGED <<mode, due, paid, house>>

\* equal shares, at least one unit each, out of the deposits
Vest ==
    /\ mode = "open"
    /\ mode' = "vested"
    /\ \E W \in (SUBSET {d \in Depositors : deposit[d] > 0}) \ {{}}, share \in 1..Total(deposit) :
          /\ share * Cardinality(W) <= Total(deposit)
          /\ due' = [d \in Depositors |-> IF d \in W THEN share ELSE 0]
    /\ UNCHANGED <<deposit, paid, held, house>>

Cancel ==
    /\ mode = "open"
    /\ mode' = "refunding"
    /\ due' = deposit
    /\ UNCHANGED <<deposit, paid, held, house>>

\* the house may collect in the transaction that pays the last one due
Pay(S) ==
    /\ mode # "open"
    /\ S # {} /\ S \subseteq Owing
    /\ paid' = [d \in Depositors |-> IF d \in S THEN due[d] ELSE paid[d]]
    /\ LET left == held - SumOver(due, S)
       IN  \/ held' = left /\ house' = house
           \/ Owing = S /\ held' = 0 /\ house' = house + left
    /\ UNCHANGED <<mode, deposit, due>>

Collect ==
    /\ mode # "open"
    /\ Owing = {}
    /\ held > 0
    /\ held' = 0
    /\ house' = house + held
    /\ UNCHANGED <<mode, deposit, due, paid>>

Next ==
    \/ \E d \in Depositors : Deposit(d)
    \/ Vest
    \/ Cancel
    \/ \E S \in SUBSET Depositors : Pay(S)
    \/ Collect

Spec == Init /\ [][Next]_evars
==============================================================================
