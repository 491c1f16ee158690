------------------------------ MODULE BUSCvault -----------------------------
(***************************************************************************)
(* What the protocol promises about positions, without allowances, checks  *)
(* or fixed-point health factors.  A position is covered when its          *)
(* collateral is worth twice its debt.  A covered position changes only in *)
(* exchange with its owner's own pocket, and so that it stays covered or   *)
(* grows: what leaves the deposit the owner gets, and the debt the owner   *)
(* takes up or pays back.  Only from an uncovered one does collateral go   *)
(* to somebody else, who pays for it with debt of the position.  BUSCmotor *)
(* implements this.                                                        *)
(***************************************************************************)
EXTENDS BUSCmath, Functions

CONSTANTS Users, Tokens, Listed, Scale

VARIABLES deposits,         \* per user and token
          debts,            \* per user
          coins,            \* what each user has of each token besides
          cash,             \* what each user has of the currency of debts
          prices            \* the answer of each listed token's feed

vaultVars == <<deposits, debts, coins, cash, prices>>

Worth(u) ==
    SumFunction([t \in Listed |-> ValueInUSD(prices[t], Scale[t], deposits[u][t])])

Covered(u) == Worth(u) >= 2 * debts[u]

VaultInit ==
    /\ deposits = [u \in Users |-> [t \in Tokens |-> 0]]
    /\ debts = [u \in Users |-> 0]
    /\ coins \in [Users -> [Tokens -> Nat]]
    /\ cash = [u \in Users |-> 0]
    /\ prices \in [Listed -> Int]

-----------------------------------------------------------------------------
(* The steps of user u.                                                    *)

\* Nobody's position changes but v's, nobody's pocket but u's, and no price.
Only(u, v) ==
    /\ deposits' \in [Users -> [Tokens -> Nat]] /\ debts' \in [Users -> Nat]
    /\ coins' \in [Users -> [Tokens -> Nat]] /\ cash' \in [Users -> Nat]
    /\ \A w \in Users \ {v} : deposits'[w] = deposits[w] /\ debts'[w] = debts[w]
    /\ \A w \in Users \ {u} : coins'[w] = coins[w] /\ cash'[w] = cash[w]
    /\ UNCHANGED prices

\* What v's position loses or gains, collateral and debt, u gains or loses.
Exchange(u, v) ==
    /\ \A t \in Tokens : coins'[u][t] - coins[u][t] = deposits[v][t] - deposits'[v][t]
    /\ cash'[u] - cash[u] = debts'[v] - debts[v]

\* More collateral is welcome from the covered and the uncovered.
Add(u) ==
    /\ Only(u, u) /\ Exchange(u, u)
    /\ \A t \in Tokens : deposits'[u][t] >= deposits[u][t]
    /\ debts'[u] = debts[u]

Adjust(u) ==
    /\ Only(u, u) /\ Exchange(u, u)
    /\ Covered(u)'

Seize(u, v) ==
    /\ ~Covered(v)
    /\ Only(u, v) /\ Exchange(u, v)
    /\ \A t \in Tokens : deposits'[v][t] <= deposits[v][t]
    /\ debts'[v] < debts[v]
    /\ Covered(u)'

Call(u) ==
    \/ Add(u)
    \/ Adjust(u)
    \/ \E v \in Users : Seize(u, v)

-----------------------------------------------------------------------------
(* What goes on beside the positions.                                      *)

\* Users trade among themselves and with others.
Trade ==
    /\ coins' \in [Users -> [Tokens -> Nat]] /\ cash' \in [Users -> Nat]
    /\ UNCHANGED <<deposits, debts, prices>>

Reprice ==
    /\ prices' \in [Listed -> Int]
    /\ UNCHANGED <<deposits, debts, coins, cash>>

VaultNext ==
    \/ \E u \in Users : Call(u)
    \/ Trade
    \/ Reprice

VaultSpec == VaultInit /\ [][VaultNext]_vaultVars

=============================================================================
