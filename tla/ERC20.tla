-------------------------------- MODULE ERC20 -------------------------------
(***************************************************************************)
(* The ledger of an OpenZeppelin 4.9 ERC20 token, as a record              *)
(*                                                                         *)
(*    [balances, allowances, totalSupply]                                  *)
(*                                                                         *)
(* with, for each function of the contract, the condition under which it   *)
(* returns (...OK) and the ledger it leaves.  BUSC and the collateral      *)
(* tokens are such ledgers.  The zero address is not an account: every     *)
(* function of the contract rejects it.                                    *)
(*                                                                         *)
(* The contract subtracts and credits in unchecked blocks ("Overflow not   *)
(* possible"): these wrap here, and that they never do is a property.      *)
(***************************************************************************)
EXTENDS BUSCmath, Functions, FiniteSets

CONSTANT Accounts

ASSUME AccountsAssumption == IsFiniteSet(Accounts)

ERC20Ledger == [balances    : [Accounts -> Uint],
                allowances  : [Accounts -> [Accounts -> Uint]],
                totalSupply : Uint]

\* A ledger whose accounts hold the given balances and have approved nothing.
NewLedger(balances) ==
    [balances    |-> balances,
     allowances  |-> [a \in Accounts |-> [s \in Accounts |-> 0]],
     totalSupply |-> SumFunction(balances)]

-----------------------------------------------------------------------------
(* _transfer, also the body of transfer(to, amount)                        *)

TransferOK(token, from, amount) == amount <= token.balances[from]

\* Mutation: both new balances from the old ones, so a transfer to oneself
\* creates tokens.
TransferFromCache(token, from, to, amount) ==
    [token EXCEPT !.balances = [@ EXCEPT ![from] = Wrap(token.balances[from] - amount),
                                         ![to] = Wrap(token.balances[to] + amount)]]

Transfer(token, from, to, amount) ==
    LET debited == [token.balances EXCEPT ![from] = Wrap(@ - amount)]
    IN  [token EXCEPT !.balances = [debited EXCEPT ![to] = Wrap(@ + amount)]]

-----------------------------------------------------------------------------
(* _approve and _spendAllowance: an allowance of type(uint256).max is      *)
(* infinite and is not spent.                                              *)

\* Mutation: the amount is added to the allowance.
ApproveAdds(token, owner, spender, amount) ==
    [token EXCEPT !.allowances[owner][spender] = @ + amount]

Approve(token, owner, spender, amount) ==
    [token EXCEPT !.allowances[owner][spender] = amount]

SpendAllowanceOK(token, owner, spender, amount) ==
    amount <= token.allowances[owner][spender]

SpendAllowance(token, owner, spender, amount) ==
    IF token.allowances[owner][spender] = MaxUint THEN token
    ELSE Approve(token, owner, spender,
                 Wrap(token.allowances[owner][spender] - amount))

-----------------------------------------------------------------------------
(* transferFrom(from, to, amount) called by spender                        *)

TransferFromOK(token, spender, from, amount) ==
    /\ SpendAllowanceOK(token, from, spender, amount)
    /\ TransferOK(token, from, amount)

TransferFrom(token, spender, from, to, amount) ==
    Transfer(SpendAllowance(token, from, spender, amount), from, to, amount)

-----------------------------------------------------------------------------
(* _mint and _burn.  Only the supply of _mint is checked for overflow.     *)

MintOK(token, amount) == AddOK(token.totalSupply, amount)

Mint(token, account, amount) ==
    [token EXCEPT !.totalSupply = @ + amount,
                  !.balances[account] = Wrap(@ + amount)]

BurnOK(token, account, amount) == amount <= token.balances[account]

\* Mutation: the total supply is not reduced.
BurnBalanceOnly(token, account, amount) ==
    [token EXCEPT !.balances[account] = Wrap(@ - amount)]

Burn(token, account, amount) ==
    [token EXCEPT !.balances[account] = Wrap(@ - amount),
                  !.totalSupply = Wrap(@ - amount)]

-----------------------------------------------------------------------------
(* ERC20Burnable.burnFrom(account, amount) called by spender: public, and  *)
(* not overridden by BUSC.                                                 *)

BurnFromOK(token, spender, account, amount) ==
    /\ SpendAllowanceOK(token, account, spender, amount)
    /\ BurnOK(token, account, amount)

BurnFrom(token, spender, account, amount) ==
    Burn(SpendAllowance(token, account, spender, amount), account, amount)

=============================================================================
