--------------------------- MODULE BUSCstablecoin ---------------------------
(***************************************************************************)
(* BUSC: an ERC20Burnable token with an owner (Ownable), who alone may     *)
(* mint, burn and pass the ownership on.  The ledger is a value of ERC20;  *)
(* each function takes it as an argument, so that the module can be        *)
(* composed with one that keeps the ledger in a variable.                  *)
(***************************************************************************)
EXTENDS ERC20

CONSTANT NoOwner            \* address(0), and BUSC before it exists

VARIABLE owner              \* _owner

\* Mutation: anybody is the owner.
AnyOwner(caller) == TRUE

OnlyOwner(caller) == owner = caller

BUSCMintOK(token, caller, amount) ==
    /\ OnlyOwner(caller)
    /\ amount > 0
    /\ MintOK(token, amount)

\* burn, of the owner's own balance.  burnFrom stays open to everybody.
BUSCBurnOK(token, caller, amount) ==
    /\ OnlyOwner(caller)
    /\ BurnOK(token, caller, amount)
    /\ amount > 0

\* Mutation: transferOwnership without onlyOwner.
TransferOwnershipOpen(caller, newOwner) ==
    /\ newOwner # NoOwner
    /\ owner' = newOwner

TransferOwnership(caller, newOwner) ==
    /\ OnlyOwner(caller)
    /\ newOwner # NoOwner
    /\ owner' = newOwner

RenounceOwnership(caller) ==
    /\ OnlyOwner(caller)
    /\ owner' = NoOwner

=============================================================================
