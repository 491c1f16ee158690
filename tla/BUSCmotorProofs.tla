--------------------------- MODULE BUSCmotorProofs --------------------------
(***************************************************************************)
(* Proofs about BUSCmotor, for any number of users, tokens, amounts,       *)
(* prices and any width of the machine word.                               *)
(*                                                                         *)
(* The inductive invariant has three parts.  BooksOK relates the deposits  *)
(* to the collateral tokens, DebtsOK has the types of the debts and of     *)
(* BUSC, and the feeds and the clock have theirs.  The first two also say  *)
(* that the tokens' ledgers are sound: without it an unchecked addition    *)
(* might wrap and a motor's balance vanish.  BooksOK also says that nobody *)
(* ever has a deposit of an unlisted token.                                *)
(*                                                                         *)
(* The bound on the supply of BUSC is kept apart.  No step raises the BUSC *)
(* that no debt backs (UnbackedKept), wherever it came from: started from  *)
(* nothing it stays backed (DebtsBacked), and while others own BUSC the    *)
(* same lemma bounds it by what they mint (DeployBUSCProofs).              *)
(***************************************************************************)
EXTENDS BUSCmotor, BUSCmathProofs

-----------------------------------------------------------------------------
(* The ledgers of the tokens.  Each operation of ERC20, called when it     *)
(* does not revert, keeps the ledger sound: its numbers are in the range   *)
(* of uint256 and its balances add up to its total supply, so that no      *)
(* unchecked addition or subtraction of the contract ever wraps.  The      *)
(* lemmas say with it what the operation does to each balance.             *)

SoundLedger(token) ==
    /\ token \in ERC20Ledger
    /\ SumFunction(token.balances) = token.totalSupply

LEMMA UintNat == Uint \subseteq Nat /\ MaxUint \in Uint /\ 0 \in Uint
BY MathAssumption DEF Uint

\* The wrap of unchecked arithmetic does nothing to a number within range.
LEMMA WrapInRange == \A i \in Uint : Wrap(i) = i
BY MathAssumption DEF Uint, Wrap

\* No account holds more than there is.
LEMMA BalanceBounded ==
  ASSUME NEW token, SoundLedger(token), NEW a \in Accounts
  PROVE  /\ token.balances[a] <= token.totalSupply
         /\ token.balances \in [Accounts -> Nat]
<1>1. token.balances \in [Accounts -> Nat]
  BY UintNat DEF SoundLedger, ERC20Ledger
<1> QED BY <1>1, SumFunctionMember, AccountsAssumption DEF SoundLedger

\* Two successive changes of balances, and their sum.
LEMMA BalanceUpdate ==
  ASSUME NEW token, SoundLedger(token), NEW a \in Accounts, NEW v \in Nat,
         NEW supply \in Uint,
         supply = token.totalSupply - token.balances[a] + v
  PROVE  /\ [token.balances EXCEPT ![a] = v] \in [Accounts -> Uint]
         /\ SumFunction([token.balances EXCEPT ![a] = v]) = supply
<1> DEFINE b == [token.balances EXCEPT ![a] = v]
<1>1. token.balances \in [Accounts -> Nat] /\ token.balances \in [Accounts -> Int]
  BY BalanceBounded
<1>2. SumFunction(b) = SumFunction(token.balances) - token.balances[a] + v
  BY <1>1, SumFunctionUpdate, AccountsAssumption
<1>3. SumFunction(b) = supply
  BY <1>2 DEF SoundLedger
<1>4. b \in [Accounts -> Nat]
  BY <1>1
<1>5. v <= supply
  BY <1>3, <1>4, SumFunctionMember, AccountsAssumption
<1>6. v \in Uint
  BY <1>5, UintNat, MathAssumption DEF Uint
<1>7. b \in [Accounts -> Uint]
  BY <1>6 DEF SoundLedger, ERC20Ledger
<1> QED BY <1>3, <1>7

LEMMA TransferSound ==
  ASSUME NEW token, SoundLedger(token), NEW from \in Accounts,
         NEW to \in Accounts, NEW amount \in Uint, TransferOK(token, from, amount)
  PROVE  /\ SoundLedger(Transfer(token, from, to, amount))
         /\ Transfer(token, from, to, amount).totalSupply = token.totalSupply
         /\ \A a \in Accounts : Transfer(token, from, to, amount).balances[a] =
               token.balances[a] + (IF a = to THEN amount ELSE 0)
                                 - (IF a = from THEN amount ELSE 0)
<1> DEFINE bal == token.balances
           debited == [bal EXCEPT ![from] = Wrap(bal[from] - amount)]
           mid == [token EXCEPT !.balances = debited,
                                !.totalSupply = token.totalSupply - amount]
           credited == [debited EXCEPT ![to] = Wrap(debited[to] + amount)]
           after == Transfer(token, from, to, amount)
<1>1. /\ token \in ERC20Ledger /\ bal \in [Accounts -> Uint]
      /\ token.totalSupply \in Uint
  BY DEF SoundLedger, ERC20Ledger
<1>2. bal[from] <= token.totalSupply /\ amount <= bal[from]
  BY BalanceBounded DEF TransferOK
<1>3. bal[from] - amount \in Uint /\ token.totalSupply - amount \in Uint
  BY <1>1, <1>2, UintNat DEF Uint
<1>4. Wrap(bal[from] - amount) = bal[from] - amount
  BY <1>3, WrapInRange
<1>5. /\ debited \in [Accounts -> Uint]
      /\ SumFunction(debited) = token.totalSupply - amount
  <2>1. bal[from] - amount \in Nat
    BY <1>3, UintNat
  <2>2. token.totalSupply - amount =
          token.totalSupply - bal[from] + (bal[from] - amount)
    <3>1. token.totalSupply \in Nat /\ bal[from] \in Nat /\ amount \in Nat
      BY <1>1, UintNat
    <3> HIDE DEF bal, debited, mid, credited, after
    <3> QED BY <3>1
  <2> QED BY <1>3, <1>4, <2>1, <2>2, BalanceUpdate
<1>6. SoundLedger(mid) /\ mid.balances = debited /\ mid.totalSupply = token.totalSupply - amount
  BY <1>1, <1>3, <1>5 DEF SoundLedger, ERC20Ledger
<1>7. debited[to] + amount \in Uint /\ debited[to] \in Nat
  <2>1. mid.balances[to] <= mid.totalSupply
    BY <1>6, BalanceBounded
  <2>2. debited[to] <= token.totalSupply - amount
    BY <1>6, <2>1
  <2> HIDE DEF debited, mid
  <2> QED BY <1>1, <1>3, <1>5, <2>2, UintNat DEF Uint
<1>8. Wrap(debited[to] + amount) = debited[to] + amount
  BY <1>7, WrapInRange
<1>9. /\ credited \in [Accounts -> Uint]
      /\ SumFunction(credited) = token.totalSupply
  <2>1. token.totalSupply = mid.totalSupply - debited[to] + (debited[to] + amount)
    BY <1>1, <1>6, <1>7, UintNat
  <2>2. debited[to] + amount \in Nat
    BY <1>7, UintNat
  <2> HIDE DEF debited, mid
  <2> QED BY <1>1, <1>6, <1>8, <2>1, <2>2, BalanceUpdate
<1>10. after = [token EXCEPT !.balances = credited]
  BY DEF Transfer
<1>11. SoundLedger(after) /\ after.totalSupply = token.totalSupply /\ after.balances = credited
  <2> HIDE DEF credited, after
  <2> QED BY <1>1, <1>9, <1>10 DEF SoundLedger, ERC20Ledger
<1>12. ASSUME NEW a \in Accounts
       PROVE  after.balances[a] = bal[a] + (IF a = to THEN amount ELSE 0)
                                         - (IF a = from THEN amount ELSE 0)
  <2>1. /\ after.balances[a] = (IF a = to THEN debited[to] + amount ELSE debited[a])
        /\ debited[a] = (IF a = from THEN bal[from] - amount ELSE bal[a])
        /\ debited[to] = (IF to = from THEN bal[from] - amount ELSE bal[to])
    <3>1. debited[a] = (IF a = from THEN bal[from] - amount ELSE bal[a])
      BY <1>1, <1>4
    <3>2. debited[to] = (IF to = from THEN bal[from] - amount ELSE bal[to])
      BY <1>1, <1>4
    <3>3. credited[a] = (IF a = to THEN debited[to] + amount ELSE debited[a])
      <4> HIDE DEF debited
      <4> QED BY <1>5, <1>8
    <3> HIDE DEF debited, credited, after
    <3> QED BY <1>11, <3>1, <3>2, <3>3
  <2>2. bal[a] \in Nat /\ bal[from] \in Nat /\ bal[to] \in Nat /\ amount \in Nat
    BY <1>1, UintNat
  <2> HIDE DEF bal, debited, after
  <2> QED BY <2>1, <2>2
<1> QED BY <1>11, <1>12

\* Approving touches neither balances nor supply.
LEMMA ApproveSound ==
  ASSUME NEW token, SoundLedger(token), NEW owner \in Accounts,
         NEW spender \in Accounts, NEW amount \in Uint
  PROVE  /\ SoundLedger(Approve(token, owner, spender, amount))
         /\ Approve(token, owner, spender, amount).balances = token.balances
         /\ Approve(token, owner, spender, amount).totalSupply = token.totalSupply
BY DEF Approve, SoundLedger, ERC20Ledger

LEMMA SpendAllowanceSound ==
  ASSUME NEW token, SoundLedger(token), NEW owner \in Accounts,
         NEW spender \in Accounts, NEW amount \in Uint,
         SpendAllowanceOK(token, owner, spender, amount)
  PROVE  /\ SoundLedger(SpendAllowance(token, owner, spender, amount))
         /\ SpendAllowance(token, owner, spender, amount).balances = token.balances
         /\ SpendAllowance(token, owner, spender, amount).totalSupply = token.totalSupply
<1> DEFINE left == token.allowances[owner][spender] - amount
<1>1. token.allowances[owner][spender] \in Uint
  BY DEF SoundLedger, ERC20Ledger
<1>2. left \in Uint
  BY <1>1, UintNat DEF SpendAllowanceOK, Uint
<1>3. Wrap(left) \in Uint
  BY <1>2, WrapInRange
<1> HIDE DEF left
<1> QED BY <1>3, ApproveSound DEF SpendAllowance, left

LEMMA TransferFromSound ==
  ASSUME NEW token, SoundLedger(token), NEW spender \in Accounts,
         NEW from \in Accounts, NEW to \in Accounts, NEW amount \in Uint,
         TransferFromOK(token, spender, from, amount)
  PROVE  /\ SoundLedger(TransferFrom(token, spender, from, to, amount))
         /\ TransferFrom(token, spender, from, to, amount).totalSupply = token.totalSupply
         /\ \A a \in Accounts : TransferFrom(token, spender, from, to, amount).balances[a] =
               token.balances[a] + (IF a = to THEN amount ELSE 0)
                                 - (IF a = from THEN amount ELSE 0)
<1> DEFINE spent == SpendAllowance(token, from, spender, amount)
<1>1. /\ SoundLedger(spent) /\ spent.balances = token.balances
      /\ spent.totalSupply = token.totalSupply
  BY SpendAllowanceSound DEF TransferFromOK
<1>2. TransferOK(spent, from, amount)
  BY <1>1 DEF TransferFromOK, TransferOK
<1> HIDE DEF spent
<1> QED BY <1>1, <1>2, TransferSound DEF TransferFrom, spent

LEMMA MintSound ==
  ASSUME NEW token, SoundLedger(token), NEW account \in Accounts,
         NEW amount \in Uint, MintOK(token, amount)
  PROVE  /\ SoundLedger(Mint(token, account, amount))
         /\ Mint(token, account, amount).totalSupply = token.totalSupply + amount
         /\ \A a \in Accounts : Mint(token, account, amount).balances[a] =
               token.balances[a] + (IF a = account THEN amount ELSE 0)
<1> DEFINE bal == token.balances
           minted == [bal EXCEPT ![account] = bal[account] + amount]
           after == Mint(token, account, amount)
<1>1. token \in ERC20Ledger /\ bal \in [Accounts -> Uint] /\ token.totalSupply \in Uint
  BY DEF SoundLedger, ERC20Ledger
<1>2. token.totalSupply + amount \in Uint
  BY <1>1, MathAssumption DEF MintOK, AddOK, Uint
<1>3. bal[account] \in Nat /\ amount \in Nat /\ token.totalSupply \in Nat
  BY <1>1, UintNat
<1>4. bal[account] <= token.totalSupply
  BY BalanceBounded
<1>5. bal[account] + amount \in Uint
  BY <1>2, <1>3, <1>4, MathAssumption DEF Uint
<1>6. Wrap(bal[account] + amount) = bal[account] + amount
  BY <1>5, WrapInRange
<1>7. minted \in [Accounts -> Uint] /\ SumFunction(minted) = token.totalSupply + amount
  <2>1. token.totalSupply + amount = token.totalSupply - bal[account] + (bal[account] + amount)
    BY <1>3
  <2>2. bal[account] + amount \in Nat
    BY <1>3
  <2> QED BY <1>2, <2>1, <2>2, BalanceUpdate
<1>8. after = [token EXCEPT !.totalSupply = token.totalSupply + amount, !.balances = minted]
  BY <1>1, <1>6 DEF Mint, ERC20Ledger
<1>9. /\ SoundLedger(after) /\ after.totalSupply = token.totalSupply + amount
      /\ after.balances = minted
  <2> HIDE DEF minted, after
  <2> QED BY <1>1, <1>2, <1>7, <1>8 DEF SoundLedger, ERC20Ledger
<1>10. \A a \in Accounts : minted[a] = bal[a] + (IF a = account THEN amount ELSE 0)
  <2>1. ASSUME NEW a \in Accounts
        PROVE  /\ bal[a] \in Nat
               /\ minted[a] = (IF a = account THEN bal[account] + amount ELSE bal[a])
    BY <1>1, UintNat
  <2> HIDE DEF bal, minted
  <2> QED BY <1>3, <2>1
<1> HIDE DEF minted, after
<1> QED BY <1>9, <1>10 DEF after

LEMMA BurnSound ==
  ASSUME NEW token, SoundLedger(token), NEW account \in Accounts,
         NEW amount \in Uint, BurnOK(token, account, amount)
  PROVE  /\ SoundLedger(Burn(token, account, amount))
         /\ Burn(token, account, amount).totalSupply = token.totalSupply - amount
         /\ \A a \in Accounts : Burn(token, account, amount).balances[a] =
               token.balances[a] - (IF a = account THEN amount ELSE 0)
<1> DEFINE bal == token.balances
           burned == [bal EXCEPT ![account] = bal[account] - amount]
           after == Burn(token, account, amount)
<1>1. token \in ERC20Ledger /\ bal \in [Accounts -> Uint] /\ token.totalSupply \in Uint
  BY DEF SoundLedger, ERC20Ledger
<1>2. bal[account] \in Nat /\ amount \in Nat /\ token.totalSupply \in Nat
  BY <1>1, UintNat
<1>3. amount <= bal[account] /\ bal[account] <= token.totalSupply
  BY BalanceBounded DEF BurnOK
<1>4. bal[account] - amount \in Uint /\ token.totalSupply - amount \in Uint
  BY <1>1, <1>2, <1>3, MathAssumption DEF Uint
<1>5. /\ Wrap(bal[account] - amount) = bal[account] - amount
      /\ Wrap(token.totalSupply - amount) = token.totalSupply - amount
  BY <1>4, WrapInRange
<1>6. burned \in [Accounts -> Uint] /\ SumFunction(burned) = token.totalSupply - amount
  <2>1. token.totalSupply - amount = token.totalSupply - bal[account] + (bal[account] - amount)
    BY <1>2
  <2>2. bal[account] - amount \in Nat
    BY <1>2, <1>3
  <2> QED BY <1>4, <2>1, <2>2, BalanceUpdate
<1>7. after = [token EXCEPT !.balances = burned, !.totalSupply = token.totalSupply - amount]
  BY <1>1, <1>5 DEF Burn, ERC20Ledger
<1>8. /\ SoundLedger(after) /\ after.totalSupply = token.totalSupply - amount
      /\ after.balances = burned
  <2> HIDE DEF burned, after
  <2> QED BY <1>1, <1>4, <1>6, <1>7 DEF SoundLedger, ERC20Ledger
<1>9. \A a \in Accounts : burned[a] = bal[a] - (IF a = account THEN amount ELSE 0)
  <2>1. ASSUME NEW a \in Accounts
        PROVE  /\ bal[a] \in Nat
               /\ burned[a] = (IF a = account THEN bal[account] - amount ELSE bal[a])
    BY <1>1, UintNat
  <2> HIDE DEF bal, burned
  <2> QED BY <1>2, <2>1
<1> HIDE DEF burned, after
<1> QED BY <1>8, <1>9 DEF after

LEMMA BurnFromSound ==
  ASSUME NEW token, SoundLedger(token), NEW spender \in Accounts,
         NEW account \in Accounts, NEW amount \in Uint,
         BurnFromOK(token, spender, account, amount)
  PROVE  /\ SoundLedger(BurnFrom(token, spender, account, amount))
         /\ BurnFrom(token, spender, account, amount).totalSupply =
               token.totalSupply - amount
         /\ \A a \in Accounts : BurnFrom(token, spender, account, amount).balances[a] =
               token.balances[a] - (IF a = account THEN amount ELSE 0)
<1> DEFINE spent == SpendAllowance(token, account, spender, amount)
<1>1. /\ SoundLedger(spent) /\ spent.balances = token.balances
      /\ spent.totalSupply = token.totalSupply
  BY SpendAllowanceSound DEF BurnFromOK
<1>2. BurnOK(spent, account, amount)
  BY <1>1 DEF BurnFromOK, BurnOK
<1> HIDE DEF spent
<1> QED BY <1>1, <1>2, BurnSound DEF BurnFrom, spent

\* A new ledger is sound when what it hands out fits in a uint256.
LEMMA NewLedgerSound ==
  ASSUME NEW balances \in [Accounts -> Uint], SumFunction(balances) \in Uint
  PROVE  SoundLedger(NewLedger(balances)) /\ NewLedger(balances).balances = balances
BY UintNat DEF NewLedger, SoundLedger, ERC20Ledger

-----------------------------------------------------------------------------
(* The invariant and its parts.                                            *)

DepositsOf(deposits, t) == [u \in Users |-> deposits[u][t]]

BooksOK(deposits, tokens) ==
    /\ deposits \in [Users -> [Tokens -> Uint]]
    /\ tokens \in [Tokens -> ERC20Ledger]
    /\ \A t \in Tokens :
          /\ SoundLedger(tokens[t])
          /\ SumFunction(DepositsOf(deposits, t)) <= tokens[t].balances[Motor]
    /\ \A u \in Users, t \in Tokens \ Listed : deposits[u][t] = 0

DebtsOK(debts, token) ==
    /\ debts \in [Users -> Uint]
    /\ SoundLedger(token)

\* The BUSC in circulation that no debt backs; negative after burnFrom.
Unbacked(debts, token) == token.totalSupply - SumFunction(debts)

\* What holds of BUSC while nobody but the motor has ever owned it.
DebtsBacked(debts, token) ==
    /\ debts \in [Users -> Uint]
    /\ SoundLedger(token)
    /\ token.totalSupply <= SumFunction(debts)

WorldOK ==
    /\ priceFeed \in [Listed -> PriceFeed]
    /\ now \in Nat

IInv ==
    /\ BooksOK(s_userCollateralDeposits, collateral)
    /\ DebtsOK(s_BuscAmountMintedByUser, busc)
    /\ WorldOK

-----------------------------------------------------------------------------
(* Arithmetic and the shape of the accounts.                               *)

LEMMA MotorFacts ==
  /\ Users \subseteq Accounts /\ Motor \in Accounts
  /\ \A u \in Users : u # Motor
  /\ IsFiniteSet(Users)
BY MotorAssumption

LEMMA UintFunctions ==
  ASSUME NEW S, NEW f \in [S -> Uint]
  PROVE  f \in [S -> Nat] /\ f \in [S -> Int]
<1>1. \A x \in S : f[x] \in Nat
  BY UintNat
<1> QED BY <1>1

LEMMA DivNat == \A a \in Nat, b \in Nat \ {0} : a \div b \in Nat
OBVIOUS

\* Whatever the arithmetic of a liquidation returns is a natural number.
LEMMA SeizedNat ==
  ASSUME NEW answer \in Int, NEW debt \in Uint, SeizedCollateralOK(answer, debt)
  PROVE  SeizedCollateral(answer, debt) \in Nat
<1> DEFINE amount == TokenAmountFromUSDwei(answer, debt)
<1>1. Wrap(answer) \in Nat
  BY MathAssumption DEF Wrap
<1>2. Price(answer) \in Nat
  <2>1. \A a, b \in Nat : a * b \in Nat
    OBVIOUS
  <2> QED BY <1>1, <2>1, MathAssumption DEF Price
<1>3. debt * WAD \in Nat
  <2>1. \A a, b \in Nat : a * b \in Nat
    OBVIOUS
  <2> QED BY <2>1, UintNat, MathAssumption
<1>4. amount \in Nat
  BY <1>2, <1>3, DivNat
     DEF TokenAmountFromUSDwei, SeizedCollateralOK, TokenAmountFromUSDweiOK
<1>5. LiquidationBonus(amount) \in Nat
  <2> HIDE DEF amount
  <2> QED BY <1>4 DEF LiquidationBonus, LIQUIDATION_BONUS, LIQUIDATION_PRECISION
<1> HIDE DEF amount
<1> QED BY <1>4, <1>5 DEF SeizedCollateral, amount

\* deposits and after differ at most in u's deposit of t, which becomes v.
OneDeposit(deposits, after, u, t, v) ==
    \A w \in Users, s \in Tokens :
        after[w][s] = IF w = u /\ s = t THEN v ELSE deposits[w][s]

\* Changing one deposit changes the total of that token as much, and the
\* total of no other token.
LEMMA DepositChanged ==
  ASSUME NEW deposits \in [Users -> [Tokens -> Uint]], NEW u \in Users,
         NEW t \in Tokens, NEW v \in Uint, NEW after,
         OneDeposit(deposits, after, u, t, v)
  PROVE  /\ SumFunction(DepositsOf(after, t)) =
               SumFunction(DepositsOf(deposits, t)) - deposits[u][t] + v
         /\ SumFunction(DepositsOf(deposits, t)) \in Nat
         /\ \A s \in Tokens \ {t} : DepositsOf(after, s) = DepositsOf(deposits, s)
<1>3. \A s \in Tokens \ {t} : DepositsOf(after, s) = DepositsOf(deposits, s)
  BY DEF DepositsOf, OneDeposit
<1>4. DepositsOf(after, t) = [DepositsOf(deposits, t) EXCEPT ![u] = v]
  BY DEF DepositsOf, OneDeposit
<1>5. DepositsOf(deposits, t) \in [Users -> Nat] /\ DepositsOf(deposits, t) \in [Users -> Int]
  <2>1. \A w \in Users : deposits[w][t] \in Nat
    BY UintNat
  <2> QED BY <2>1 DEF DepositsOf
<1>6. v \in Int
  BY UintNat
<1>7. SumFunction([DepositsOf(deposits, t) EXCEPT ![u] = v]) =
          SumFunction(DepositsOf(deposits, t)) - DepositsOf(deposits, t)[u] + v
  <2> DEFINE f == DepositsOf(deposits, t)
  <2>1. f \in [Users -> Int] /\ IsFiniteSet(Users)
    BY <1>5, MotorFacts
  <2>2. SumFunction([f EXCEPT ![u] = v]) = SumFunction(f) - f[u] + v
    <3> HIDE DEF f
    <3> QED BY <1>6, <2>1, SumFunctionUpdate
  <2> QED BY <2>2
<1>8. SumFunction(DepositsOf(deposits, t)) \in Nat
  BY <1>5, SumFunctionNat, MotorFacts
<1>9. DepositsOf(deposits, t)[u] = deposits[u][t]
  BY DEF DepositsOf
<1> QED BY <1>3, <1>4, <1>7, <1>8, <1>9

-----------------------------------------------------------------------------
(* The steps of the motor's calls.                                         *)

\* A deposit keeps the books, lowers no deposit and takes nothing out.
LEMMA DepositSound ==
  ASSUME BooksOK(s_userCollateralDeposits, collateral),
         NEW u \in Users, NEW t \in Tokens, NEW amount \in Uint,
         DepositOK(u, t, amount)
  PROVE  /\ BooksOK(Deposited(u, t, amount), CollateralTakenIn(u, t, amount))
         /\ \A w \in Users, s \in Tokens :
               Deposited(u, t, amount)[w][s] >= s_userCollateralDeposits[w][s]
         /\ \A s \in Tokens :
               CollateralTakenIn(u, t, amount)[s].balances[Motor] >=
               collateral[s].balances[Motor]
<1> DEFINE old == s_userCollateralDeposits
           v == old[u][t] + amount
           deposits == Deposited(u, t, amount)
           after == TransferFrom(collateral[t], Motor, u, Motor, amount)
           tokens == CollateralTakenIn(u, t, amount)
<1>1. /\ old \in [Users -> [Tokens -> Uint]] /\ collateral \in [Tokens -> ERC20Ledger]
      /\ SoundLedger(collateral[t])
      /\ t \in Listed
      /\ AddOK(old[u][t], amount) /\ TransferFromOK(collateral[t], Motor, u, amount)
  BY DEF BooksOK, DepositOK
<1>2. old[u][t] \in Nat /\ amount \in Nat
  BY <1>1, UintNat
<1>3. v \in Uint
  BY <1>1, <1>2, MathAssumption DEF AddOK, Uint
<1>4. deposits = [old EXCEPT ![u][t] = v]
  BY DEF Deposited
<1>5. /\ deposits \in [Users -> [Tokens -> Uint]]
      /\ \A w \in Users, s \in Tokens :
            deposits[w][s] = IF w = u /\ s = t THEN v ELSE old[w][s]
      /\ SumFunction(DepositsOf(deposits, t)) = SumFunction(DepositsOf(old, t)) - old[u][t] + v
      /\ SumFunction(DepositsOf(old, t)) \in Nat
      /\ \A s \in Tokens \ {t} : DepositsOf(deposits, s) = DepositsOf(old, s)
  <2> HIDE DEF deposits, old, v
  <2>1. /\ deposits \in [Users -> [Tokens -> Uint]]
        /\ \A w \in Users, s \in Tokens :
              deposits[w][s] = IF w = u /\ s = t THEN v ELSE old[w][s]
    BY <1>1, <1>3, <1>4
  <2>2. OneDeposit(old, deposits, u, t, v)
    BY <2>1 DEF OneDeposit
  <2> QED BY <1>1, <1>3, <2>1, <2>2, DepositChanged
<1>6. /\ SoundLedger(after)
      /\ after.balances[Motor] = collateral[t].balances[Motor] + amount
  <2>1. /\ SoundLedger(after)
        /\ after.balances[Motor] =
              collateral[t].balances[Motor] + (IF Motor = Motor THEN amount ELSE 0)
                                            - (IF Motor = u THEN amount ELSE 0)
    BY <1>1, MotorFacts, TransferFromSound
  <2>2. collateral[t].balances[Motor] \in Nat
    BY <1>1, BalanceBounded, MotorFacts
  <2> HIDE DEF after
  <2> QED BY <1>2, <2>1, <2>2, MotorFacts
<1>7. tokens = [collateral EXCEPT ![t] = after]
  BY DEF CollateralTakenIn
<1>8. /\ tokens \in [Tokens -> ERC20Ledger] /\ tokens[t] = after
      /\ \A s \in Tokens \ {t} : tokens[s] = collateral[s]
  <2> HIDE DEF tokens, after
  <2> QED BY <1>1, <1>6, <1>7 DEF SoundLedger
<1>9. \A s \in Tokens : /\ SoundLedger(collateral[s])
                        /\ SumFunction(DepositsOf(old, s)) <= collateral[s].balances[Motor]
                        /\ collateral[s].balances[Motor] \in Nat
  BY BalanceBounded, MotorFacts DEF BooksOK
<1>10. ASSUME NEW s \in Tokens
       PROVE  /\ SoundLedger(tokens[s])
              /\ SumFunction(DepositsOf(deposits, s)) <= tokens[s].balances[Motor]
              /\ tokens[s].balances[Motor] >= collateral[s].balances[Motor]
  <2> HIDE DEF deposits, old, tokens, after
  <2>1. CASE s = t
    BY <1>2, <1>5, <1>6, <1>8, <1>9, <2>1 DEF v
  <2>2. CASE s # t
    BY <1>5, <1>8, <1>9, <2>2
  <2> QED BY <2>1, <2>2
<1>11. \A w \in Users, s \in Tokens \ Listed : deposits[w][s] = 0
  <2>1. \A w \in Users, s \in Tokens \ Listed : old[w][s] = 0
    BY DEF BooksOK
  <2> HIDE DEF deposits, old, v
  <2> QED BY <1>1, <1>5, <2>1
<1>12. \A w \in Users, s \in Tokens : deposits[w][s] >= old[w][s]
  <2>1. \A w \in Users, s \in Tokens : old[w][s] \in Nat
    BY <1>1, UintNat
  <2> HIDE DEF deposits, old
  <2> QED BY <1>2, <1>5, <2>1 DEF v
<1> HIDE DEF deposits, old, tokens
<1> QED BY <1>5, <1>8, <1>10, <1>11, <1>12 DEF BooksOK, deposits, old, tokens

\* Pulling from one user to another keeps the books.
LEMMA PullSound ==
  ASSUME BooksOK(s_userCollateralDeposits, collateral),
         NEW from \in Users, NEW to \in Users, NEW t \in Tokens,
         NEW amount \in Nat, PullOK(from, t, amount)
  PROVE  /\ BooksOK(Pulled(from, t, amount), CollateralPaidOut(to, t, amount))
         /\ \A s \in Tokens \ {t} : CollateralPaidOut(to, t, amount)[s] = collateral[s]
<1> DEFINE old == s_userCollateralDeposits
           v == old[from][t] - amount
           deposits == Pulled(from, t, amount)
           after == Transfer(collateral[t], Motor, to, amount)
           tokens == CollateralPaidOut(to, t, amount)
<1>1. /\ old \in [Users -> [Tokens -> Uint]] /\ collateral \in [Tokens -> ERC20Ledger]
      /\ SoundLedger(collateral[t])
      /\ amount <= old[from][t] /\ TransferOK(collateral[t], Motor, amount)
  BY DEF BooksOK, PullOK
<1>2. old[from][t] \in Uint /\ old[from][t] \in Nat
  BY <1>1, UintNat
<1>3. v \in Uint /\ amount \in Uint
  BY <1>1, <1>2, MathAssumption DEF Uint
<1>4. deposits = [old EXCEPT ![from][t] = v]
  BY DEF Pulled
<1>5. /\ deposits \in [Users -> [Tokens -> Uint]]
      /\ \A w \in Users, s \in Tokens :
            deposits[w][s] = IF w = from /\ s = t THEN v ELSE old[w][s]
      /\ SumFunction(DepositsOf(deposits, t)) = SumFunction(DepositsOf(old, t)) - old[from][t] + v
      /\ SumFunction(DepositsOf(old, t)) \in Nat
      /\ \A s \in Tokens \ {t} : DepositsOf(deposits, s) = DepositsOf(old, s)
  <2> HIDE DEF deposits, old, v
  <2>1. /\ deposits \in [Users -> [Tokens -> Uint]]
        /\ \A w \in Users, s \in Tokens :
              deposits[w][s] = IF w = from /\ s = t THEN v ELSE old[w][s]
    BY <1>1, <1>3, <1>4
  <2>2. OneDeposit(old, deposits, from, t, v)
    BY <2>1 DEF OneDeposit
  <2> QED BY <1>1, <1>3, <2>1, <2>2, DepositChanged
<1>6. /\ SoundLedger(after)
      /\ after.balances[Motor] = collateral[t].balances[Motor] - amount
  <2>1. /\ SoundLedger(after)
        /\ after.balances[Motor] =
              collateral[t].balances[Motor] + (IF Motor = to THEN amount ELSE 0)
                                            - (IF Motor = Motor THEN amount ELSE 0)
    BY <1>1, <1>3, MotorFacts, TransferSound
  <2>2. collateral[t].balances[Motor] \in Nat
    BY <1>1, BalanceBounded, MotorFacts
  <2> HIDE DEF after
  <2> QED BY <2>1, <2>2, MotorFacts
<1>7. tokens = [collateral EXCEPT ![t] = after]
  BY DEF CollateralPaidOut
<1>8. /\ tokens \in [Tokens -> ERC20Ledger] /\ tokens[t] = after
      /\ \A s \in Tokens \ {t} : tokens[s] = collateral[s]
  <2> HIDE DEF tokens, after
  <2> QED BY <1>1, <1>6, <1>7 DEF SoundLedger
<1>9. \A s \in Tokens : /\ SoundLedger(collateral[s])
                        /\ SumFunction(DepositsOf(old, s)) <= collateral[s].balances[Motor]
                        /\ collateral[s].balances[Motor] \in Nat
  BY BalanceBounded, MotorFacts DEF BooksOK
<1>10. ASSUME NEW s \in Tokens
       PROVE  /\ SoundLedger(tokens[s])
              /\ SumFunction(DepositsOf(deposits, s)) <= tokens[s].balances[Motor]
  <2> HIDE DEF deposits, old, tokens, after
  <2>1. CASE s = t
    BY <1>2, <1>5, <1>6, <1>8, <1>9, <2>1 DEF v
  <2>2. CASE s # t
    BY <1>5, <1>8, <1>9, <2>2
  <2> QED BY <2>1, <2>2
<1>11. \A w \in Users, s \in Tokens \ Listed : deposits[w][s] = 0
  <2>1. \A w \in Users, s \in Tokens \ Listed : old[w][s] = 0
    BY DEF BooksOK
  <2>2. t \notin Listed => v = 0
    <3> HIDE DEF old
    <3> QED BY <1>1, <1>2, <2>1 DEF v
  <2> HIDE DEF deposits, old, v
  <2> QED BY <1>5, <2>1, <2>2
<1> HIDE DEF deposits, old, tokens
<1> QED BY <1>5, <1>8, <1>10, <1>11 DEF BooksOK, deposits, tokens

LEMMA UnbackedInt ==
  ASSUME NEW debts, NEW token, DebtsOK(debts, token)
  PROVE  /\ SumFunction(debts) \in Nat /\ token.totalSupply \in Nat
         /\ Unbacked(debts, token) \in Int
<1>1. debts \in [Users -> Nat] /\ IsFiniteSet(Users)
  BY UintFunctions, MotorFacts DEF DebtsOK
<1>2. SumFunction(debts) \in Nat
  BY <1>1, SumFunctionNat
<1>3. token.totalSupply \in Nat
  BY UintNat DEF DebtsOK, SoundLedger, ERC20Ledger
<1> QED BY <1>2, <1>3 DEF Unbacked

LEMMA BackedIs ==
  ASSUME NEW debts, NEW token
  PROVE  DebtsBacked(debts, token) <=>
            DebtsOK(debts, token) /\ Unbacked(debts, token) <= 0
<1>1. CASE DebtsOK(debts, token)
  <2>1. Unbacked(debts, token) <= 0 <=> token.totalSupply <= SumFunction(debts)
    BY <1>1, UnbackedInt DEF Unbacked
  <2> QED BY <1>1, <2>1 DEF DebtsBacked, DebtsOK
<1>2. CASE ~DebtsOK(debts, token)
  BY <1>2 DEF DebtsBacked, DebtsOK
<1> QED BY <1>1, <1>2

\* Changing one debt changes their sum as much.
LEMMA DebtChanged ==
  ASSUME NEW debts \in [Users -> Uint], NEW u \in Users, NEW v \in Uint,
         NEW after \in [Users -> Uint],
         \A w \in Users : after[w] = IF w = u THEN v ELSE debts[w]
  PROVE  /\ SumFunction(after) = SumFunction(debts) - debts[u] + v
         /\ SumFunction(debts) \in Nat /\ debts[u] \in Nat
<1>1. debts \in [Users -> Nat] /\ debts \in [Users -> Int] /\ IsFiniteSet(Users)
  BY UintFunctions, MotorFacts
<1>2. SumFunction(debts) \in Nat
  BY <1>1, SumFunctionNat
<1>3. v \in Int
  BY UintNat
<1>4. SumFunction([debts EXCEPT ![u] = v]) = SumFunction(debts) - debts[u] + v
  BY <1>1, <1>3, SumFunctionUpdate
<1>5. after = [debts EXCEPT ![u] = v]
  OBVIOUS
<1> QED BY <1>1, <1>2, <1>4, <1>5

\* Minting adds as much to the debts as to the supply.
LEMMA MintBUSCKeeps ==
  ASSUME DebtsOK(s_BuscAmountMintedByUser, busc),
         NEW u \in Users, NEW deposits, NEW amount \in Uint,
         MintBUSCOK(u, deposits, amount)
  PROVE  /\ DebtsOK([s_BuscAmountMintedByUser EXCEPT ![u] = @ + amount],
                    Mint(busc, u, amount))
         /\ Unbacked([s_BuscAmountMintedByUser EXCEPT ![u] = @ + amount],
                     Mint(busc, u, amount))
               <= Unbacked(s_BuscAmountMintedByUser, busc)
         /\ Mint(busc, u, amount).balances[Motor] = busc.balances[Motor]
<1> DEFINE debts == s_BuscAmountMintedByUser
           after == [debts EXCEPT ![u] = debts[u] + amount]
           token == Mint(busc, u, amount)
<1>1. /\ debts \in [Users -> Uint] /\ SoundLedger(busc)
      /\ AddOK(debts[u], amount) /\ MintOK(busc, amount)
  BY DEF DebtsOK, MintBUSCOK
<1>2. debts[u] \in Nat /\ amount \in Nat /\ busc.totalSupply \in Nat
  BY <1>1, UintNat DEF SoundLedger, ERC20Ledger
<1>3. debts[u] + amount \in Uint
  BY <1>1, <1>2, MathAssumption DEF AddOK, Uint
<1>4. /\ after \in [Users -> Uint] /\ SumFunction(debts) \in Nat
      /\ SumFunction(after) = SumFunction(debts) - debts[u] + (debts[u] + amount)
  <2> DEFINE v == debts[u] + amount
  <2>1. /\ after \in [Users -> Uint] /\ v \in Uint
        /\ \A w \in Users : after[w] = IF w = u THEN v ELSE debts[w]
    BY <1>1, <1>3
  <2> HIDE DEF debts, after, v
  <2>2. /\ SumFunction(after) = SumFunction(debts) - debts[u] + v
        /\ SumFunction(debts) \in Nat
    BY <1>1, <2>1, DebtChanged
  <2> QED BY <2>1, <2>2 DEF v
<1>5. /\ SoundLedger(token) /\ token.totalSupply = busc.totalSupply + amount
      /\ token.balances[Motor] = busc.balances[Motor] + (IF Motor = u THEN amount ELSE 0)
  BY <1>1, MotorFacts, MintSound
<1>6. busc.balances[Motor] \in Nat
  BY <1>1, BalanceBounded, MotorFacts
<1> HIDE DEF after, token
<1>7. Unbacked(after, token) <= Unbacked(debts, busc)
  <2> HIDE DEF debts
  <2> QED BY <1>2, <1>4, <1>5 DEF Unbacked
<1>8. token.balances[Motor] = busc.balances[Motor]
  BY <1>5, <1>6, MotorFacts
<1> QED BY <1>4, <1>5, <1>7, <1>8 DEF DebtsOK, after, token

\* Repaying takes as much from the supply as from the debts, and leaves
\* the motor's own BUSC alone.
LEMMA RepayKeeps ==
  ASSUME DebtsOK(s_BuscAmountMintedByUser, busc),
         NEW debtor \in Users, NEW payer \in Users, NEW amount \in Uint,
         RepayOK(debtor, payer, amount)
  PROVE  /\ DebtsOK(Repaid(debtor, amount), BUSCBurned(payer, amount))
         /\ Unbacked(Repaid(debtor, amount), BUSCBurned(payer, amount))
               <= Unbacked(s_BuscAmountMintedByUser, busc)
         /\ BUSCBurned(payer, amount).balances[Motor] = busc.balances[Motor]
<1> DEFINE debts == s_BuscAmountMintedByUser
           after == Repaid(debtor, amount)
           token == BUSCBurned(payer, amount)
           paid == TransferFrom(busc, Motor, payer, Motor, amount)
<1>1. /\ debts \in [Users -> Uint] /\ SoundLedger(busc)
      /\ amount <= debts[debtor] /\ TransferFromOK(busc, Motor, payer, amount)
      /\ BurnOK(paid, Motor, amount) /\ token = Burn(paid, Motor, amount)
  BY DEF DebtsOK, RepayOK, BUSCBurned
<1>2. debts[debtor] \in Uint /\ debts[debtor] \in Nat /\ amount \in Nat
      /\ busc.totalSupply \in Nat
  BY <1>1, UintNat DEF SoundLedger, ERC20Ledger
<1>3. debts[debtor] - amount \in Uint
  <2> HIDE DEF debts
  <2> QED BY <1>1, <1>2, MathAssumption DEF Uint
<1>4. /\ after \in [Users -> Uint] /\ SumFunction(debts) \in Nat
      /\ SumFunction(after) = SumFunction(debts) - debts[debtor] + (debts[debtor] - amount)
  <2> DEFINE v == debts[debtor] - amount
  <2>1. /\ after \in [Users -> Uint] /\ v \in Uint
        /\ \A w \in Users : after[w] = IF w = debtor THEN v ELSE debts[w]
    BY <1>1, <1>3 DEF Repaid
  <2> HIDE DEF debts, after, v
  <2>2. /\ SumFunction(after) = SumFunction(debts) - debts[debtor] + v
        /\ SumFunction(debts) \in Nat
    BY <1>1, <2>1, DebtChanged
  <2> QED BY <2>1, <2>2 DEF v
<1>5. /\ SoundLedger(paid) /\ paid.totalSupply = busc.totalSupply
      /\ paid.balances[Motor] = busc.balances[Motor] + (IF Motor = Motor THEN amount ELSE 0)
                                                     - (IF Motor = payer THEN amount ELSE 0)
  BY <1>1, MotorFacts, TransferFromSound
<1>6. /\ SoundLedger(token) /\ token.totalSupply = paid.totalSupply - amount
      /\ token.balances[Motor] = paid.balances[Motor] - (IF Motor = Motor THEN amount ELSE 0)
  <2> HIDE DEF paid
  <2> QED BY <1>1, <1>5, MotorFacts, BurnSound
<1>7. busc.balances[Motor] \in Nat
  BY <1>1, BalanceBounded, MotorFacts
<1> HIDE DEF paid, after, token
<1>8. Unbacked(after, token) <= Unbacked(debts, busc)
  <2> HIDE DEF debts
  <2> QED BY <1>2, <1>4, <1>5, <1>6 DEF Unbacked
<1>9. token.balances[Motor] = busc.balances[Motor]
  BY <1>2, <1>5, <1>6, <1>7, MotorFacts
<1> QED BY <1>4, <1>6, <1>8, <1>9 DEF DebtsOK, after, token

LEMMA MintBUSCSound ==
  ASSUME DebtsBacked(s_BuscAmountMintedByUser, busc),
         NEW u \in Users, NEW deposits, NEW amount \in Uint,
         MintBUSCOK(u, deposits, amount)
  PROVE  /\ DebtsBacked([s_BuscAmountMintedByUser EXCEPT ![u] = @ + amount],
                        Mint(busc, u, amount))
         /\ Mint(busc, u, amount).balances[Motor] = busc.balances[Motor]
<1> DEFINE debts == s_BuscAmountMintedByUser
           after == [debts EXCEPT ![u] = debts[u] + amount]
           token == Mint(busc, u, amount)
<1>1. DebtsOK(debts, busc) /\ Unbacked(debts, busc) <= 0
  BY BackedIs
<1>2. /\ DebtsOK(after, token) /\ Unbacked(after, token) <= Unbacked(debts, busc)
      /\ token.balances[Motor] = busc.balances[Motor]
  BY <1>1, MintBUSCKeeps
<1> HIDE DEF debts, after, token
<1>3. Unbacked(after, token) <= 0
  BY <1>1, <1>2, UnbackedInt
<1> QED BY <1>2, <1>3, BackedIs DEF debts, after, token

LEMMA RepaySound ==
  ASSUME DebtsBacked(s_BuscAmountMintedByUser, busc),
         NEW debtor \in Users, NEW payer \in Users, NEW amount \in Uint,
         RepayOK(debtor, payer, amount)
  PROVE  /\ DebtsBacked(Repaid(debtor, amount), BUSCBurned(payer, amount))
         /\ BUSCBurned(payer, amount).balances[Motor] = busc.balances[Motor]
<1> DEFINE debts == s_BuscAmountMintedByUser
           after == Repaid(debtor, amount)
           token == BUSCBurned(payer, amount)
<1>1. DebtsOK(debts, busc) /\ Unbacked(debts, busc) <= 0
  BY BackedIs
<1>2. /\ DebtsOK(after, token) /\ Unbacked(after, token) <= Unbacked(debts, busc)
      /\ token.balances[Motor] = busc.balances[Motor]
  BY <1>1, RepayKeeps
<1> HIDE DEF debts, after, token
<1>3. Unbacked(after, token) <= 0
  BY <1>1, <1>2, UnbackedInt
<1> QED BY <1>2, <1>3, BackedIs DEF debts, after, token

-----------------------------------------------------------------------------
(* The calls on the tokens.                                                *)

\* A sound ledger of the same or a smaller supply is backed no worse.
LEMMA SupplyKeeps ==
  ASSUME DebtsOK(s_BuscAmountMintedByUser, busc),
         NEW token, SoundLedger(token), token.totalSupply <= busc.totalSupply
  PROVE  /\ DebtsOK(s_BuscAmountMintedByUser, token)
         /\ Unbacked(s_BuscAmountMintedByUser, token)
               <= Unbacked(s_BuscAmountMintedByUser, busc)
<1>1. DebtsOK(s_BuscAmountMintedByUser, token)
  BY DEF DebtsOK
<1> QED BY <1>1, UnbackedInt DEF Unbacked

LEMMA SupplyNotRaised ==
  ASSUME DebtsBacked(s_BuscAmountMintedByUser, busc),
         NEW token, SoundLedger(token), token.totalSupply <= busc.totalSupply
  PROVE  DebtsBacked(s_BuscAmountMintedByUser, token)
<1>1. /\ DebtsOK(s_BuscAmountMintedByUser, token)
      /\ Unbacked(s_BuscAmountMintedByUser, token)
            <= Unbacked(s_BuscAmountMintedByUser, busc)
      /\ Unbacked(s_BuscAmountMintedByUser, busc) <= 0
      /\ DebtsOK(s_BuscAmountMintedByUser, busc)
  BY BackedIs, SupplyKeeps
<1> QED BY <1>1, UnbackedInt, BackedIs

\* Replacing one collateral ledger by a sound one in which the motor holds
\* no less keeps the books.
LEMMA CollateralNotTaken ==
  ASSUME BooksOK(s_userCollateralDeposits, collateral),
         NEW t \in Tokens, NEW token, SoundLedger(token),
         token.balances[Motor] >= collateral[t].balances[Motor]
  PROVE  BooksOK(s_userCollateralDeposits, [collateral EXCEPT ![t] = token])
<1> DEFINE tokens == [collateral EXCEPT ![t] = token]
           total(s) == SumFunction(DepositsOf(s_userCollateralDeposits, s))
<1>1. /\ tokens \in [Tokens -> ERC20Ledger] /\ tokens[t] = token
      /\ \A s \in Tokens \ {t} : tokens[s] = collateral[s]
  BY DEF BooksOK, SoundLedger
<1>2. \A s \in Tokens : /\ SoundLedger(collateral[s])
                        /\ total(s) <= collateral[s].balances[Motor]
                        /\ collateral[s].balances[Motor] \in Nat
  BY BalanceBounded, MotorFacts DEF BooksOK
<1>3. token.balances[Motor] \in Nat
  BY BalanceBounded, MotorFacts
<1>4. total(t) \in Nat
  <2>1. DepositsOf(s_userCollateralDeposits, t) \in [Users -> Nat]
    BY UintNat DEF BooksOK, DepositsOf
  <2> QED BY <2>1, SumFunctionNat, MotorFacts
<1>5. \A s \in Tokens : SoundLedger(tokens[s]) /\ total(s) <= tokens[s].balances[Motor]
  <2> HIDE DEF tokens, total
  <2> QED BY <1>1, <1>2, <1>3, <1>4
<1> HIDE DEF tokens
<1> QED BY <1>1, <1>5 DEF BooksOK, tokens

\* What users do with their collateral tokens takes nothing from the motor.
LEMMA CollateralTransferSound ==
  ASSUME BooksOK(s_userCollateralDeposits, collateral),
         NEW u \in Users, NEW t \in Tokens, NEW to \in Accounts,
         NEW amount \in Uint, CollateralTransfer(u, t, to, amount)
  PROVE  /\ BooksOK(s_userCollateralDeposits, collateral')
         /\ \A s \in Tokens : collateral'[s].balances[Motor] >= collateral[s].balances[Motor]
<1> DEFINE token == Transfer(collateral[t], u, to, amount)
<1>1. SoundLedger(collateral[t]) /\ TransferOK(collateral[t], u, amount)
  BY DEF BooksOK, CollateralTransfer
<1>2. /\ SoundLedger(token)
      /\ token.balances[Motor] = collateral[t].balances[Motor]
                                    + (IF Motor = to THEN amount ELSE 0)
                                    - (IF Motor = u THEN amount ELSE 0)
  BY <1>1, MotorFacts, TransferSound
<1>3. amount \in Nat /\ \A s \in Tokens : collateral[s].balances[Motor] \in Nat
  BY UintNat, BalanceBounded, MotorFacts DEF BooksOK
<1>4. token.balances[Motor] >= collateral[t].balances[Motor]
  <2> HIDE DEF token
  <2> QED BY <1>2, <1>3, MotorFacts
<1>5. collateral' = [collateral EXCEPT ![t] = token]
  BY DEF CollateralTransfer
<1>6. \A s \in Tokens : collateral'[s].balances[Motor] >= collateral[s].balances[Motor]
  <2>1. collateral \in [Tokens -> ERC20Ledger]
    BY DEF BooksOK
  <2> HIDE DEF token
  <2> QED BY <1>3, <1>4, <1>5, <2>1
<1> HIDE DEF token
<1> QED BY <1>2, <1>4, <1>5, <1>6, CollateralNotTaken

LEMMA CollateralApproveSound ==
  ASSUME BooksOK(s_userCollateralDeposits, collateral),
         NEW u \in Users, NEW t \in Tokens, NEW amount \in Uint,
         CollateralApprove(u, t, amount)
  PROVE  /\ BooksOK(s_userCollateralDeposits, collateral')
         /\ \A s \in Tokens : collateral'[s].balances[Motor] >= collateral[s].balances[Motor]
<1> DEFINE token == Approve(collateral[t], u, Motor, amount)
<1>1. SoundLedger(token) /\ token.balances = collateral[t].balances
  BY MotorFacts, ApproveSound DEF BooksOK
<1>2. \A s \in Tokens : collateral[s].balances[Motor] \in Nat
  BY BalanceBounded, MotorFacts DEF BooksOK
<1>3. token.balances[Motor] >= collateral[t].balances[Motor]
  <2> HIDE DEF token
  <2> QED BY <1>1, <1>2
<1>4. collateral' = [collateral EXCEPT ![t] = token]
  BY DEF CollateralApprove
<1>5. \A s \in Tokens : collateral'[s].balances[Motor] >= collateral[s].balances[Motor]
  <2>1. collateral \in [Tokens -> ERC20Ledger]
    BY DEF BooksOK
  <2> HIDE DEF token
  <2> QED BY <1>2, <1>3, <1>4, <2>1
<1> HIDE DEF token
<1> QED BY <1>1, <1>3, <1>4, <1>5, CollateralNotTaken

\* Users' calls on BUSC keep a sound ledger, raise no supply and take
\* nothing from the motor.
BUSCStepOK(token) ==
    /\ SoundLedger(token)
    /\ token.totalSupply <= busc.totalSupply
    /\ token.balances[Motor] >= busc.balances[Motor]

LEMMA BUSCFacts ==
  ASSUME SoundLedger(busc)
  PROVE  /\ busc.totalSupply \in Nat
         /\ \A a \in Accounts : busc.balances[a] \in Nat
BY UintNat, BalanceBounded DEF SoundLedger, ERC20Ledger

LEMMA BUSCTransferSound ==
  ASSUME SoundLedger(busc),
         NEW from \in Users, NEW to \in Accounts, NEW amount \in Uint,
         NEW token, SoundLedger(token), token.totalSupply = busc.totalSupply,
         \A a \in Accounts : token.balances[a] =
              busc.balances[a] + (IF a = to THEN amount ELSE 0)
                               - (IF a = from THEN amount ELSE 0)
  PROVE  BUSCStepOK(token)
BY BUSCFacts, UintNat, MotorFacts DEF BUSCStepOK

LEMMA BUSCCallSound ==
  ASSUME SoundLedger(busc),
         NEW u \in Users, NEW from \in Users, NEW to \in Accounts,
         NEW spender \in Accounts, NEW amount \in Uint,
         \/ BUSCTransfer(u, to, amount)
         \/ BUSCApprove(u, spender, amount)
         \/ BUSCTransferFrom(u, from, to, amount)
         \/ BUSCBurnFrom(u, from, amount)
  PROVE  BUSCStepOK(busc')
<1>1. CASE BUSCTransfer(u, to, amount)
  <2> DEFINE token == Transfer(busc, u, to, amount)
  <2>1. busc' = token /\ TransferOK(busc, u, amount)
    BY <1>1 DEF BUSCTransfer
  <2>2. /\ SoundLedger(token) /\ token.totalSupply = busc.totalSupply
        /\ \A a \in Accounts : token.balances[a] =
              busc.balances[a] + (IF a = to THEN amount ELSE 0)
                               - (IF a = u THEN amount ELSE 0)
    BY <2>1, BUSCFacts, MotorFacts, TransferSound
  <2> HIDE DEF token
  <2> QED BY <2>1, <2>2, BUSCTransferSound
<1>2. CASE BUSCApprove(u, spender, amount)
  <2> DEFINE token == Approve(busc, u, spender, amount)
  <2>1. busc' = token
    BY <1>2 DEF BUSCApprove
  <2>2. /\ SoundLedger(token) /\ token.totalSupply = busc.totalSupply
        /\ token.balances = busc.balances
    BY BUSCFacts, MotorFacts, ApproveSound
  <2> HIDE DEF token
  <2> QED BY <2>1, <2>2, BUSCFacts, MotorFacts DEF BUSCStepOK
<1>3. CASE BUSCTransferFrom(u, from, to, amount)
  <2> DEFINE token == TransferFrom(busc, u, from, to, amount)
  <2>1. busc' = token /\ TransferFromOK(busc, u, from, amount)
    BY <1>3 DEF BUSCTransferFrom
  <2>2. /\ SoundLedger(token) /\ token.totalSupply = busc.totalSupply
        /\ \A a \in Accounts : token.balances[a] =
              busc.balances[a] + (IF a = to THEN amount ELSE 0)
                               - (IF a = from THEN amount ELSE 0)
    BY <2>1, BUSCFacts, MotorFacts, TransferFromSound
  <2> HIDE DEF token
  <2> QED BY <2>1, <2>2, BUSCTransferSound
<1>4. CASE BUSCBurnFrom(u, from, amount)
  <2> DEFINE token == BurnFrom(busc, u, from, amount)
  <2>1. busc' = token /\ BurnFromOK(busc, u, from, amount)
    BY <1>4 DEF BUSCBurnFrom
  <2>2. /\ SoundLedger(token) /\ token.totalSupply = busc.totalSupply - amount
        /\ token.balances[Motor] = busc.balances[Motor] - (IF Motor = from THEN amount ELSE 0)
    BY <2>1, BUSCFacts, MotorFacts, BurnFromSound
  <2> HIDE DEF token
  <2> QED BY <2>1, <2>2, BUSCFacts, UintNat, MotorFacts DEF BUSCStepOK
<1> QED BY <1>1, <1>2, <1>3, <1>4

-----------------------------------------------------------------------------
(* The invariant is inductive, and what every step keeps.                  *)

StrayKept == busc'.balances[Motor] >= busc.balances[Motor]

UnbackedKept ==
    Unbacked(s_BuscAmountMintedByUser', busc') <= Unbacked(s_BuscAmountMintedByUser, busc)

UnlistedKept ==
    \A t \in Tokens \ Listed :
        collateral'[t].balances[Motor] >= collateral[t].balances[Motor]

NothingLeaves ==
    /\ UNCHANGED s_BuscAmountMintedByUser
    /\ busc'.totalSupply <= busc.totalSupply
    /\ \A u \in Users, t \in Tokens :
          s_userCollateralDeposits'[u][t] >= s_userCollateralDeposits[u][t]
    /\ \A t \in Tokens :
          collateral'[t].balances[Motor] >= collateral[t].balances[Motor]

StepOK ==
    /\ IInv'
    /\ StrayKept /\ UnlistedKept /\ UnbackedKept
    /\ ~FeedsFresh => NothingLeaves

\* A health factor is computed only from fresh feeds.
LEMMA HealthNeedsFreshFeeds ==
  ASSUME NEW deposits, NEW debt, HealthFactorOK(deposits, debt)
  PROVE  FeedsFresh
BY DEF HealthFactorOK, CollateralValueOK, FeedsFresh

\* The numbers compared below are natural numbers.
LEMMA NaturalState ==
  ASSUME IInv
  PROVE  /\ \A u \in Users, t \in Tokens : s_userCollateralDeposits[u][t] \in Nat
         /\ \A t \in Tokens : collateral[t].balances[Motor] \in Nat
         /\ busc.totalSupply \in Nat /\ busc.balances[Motor] \in Nat
<1>1. \A u \in Users, t \in Tokens : s_userCollateralDeposits[u][t] \in Nat
  BY UintNat DEF IInv, BooksOK
<1>2. \A t \in Tokens : collateral[t].balances[Motor] \in Nat
  BY BalanceBounded, MotorFacts DEF IInv, BooksOK
<1> QED BY <1>1, <1>2, BUSCFacts, MotorFacts DEF IInv, DebtsOK

\* A step that leaves the books, or the debts, or the world as they are
\* keeps their part of the invariant and everything said about them.
LEMMA BooksUnchanged ==
  ASSUME IInv, UNCHANGED <<s_userCollateralDeposits, collateral>>
  PROVE  /\ BooksOK(s_userCollateralDeposits, collateral)'
         /\ UnlistedKept
         /\ \A u \in Users, t \in Tokens :
               s_userCollateralDeposits'[u][t] >= s_userCollateralDeposits[u][t]
         /\ \A t \in Tokens :
               collateral'[t].balances[Motor] >= collateral[t].balances[Motor]
<1>1. BooksOK(s_userCollateralDeposits, collateral)'
  BY DEF IInv
<1> QED BY <1>1, NaturalState DEF UnlistedKept

LEMMA DebtsUnchanged ==
  ASSUME IInv, UNCHANGED <<s_BuscAmountMintedByUser, busc>>
  PROVE  /\ DebtsOK(s_BuscAmountMintedByUser, busc)'
         /\ StrayKept /\ UnbackedKept /\ busc'.totalSupply <= busc.totalSupply
<1>1. DebtsOK(s_BuscAmountMintedByUser, busc)'
  BY DEF IInv
<1>2. UnbackedKept
  BY UnbackedInt DEF IInv, UnbackedKept
<1> QED BY <1>1, <1>2, NaturalState DEF StrayKept

LEMMA WorldUnchanged ==
  ASSUME IInv, UNCHANGED world
  PROVE  WorldOK'
BY DEF IInv, WorldOK, world

\* Pulling takes only listed tokens, the only ones anybody has deposits of.
LEMMA PulledIsListed ==
  ASSUME IInv, NEW from \in Users, NEW to \in Users, NEW t \in Tokens,
         NEW amount \in Nat, PullOK(from, t, amount),
         collateral' = CollateralPaidOut(to, t, amount),
         amount > 0 \/ t \in Listed
  PROVE  UnlistedKept
<1>1. t \in Listed
  <2>1. t \notin Listed => s_userCollateralDeposits[from][t] = 0
    BY DEF IInv, BooksOK
  <2> QED BY <2>1, NaturalState DEF PullOK
<1>2. \A s \in Tokens \ {t} : collateral'[s] = collateral[s]
  BY PullSound DEF IInv
<1> QED BY <1>1, <1>2, NaturalState DEF UnlistedKept

LEMMA InitInvariant ==
  ASSUME Init
  PROVE  IInv /\ DebtsBacked(s_BuscAmountMintedByUser, busc)
<1>1. BooksOK(s_userCollateralDeposits, collateral)
  <2> DEFINE deposits == [u \in Users |-> [t \in Tokens |-> 0]]
  <2>1. s_userCollateralDeposits = deposits /\ deposits \in [Users -> [Tokens -> Uint]]
    BY UintNat DEF Init
  <2>2. ASSUME NEW t \in Tokens
        PROVE  /\ SoundLedger(collateral[t])
               /\ collateral[t].balances = InitBalance[t]
    <3>1. collateral[t] = NewLedger(InitBalance[t])
      BY DEF Init
    <3>2. InitBalance[t] \in [Accounts -> Uint] /\ SumFunction(InitBalance[t]) \in Uint
      BY MotorAssumption
    <3> QED BY <3>1, <3>2, NewLedgerSound
  <2>3. collateral \in [Tokens -> ERC20Ledger]
    <3>1. \A t \in Tokens : collateral[t] \in ERC20Ledger
      BY <2>2 DEF SoundLedger
    <3>2. collateral = [t \in Tokens |-> collateral[t]]
      BY DEF Init
    <3> QED BY <3>1, <3>2
  <2>4. ASSUME NEW t \in Tokens
        PROVE  SumFunction(DepositsOf(deposits, t)) <= collateral[t].balances[Motor]
    <3>1. DepositsOf(deposits, t) = [u \in Users |-> 0]
      BY DEF DepositsOf
    <3>2. SumFunction(DepositsOf(deposits, t)) = 0
      BY <3>1, SumFunctionZero, MotorFacts
    <3>3. collateral[t].balances[Motor] = 0
      BY <2>2, MotorAssumption
    <3> QED BY <3>2, <3>3
  <2>5. \A u \in Users, t \in Tokens : deposits[u][t] = 0
    OBVIOUS
  <2> HIDE DEF deposits
  <2> QED BY <2>1, <2>2, <2>3, <2>4, <2>5 DEF BooksOK
<1>2. DebtsBacked(s_BuscAmountMintedByUser, busc)
  <2> DEFINE debts == [u \in Users |-> 0]
             none == [a \in Accounts |-> 0]
  <2>1. s_BuscAmountMintedByUser = debts /\ debts \in [Users -> Uint]
    BY UintNat DEF Init
  <2>2. SumFunction(debts) = 0
    BY SumFunctionZero, MotorFacts
  <2>3. SumFunction(none) = 0
    BY SumFunctionZero, AccountsAssumption
  <2>4. none \in [Accounts -> Uint] /\ SumFunction(none) \in Uint
    BY <2>3, UintNat
  <2>5. busc = NewLedger(none)
    BY DEF Init
  <2>6. SoundLedger(busc) /\ busc.balances = none
    <3> HIDE DEF none
    <3> QED BY <2>4, <2>5, NewLedgerSound
  <2>7. busc.totalSupply = 0
    BY <2>3, <2>6 DEF SoundLedger
  <2> HIDE DEF debts, none
  <2> QED BY <2>1, <2>2, <2>6, <2>7 DEF DebtsBacked
<1>3. WorldOK
  BY MotorAssumption DEF Init, WorldOK, PriceFeed, NewRound
<1> QED BY <1>1, <1>2, <1>3, BackedIs DEF IInv

LEMMA MotorCallSound ==
  ASSUME IInv, NEW u \in Users, MotorCall(u)
  PROVE  StepOK
<1> USE DEF StepOK, IInv
<1>1. ASSUME NEW t \in Tokens, NEW a \in CollateralAmounts, DepositCollateral(u, t, a)
      PROVE  StepOK
  <2>1. a \in Uint
    BY MotorAssumption
  <2>2. /\ BooksOK(s_userCollateralDeposits, collateral)' /\ UnlistedKept
        /\ \A w \in Users, s \in Tokens :
              s_userCollateralDeposits'[w][s] >= s_userCollateralDeposits[w][s]
        /\ \A s \in Tokens :
              collateral'[s].balances[Motor] >= collateral[s].balances[Motor]
    BY <1>1, <2>1, DepositSound DEF DepositCollateral, UnlistedKept
  <2>3. /\ DebtsOK(s_BuscAmountMintedByUser, busc)' /\ StrayKept /\ UnbackedKept
        /\ busc'.totalSupply <= busc.totalSupply /\ UNCHANGED s_BuscAmountMintedByUser
    BY <1>1, DebtsUnchanged DEF DepositCollateral
  <2>4. WorldOK'
    BY <1>1, WorldUnchanged DEF DepositCollateral
  <2> QED BY <2>2, <2>3, <2>4 DEF NothingLeaves
<1>2. ASSUME NEW b \in BuscAmounts, MintBUSC(u, b)
      PROVE  StepOK
  <2>1. b \in Uint
    BY MotorAssumption
  <2>2. DebtsOK(s_BuscAmountMintedByUser, busc)' /\ UnbackedKept
        /\ busc'.balances[Motor] = busc.balances[Motor]
    BY <1>2, <2>1, MintBUSCKeeps DEF UnbackedKept, MintBUSC
  <2>3. BooksOK(s_userCollateralDeposits, collateral)' /\ UnlistedKept
    BY <1>2, BooksUnchanged DEF MintBUSC
  <2>4. FeedsFresh
    BY <1>2, HealthNeedsFreshFeeds DEF MintBUSC, MintBUSCOK, HealthChecked
  <2>5. WorldOK'
    BY <1>2, WorldUnchanged DEF MintBUSC
  <2> QED BY <2>2, <2>3, <2>4, <2>5, NaturalState DEF StrayKept
<1>3. ASSUME NEW t \in Tokens, NEW a \in CollateralAmounts, NEW b \in BuscAmounts,
             DepositCollateralAndMintBUSC(u, t, a, b)
      PROVE  StepOK
  <2>1. a \in Uint /\ b \in Uint
    BY MotorAssumption
  <2>2. BooksOK(s_userCollateralDeposits, collateral)' /\ UnlistedKept
    BY <1>3, <2>1, DepositSound DEF DepositCollateralAndMintBUSC, UnlistedKept
  <2>3. DebtsOK(s_BuscAmountMintedByUser, busc)' /\ UnbackedKept
        /\ busc'.balances[Motor] = busc.balances[Motor]
    BY <1>3, <2>1, MintBUSCKeeps DEF UnbackedKept, DepositCollateralAndMintBUSC
  <2>4. FeedsFresh
    BY <1>3, HealthNeedsFreshFeeds
       DEF DepositCollateralAndMintBUSC, MintBUSCOK, HealthChecked
  <2>5. WorldOK'
    BY <1>3, WorldUnchanged DEF DepositCollateralAndMintBUSC
  <2> QED BY <2>2, <2>3, <2>4, <2>5, NaturalState DEF StrayKept
<1>4. ASSUME NEW t \in Tokens, NEW a \in CollateralAmounts, PullCollateral(u, t, a)
      PROVE  StepOK
  <2>1. a \in Nat /\ a > 0 /\ PullOK(u, t, a)
    BY <1>4, MotorAssumption, UintNat DEF PullCollateral, PullCollateralOK
  <2>2. BooksOK(s_userCollateralDeposits, collateral)'
    BY <1>4, <2>1, PullSound DEF PullCollateral
  <2>3. UnlistedKept
    BY <1>4, <2>1, PulledIsListed DEF PullCollateral
  <2>4. DebtsOK(s_BuscAmountMintedByUser, busc)' /\ StrayKept /\ UnbackedKept
    BY <1>4, DebtsUnchanged DEF PullCollateral
  <2>5. FeedsFresh
    BY <1>4, HealthNeedsFreshFeeds DEF PullCollateral, PullCollateralOK, HealthChecked
  <2>6. WorldOK'
    BY <1>4, WorldUnchanged DEF PullCollateral
  <2> QED BY <2>2, <2>3, <2>4, <2>5, <2>6
<1>5. ASSUME NEW b \in BuscAmounts, BurnBUSC(u, b)
      PROVE  StepOK
  <2>1. b \in Uint /\ RepayOK(u, u, b)
    BY <1>5, MotorAssumption DEF BurnBUSC, BurnBUSCOK
  <2>2. DebtsOK(s_BuscAmountMintedByUser, busc)' /\ UnbackedKept
        /\ busc'.balances[Motor] = busc.balances[Motor]
    BY <1>5, <2>1, RepayKeeps DEF UnbackedKept, BurnBUSC
  <2>3. BooksOK(s_userCollateralDeposits, collateral)' /\ UnlistedKept
    BY <1>5, BooksUnchanged DEF BurnBUSC
  <2>4. FeedsFresh
    BY <1>5, HealthNeedsFreshFeeds DEF BurnBUSC, BurnBUSCOK, HealthChecked
  <2>5. WorldOK'
    BY <1>5, WorldUnchanged DEF BurnBUSC
  <2> QED BY <2>2, <2>3, <2>4, <2>5, NaturalState DEF StrayKept
<1>6. ASSUME NEW t \in Tokens, NEW a \in CollateralAmounts, NEW b \in BuscAmounts,
             PullCollateralAndBurnBUSC(u, t, a, b)
      PROVE  StepOK
  <2>1. /\ a \in Nat /\ a > 0 /\ PullOK(u, t, a)
        /\ b \in Uint /\ RepayOK(u, u, b)
    BY <1>6, MotorAssumption, UintNat DEF PullCollateralAndBurnBUSC
  <2>2. BooksOK(s_userCollateralDeposits, collateral)'
    BY <1>6, <2>1, PullSound DEF PullCollateralAndBurnBUSC
  <2>3. UnlistedKept
    BY <1>6, <2>1, PulledIsListed DEF PullCollateralAndBurnBUSC
  <2>4. DebtsOK(s_BuscAmountMintedByUser, busc)' /\ UnbackedKept
        /\ busc'.balances[Motor] = busc.balances[Motor]
    BY <1>6, <2>1, RepayKeeps DEF UnbackedKept, PullCollateralAndBurnBUSC
  <2>5. FeedsFresh
    BY <1>6, HealthNeedsFreshFeeds DEF PullCollateralAndBurnBUSC, HealthChecked
  <2>6. WorldOK'
    BY <1>6, WorldUnchanged DEF PullCollateralAndBurnBUSC
  <2> QED BY <2>2, <2>3, <2>4, <2>5, <2>6, NaturalState DEF StrayKept
<1>7. ASSUME NEW b \in BuscAmounts, NEW t \in Tokens, NEW v \in Users,
             Liquidate(u, t, v, b)
      PROVE  StepOK
  <2>1. /\ b \in Uint /\ RepayOK(v, u, b)
        /\ t \in Listed /\ PullOK(v, t, Seized(t, b)) /\ Liquidatable(v)
    BY <1>7, MotorAssumption DEF Liquidate, LiquidateOK, SeizureOK
  <2>2. Seized(t, b) \in Nat
    <3>1. priceFeed[t].answer \in Int
      BY <2>1 DEF WorldOK, PriceFeed
    <3>2. SeizedCollateralOK(priceFeed[t].answer, b)
      BY <1>7 DEF Liquidate, LiquidateOK, SeizureOK
    <3> QED BY <2>1, <3>1, <3>2, SeizedNat DEF Seized
  <2>3. BooksOK(s_userCollateralDeposits, collateral)'
    BY <1>7, <2>1, <2>2, PullSound DEF Liquidate
  <2>4. UnlistedKept
    BY <1>7, <2>1, <2>2, PulledIsListed DEF Liquidate
  <2>5. DebtsOK(s_BuscAmountMintedByUser, busc)' /\ UnbackedKept
        /\ busc'.balances[Motor] = busc.balances[Motor]
    BY <1>7, <2>1, RepayKeeps DEF UnbackedKept, Liquidate
  <2>6. FeedsFresh
    BY <2>1, HealthNeedsFreshFeeds DEF Liquidatable
  <2>7. WorldOK'
    BY <1>7, WorldUnchanged DEF Liquidate
  <2> QED BY <2>3, <2>4, <2>5, <2>6, <2>7, NaturalState DEF StrayKept
<1> QED BY <1>1, <1>2, <1>3, <1>4, <1>5, <1>6, <1>7 DEF MotorCall

LEMMA TokenCallSound ==
  ASSUME IInv, NEW u \in Users, TokenCall(u)
  PROVE  StepOK
<1> USE DEF StepOK, IInv
<1>1. ASSUME BUSCStepOK(busc'), UNCHANGED <<positions, collateral, world>>
      PROVE  StepOK
  <2>1. DebtsOK(s_BuscAmountMintedByUser, busc)' /\ UnbackedKept
    BY <1>1, SupplyKeeps DEF BUSCStepOK, UnbackedKept, positions
  <2>2. /\ BooksOK(s_userCollateralDeposits, collateral)' /\ UnlistedKept
        /\ \A w \in Users, s \in Tokens :
              s_userCollateralDeposits'[w][s] >= s_userCollateralDeposits[w][s]
        /\ \A s \in Tokens :
              collateral'[s].balances[Motor] >= collateral[s].balances[Motor]
    BY <1>1, BooksUnchanged DEF positions
  <2>3. WorldOK'
    BY <1>1, WorldUnchanged
  <2> QED BY <1>1, <2>1, <2>2, <2>3 DEF BUSCStepOK, StrayKept, NothingLeaves, positions
<1>2. ASSUME BooksOK(s_userCollateralDeposits, collateral'),
             \A s \in Tokens : collateral'[s].balances[Motor] >= collateral[s].balances[Motor],
             UNCHANGED <<positions, busc, world>>
      PROVE  StepOK
  <2>1. BooksOK(s_userCollateralDeposits, collateral)'
    BY <1>2 DEF positions
  <2>2. /\ DebtsOK(s_BuscAmountMintedByUser, busc)' /\ StrayKept /\ UnbackedKept
        /\ busc'.totalSupply <= busc.totalSupply
    BY <1>2, DebtsUnchanged DEF positions
  <2>3. WorldOK'
    BY <1>2, WorldUnchanged
  <2>4. \A w \in Users, s \in Tokens :
              s_userCollateralDeposits'[w][s] >= s_userCollateralDeposits[w][s]
    BY <1>2, NaturalState DEF positions
  <2> QED BY <1>2, <2>1, <2>2, <2>3, <2>4 DEF UnlistedKept, NothingLeaves, positions
<1>3. /\ Motor \in Accounts /\ TransferAmounts \subseteq Uint /\ Approvals \subseteq Uint
      /\ Spenders \subseteq Accounts /\ SoundLedger(busc)
  BY MotorAssumption DEF DebtsOK
<1>4. ASSUME NEW to \in Accounts, NEW a \in TransferAmounts, BUSCTransfer(u, to, a)
      PROVE  StepOK
  BY <1>1, <1>3, <1>4, BUSCCallSound DEF BUSCTransfer
<1>5. ASSUME NEW to \in Accounts, NEW a \in TransferAmounts, NEW from \in Users,
             BUSCTransferFrom(u, from, to, a)
      PROVE  StepOK
  BY <1>1, <1>3, <1>5, BUSCCallSound DEF BUSCTransferFrom
<1>6. ASSUME NEW from \in Users, NEW a \in TransferAmounts, BUSCBurnFrom(u, from, a)
      PROVE  StepOK
  BY <1>1, <1>3, <1>6, BUSCCallSound DEF BUSCBurnFrom
<1>7. ASSUME NEW a \in Approvals, NEW spender \in Spenders, BUSCApprove(u, spender, a)
      PROVE  StepOK
  BY <1>1, <1>3, <1>7, BUSCCallSound DEF BUSCApprove
<1>8. ASSUME NEW to \in Accounts, NEW a \in TransferAmounts, NEW t \in Tokens,
             CollateralTransfer(u, t, to, a)
      PROVE  StepOK
  BY <1>2, <1>3, <1>8, CollateralTransferSound DEF CollateralTransfer
<1>9. ASSUME NEW a \in Approvals, NEW t \in Tokens, CollateralApprove(u, t, a)
      PROVE  StepOK
  BY <1>2, <1>3, <1>9, CollateralApproveSound DEF CollateralApprove
<1> QED BY <1>4, <1>5, <1>6, <1>7, <1>8, <1>9 DEF TokenCall

\* Price rounds, the clock and stuttering touch neither books nor debts.
LEMMA WorldStepSound ==
  ASSUME IInv, UNCHANGED <<positions, busc, collateral>>, WorldOK'
  PROVE  StepOK
<1>1. /\ BooksOK(s_userCollateralDeposits, collateral)' /\ UnlistedKept
      /\ \A u \in Users, t \in Tokens :
            s_userCollateralDeposits'[u][t] >= s_userCollateralDeposits[u][t]
      /\ \A t \in Tokens :
            collateral'[t].balances[Motor] >= collateral[t].balances[Motor]
  BY BooksUnchanged DEF positions
<1>2. /\ DebtsOK(s_BuscAmountMintedByUser, busc)' /\ StrayKept /\ UnbackedKept
      /\ busc'.totalSupply <= busc.totalSupply
  BY DebtsUnchanged DEF positions
<1> QED BY <1>1, <1>2 DEF StepOK, IInv, NothingLeaves, positions

LEMMA StepSound ==
  ASSUME IInv, [Next]_vars
  PROVE  StepOK
<1>1. CASE \E u \in Users : MotorCall(u) \/ TokenCall(u)
  BY <1>1, MotorCallSound, TokenCallSound
<1>2. ASSUME NEW t \in Listed, NEW answer \in Answers, UpdateAnswer(t, answer)
      PROVE  StepOK
  <2>1. WorldOK'
    BY <1>2, MotorAssumption DEF UpdateAnswer, IInv, WorldOK, PriceFeed, NewRound
  <2> QED BY <1>2, <2>1, WorldStepSound DEF UpdateAnswer
<1>5. ASSUME NEW t \in Listed, NEW answer \in Answers, NEW time \in RoundTimes,
             UpdateRoundData(t, answer, time)
      PROVE  StepOK
  <2>1. WorldOK'
    BY <1>5, MotorAssumption DEF UpdateRoundData, IInv, WorldOK, PriceFeed, NewRound
  <2> QED BY <1>5, <2>1, WorldStepSound DEF UpdateRoundData
<1>3. CASE Tick
  <2>1. WorldOK'
    BY <1>3 DEF Tick, IInv, WorldOK
  <2> QED BY <1>3, <2>1, WorldStepSound DEF Tick
<1>4. CASE UNCHANGED vars
  <2>1. WorldOK' /\ UNCHANGED <<positions, busc, collateral>>
    BY <1>4, WorldUnchanged DEF vars
  <2> QED BY <2>1, WorldStepSound
<1> QED BY <1>1, <1>2, <1>3, <1>4, <1>5 DEF Next, WorldStep

-----------------------------------------------------------------------------
(* The theorems                                                            *)

\* What the invariant says in the terms of BUSCmotor.
LEMMA InvariantImplies ==
  ASSUME IInv
  PROVE  TypeOK /\ CustodyCovered /\ BalancesSumToSupply
<1>1. TypeOK
  BY DEF IInv, BooksOK, DebtsOK, WorldOK, SoundLedger, TypeOK
<1>2. CustodyCovered
  BY DEF IInv, BooksOK, DepositsOf, CustodyCovered, TotalDeposits
<1>3. BalancesSumToSupply
  BY DEF IInv, BooksOK, DebtsOK, SoundLedger, BalancesSumToSupply
<1> QED BY <1>1, <1>2, <1>3

(***************************************************************************)
(* The inductive invariant holds in every reachable state.                 *)
(***************************************************************************)
THEOREM Invariance == Spec => []IInv
<1>1. Init => IInv
  BY InitInvariant
<1>2. IInv /\ [Next]_vars => IInv'
  BY StepSound DEF StepOK
<1> QED BY <1>1, <1>2, PTL DEF Spec

\* All BUSC is backed at the start, and no step adds to what is not.
LEMMA BackedInvariance == Spec => []DebtsBacked(s_BuscAmountMintedByUser, busc)
<1>1. Init => DebtsBacked(s_BuscAmountMintedByUser, busc)
  BY InitInvariant
<1>2. /\ IInv /\ DebtsBacked(s_BuscAmountMintedByUser, busc) /\ [Next]_vars
      => DebtsBacked(s_BuscAmountMintedByUser, busc)'
  <2> SUFFICES ASSUME IInv, DebtsBacked(s_BuscAmountMintedByUser, busc), [Next]_vars
               PROVE  DebtsBacked(s_BuscAmountMintedByUser', busc')
    OBVIOUS
  <2>1. IInv' /\ UnbackedKept
    BY StepSound DEF StepOK
  <2>2. /\ DebtsOK(s_BuscAmountMintedByUser, busc) /\ DebtsOK(s_BuscAmountMintedByUser', busc')
        /\ Unbacked(s_BuscAmountMintedByUser, busc) <= 0
    BY <2>1, BackedIs DEF IInv
  <2>3. /\ Unbacked(s_BuscAmountMintedByUser, busc) \in Int
        /\ Unbacked(s_BuscAmountMintedByUser', busc') \in Int
    BY <2>2, UnbackedInt
  <2> QED BY <2>1, <2>2, <2>3, BackedIs DEF UnbackedKept
<1> QED BY <1>1, <1>2, Invariance, PTL DEF Spec

(***************************************************************************)
(* Every variable keeps its type: no checked operation of the motor and no *)
(* unchecked one of the tokens leaves the range of uint256.                *)
(***************************************************************************)
THEOREM TypeCorrect == Spec => []TypeOK
<1>1. IInv => TypeOK
  BY InvariantImplies
<1> QED BY <1>1, Invariance, PTL

(***************************************************************************)
(* depositCollateral, the pulls and liquidate keep every deposit covered   *)
(* by tokens that the motor really holds.                                  *)
(***************************************************************************)
THEOREM Custody == Spec => []CustodyCovered
<1>1. IInv => CustodyCovered
  BY InvariantImplies
<1> QED BY <1>1, Invariance, PTL

(***************************************************************************)
(* mintBUSC, the burns, liquidate and burnFrom keep the supply of BUSC     *)
(* within the sum of the debts.                                            *)
(***************************************************************************)
THEOREM SupplyBacked == Spec => []SupplyBackedByDebt
<1>1. DebtsBacked(s_BuscAmountMintedByUser, busc) => SupplyBackedByDebt
  BY DEF DebtsBacked, SupplyBackedByDebt, TotalDebt
<1> QED BY <1>1, BackedInvariance, PTL

(***************************************************************************)
(* No unchecked block of ERC20.sol ever wraps: in BUSC and in every        *)
(* collateral token the balances add up to the total supply.               *)
(***************************************************************************)
THEOREM LedgersSound == Spec => []BalancesSumToSupply
<1>1. IInv => BalancesSumToSupply
  BY InvariantImplies
<1> QED BY <1>1, Invariance, PTL

(***************************************************************************)
(* _burnBUSC never burns BUSC that somebody sent to the motor.             *)
(***************************************************************************)
THEOREM StrayUntouched == Spec => StrayBUSCUntouched
<1>1. IInv /\ [Next]_vars => [busc'.balances[Motor] >= busc.balances[Motor]]_vars
  BY StepSound DEF StepOK, StrayKept
<1> QED BY <1>1, Invariance, PTL DEF Spec, StrayBUSCUntouched

(***************************************************************************)
(* pullCollateral, though it accepts any token, pays out listed ones only. *)
(***************************************************************************)
THEOREM UnlistedStay == Spec => UnlistedTokensStay
<1>1. IInv /\ [Next]_vars =>
         [\A t \in Tokens \ Listed :
             collateral'[t].balances[Motor] >= collateral[t].balances[Motor]]_vars
  BY StepSound DEF StepOK, UnlistedKept
<1> QED BY <1>1, Invariance, PTL DEF Spec, UnlistedTokensStay

(***************************************************************************)
(* While a feed is stale, stalePriceCheckLatestRoundData stops everything  *)
(* but deposits and what users do among themselves.                        *)
(***************************************************************************)
THEOREM Frozen == Spec => FrozenWhenStale
<1>1. IInv /\ [Next]_vars =>
         [~FeedsFresh =>
            /\ UNCHANGED s_BuscAmountMintedByUser
            /\ busc'.totalSupply <= busc.totalSupply
            /\ \A u \in Users, t \in Tokens :
                  s_userCollateralDeposits'[u][t] >= s_userCollateralDeposits[u][t]
            /\ \A t \in Tokens :
                  collateral'[t].balances[Motor] >= collateral[t].balances[Motor]]_vars
  BY StepSound DEF StepOK, NothingLeaves
<1> QED BY <1>1, Invariance, PTL DEF Spec, FrozenWhenStale

=============================================================================
