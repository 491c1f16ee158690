------------------------ MODULE BUSCmotorStepsProofs ------------------------
(***************************************************************************)
(* Proofs about BUSCmotorSteps: what holds between any two statements of   *)
(* the motor's calls while the callbacks of tokens run, for any depth of   *)
(* nesting.                                                                *)
(*                                                                         *)
(* A revert restores a saved state, so the invariant speaks of the present *)
(* and of every saved state alike: StateOK(state, frames) says that a      *)
(* state is sound while the calls in frames wait, and it must hold of the  *)
(* present with the whole stack and of the state that the i-th call saved  *)
(* with the calls below it.                                                *)
(***************************************************************************)
EXTENDS BUSCmotorSteps, BUSCmotorHealthProofs, SequenceTheorems

Frames == [call : Call, saved : States]

\* What the waiting deposits of t still have to bring.
Owed(call, t) == IF call.fn = "deposit" /\ call.token = t THEN call.amount ELSE 0
DueFrom(frames, t) == SumFunction([i \in DOMAIN frames |-> Owed(frames[i].call, t)])
AllDue(frames) == [t \in Tokens |-> DueFrom(frames, t)]

Locks(call) == call.fn # "pullAndBurn"
Locked(frames) == \E i \in DOMAIN frames : Locks(frames[i].call)
OneLock(frames) ==
    \A i, j \in DOMAIN frames : Locks(frames[i].call) /\ Locks(frames[j].call) => i = j

NoneUnlisted(deposits) == \A u \in Users, t \in Tokens \ Listed : deposits[u][t] = 0

\* BooksOK, but for what is due.
CoveredBooks(deposits, tokens, due) ==
    /\ deposits \in [Users -> [Tokens -> Uint]]
    /\ tokens \in [Tokens -> ERC20Ledger]
    /\ \A t \in Tokens :
          /\ SoundLedger(tokens[t])
          /\ SumFunction(DepositsOf(deposits, t)) <= tokens[t].balances[Motor] + due[t]
    /\ NoneUnlisted(deposits)

StateOK(state, frames) ==
    /\ state \in States
    /\ CoveredBooks(state.deposits, state.collateral, AllDue(frames))
    /\ DebtsBacked(state.debts, state.busc)
    /\ state.entered = Locked(frames)

SavedOK(frames) ==
    \A i \in 1..Len(frames) : StateOK(frames[i].saved, SubSeq(frames, 1, i - 1))

StepsInv ==
    /\ WorldOK
    /\ stack \in Seq(Frames) /\ Len(stack) <= MaxDepth
    /\ StateOK(State, stack)
    /\ SavedOK(stack)
    /\ OneLock(stack)

-----------------------------------------------------------------------------
(* Sequences of frames.                                                    *)

LEMMA AppendFacts ==
  ASSUME NEW S, NEW frames \in Seq(S), NEW x \in S
  PROVE  /\ Append(frames, x) \in Seq(S)
         /\ Len(Append(frames, x)) = Len(frames) + 1
         /\ \A i \in 1..Len(frames) : Append(frames, x)[i] = frames[i]
         /\ Append(frames, x)[Len(frames) + 1] = x
         /\ \A i \in 1..(Len(frames) + 1) :
               SubSeq(Append(frames, x), 1, i - 1) = SubSeq(frames, 1, i - 1)
         /\ SubSeq(frames, 1, Len(frames)) = frames
<1>1. /\ Append(frames, x) \in Seq(S)
      /\ Len(Append(frames, x)) = Len(frames) + 1
      /\ \A i \in 1..Len(frames) : Append(frames, x)[i] = frames[i]
      /\ Append(frames, x)[Len(frames) + 1] = x
  BY AppendProperties
<1>2. ASSUME NEW i \in 1..(Len(frames) + 1)
      PROVE  SubSeq(Append(frames, x), 1, i - 1) = SubSeq(frames, 1, i - 1)
  BY <1>1
<1>3. SubSeq(frames, 1, Len(frames)) = frames
  BY SubSeqFull
<1> QED BY <1>1, <1>2, <1>3

LEMMA FrontFacts ==
  ASSUME NEW S, NEW frames \in Seq(S), frames # <<>>
  PROVE  /\ Front(frames) \in Seq(S) /\ Last(frames) \in S
         /\ Len(Front(frames)) = Len(frames) - 1 /\ Len(frames) \in Nat \ {0}
         /\ frames = Append(Front(frames), Last(frames))
<1>1. Len(frames) \in Nat \ {0}
  BY EmptySeq, LenProperties
<1>2. Front(frames) \in Seq(S) /\ Len(Front(frames)) = Len(frames) - 1
  <2>1. \A m \in 1..Len(frames) + 1, n \in 0..Len(frames) :
            /\ SubSeq(frames, m, n) \in Seq(S)
            /\ Len(SubSeq(frames, m, n)) = IF m <= n THEN n - m + 1 ELSE 0
    BY SubSeqProperties
  <2>2. 1 \in 1..Len(frames) + 1 /\ Len(frames) - 1 \in 0..Len(frames)
    BY <1>1
  <2>3. (IF 1 <= Len(frames) - 1 THEN (Len(frames) - 1) - 1 + 1 ELSE 0) = Len(frames) - 1
    <3> DEFINE n == Len(frames)
    <3>1. n \in Nat /\ n # 0
      BY <1>1
    <3> HIDE DEF n
    <3>2. (IF 1 <= n - 1 THEN (n - 1) - 1 + 1 ELSE 0) = n - 1
      BY <3>1
    <3> QED BY <3>2 DEF n
  <2>4. /\ SubSeq(frames, 1, Len(frames) - 1) \in Seq(S)
        /\ Len(SubSeq(frames, 1, Len(frames) - 1)) = Len(frames) - 1
    BY <2>1, <2>2, <2>3
  <2> QED BY <2>4 DEF Front
<1>3. Last(frames) \in S
  BY <1>1, ElementOfSeq DEF Last
<1>4. /\ Append(Front(frames), Last(frames)) \in Seq(S)
      /\ Len(Append(Front(frames), Last(frames))) = Len(frames)
  BY <1>1, <1>2, <1>3, AppendFacts
<1>5. ASSUME NEW i \in 1..Len(frames)
      PROVE  Append(Front(frames), Last(frames))[i] = frames[i]
  <2>1. CASE i = Len(frames)
    BY <1>1, <1>2, <1>3, <2>1, AppendFacts DEF Last
  <2>2. CASE i # Len(frames)
    <3>1. i \in 1..Len(Front(frames))
      BY <1>1, <1>2, <2>2
    <3>2. Append(Front(frames), Last(frames))[i] = Front(frames)[i]
      BY <1>2, <1>3, <3>1, AppendFacts
    <3>3. Front(frames)[i] = frames[i]
      BY <1>1, <1>2, <3>1 DEF Front
    <3> QED BY <3>2, <3>3
  <2> QED BY <2>1, <2>2
<1>6. frames = Append(Front(frames), Last(frames))
  BY <1>4, <1>5, SeqEqual
<1> QED BY <1>1, <1>2, <1>3, <1>6

-----------------------------------------------------------------------------
(* One call more on the stack.                                             *)

LEMMA OwedNat ==
  ASSUME NEW frame \in Frames, NEW t
  PROVE  Owed(frame.call, t) \in Nat /\ Owed(frame.call, t) \in Int
<1>1. frame.call.amount \in Uint
  BY DEF Frames, Call
<1>2. frame.call.amount \in Nat
  BY <1>1, UintNat
<1> QED BY <1>2 DEF Owed

LEMMA DueNat ==
  ASSUME NEW frames \in Seq(Frames), NEW t \in Tokens
  PROVE  DueFrom(frames, t) \in Nat
<1> DEFINE f == [i \in DOMAIN frames |-> Owed(frames[i].call, t)]
<1>1. DOMAIN frames = 1..Len(frames) /\ IsFiniteSet(DOMAIN frames)
  BY LenProperties, FS_Interval
<1>2. ASSUME NEW i \in DOMAIN frames PROVE Owed(frames[i].call, t) \in Nat
  <2>1. frames[i] \in Frames
    BY <1>1, ElementOfSeq
  <2> QED BY <2>1, OwedNat
<1>3. f \in [DOMAIN frames -> Nat]
  BY <1>2
<1> HIDE DEF f
<1>4. SumFunction(f) \in Nat
  BY <1>1, <1>3, SumFunctionNat
<1> QED BY <1>4 DEF DueFrom, f

LEMMA DueAppend ==
  ASSUME NEW frames \in Seq(Frames), NEW frame \in Frames, NEW t \in Tokens
  PROVE  DueFrom(Append(frames, frame), t) = DueFrom(frames, t) + Owed(frame.call, t)
<1> DEFINE more == Append(frames, frame)
           n == Len(frames) + 1
           S == 1..Len(frames)
           f == [i \in DOMAIN more |-> Owed(more[i].call, t)]
           g == [i \in DOMAIN frames |-> Owed(frames[i].call, t)]
<1>1. /\ more \in Seq(Frames) /\ Len(more) = n /\ more[n] = frame
      /\ \A i \in S : more[i] = frames[i]
      /\ Len(frames) \in Nat
  BY AppendFacts, LenProperties
<1>2. DOMAIN frames = S /\ DOMAIN more = S \cup {n} /\ n \notin S /\ IsFiniteSet(S)
  <2>1. DOMAIN frames = 1..Len(frames) /\ DOMAIN more = 1..(Len(frames) + 1)
    BY <1>1, LenProperties
  <2>2. 1..(Len(frames) + 1) = 1..Len(frames) \cup {Len(frames) + 1}
        /\ Len(frames) + 1 \notin 1..Len(frames)
    BY <1>1
  <2>3. IsFiniteSet(1..Len(frames))
    BY <1>1, FS_Interval
  <2> HIDE DEF more
  <2> QED BY <2>1, <2>2, <2>3
<1>3. ASSUME NEW i \in DOMAIN more PROVE Owed(more[i].call, t) \in Int
  <2> HIDE DEF more
  <2>1. more[i] \in Frames
    <3>1. i \in 1..Len(more)
      BY <1>1, LenProperties
    <3> QED BY <1>1, <3>1, ElementOfSeq
  <2> QED BY <2>1, OwedNat
<1>4. f \in [S \cup {n} -> Int]
  BY <1>2, <1>3
<1>5. f[n] = Owed(frame.call, t)
  BY <1>1, <1>2
<1>6. [i \in S |-> f[i]] = g
  BY <1>1, <1>2
<1> HIDE DEF f, g, S, n, more
<1>7. SumFunction(f) = SumFunction([i \in S |-> f[i]]) + f[n]
  BY <1>2, <1>4, SumFunctionExtend
<1> QED BY <1>5, <1>6, <1>7 DEF DueFrom, f, g, more

LEMMA LocksAppend ==
  ASSUME NEW frames \in Seq(Frames), NEW frame \in Frames
  PROVE  /\ Locked(Append(frames, frame)) <=> Locked(frames) \/ Locks(frame.call)
         /\ OneLock(Append(frames, frame)) <=>
               OneLock(frames) /\ ~(Locked(frames) /\ Locks(frame.call))
<1> DEFINE more == Append(frames, frame)
           n == Len(frames)
<1>1. /\ DOMAIN frames = 1..n /\ DOMAIN more = 1..(n + 1) /\ n \in Nat
      /\ \A i \in 1..n : more[i] = frames[i]
      /\ more[n + 1] = frame
  BY AppendFacts, LenProperties
<1> HIDE DEF more, n
<1>2. Locked(more) <=> Locked(frames) \/ Locks(frame.call)
  BY <1>1 DEF Locked
<1>3. OneLock(more) <=> OneLock(frames) /\ ~(Locked(frames) /\ Locks(frame.call))
  <2>1. ASSUME OneLock(more) PROVE OneLock(frames) /\ ~(Locked(frames) /\ Locks(frame.call))
    BY <1>1, <2>1 DEF OneLock, Locked
  <2>2. ASSUME OneLock(frames), ~(Locked(frames) /\ Locks(frame.call)) PROVE OneLock(more)
    BY <1>1, <2>2 DEF OneLock, Locked
  <2> QED BY <2>1, <2>2
<1> QED BY <1>2, <1>3 DEF more

LEMMA SavedAppend ==
  ASSUME NEW frames \in Seq(Frames), NEW frame \in Frames
  PROVE  SavedOK(Append(frames, frame)) <=>
            SavedOK(frames) /\ StateOK(frame.saved, frames)
<1> DEFINE more == Append(frames, frame)
           n == Len(frames)
<1>1. /\ Len(more) = n + 1 /\ n \in Nat
      /\ \A i \in 1..n : more[i] = frames[i]
      /\ more[n + 1] = frame
      /\ \A i \in 1..(n + 1) : SubSeq(more, 1, i - 1) = SubSeq(frames, 1, i - 1)
      /\ SubSeq(frames, 1, n) = frames
  BY AppendFacts, LenProperties
<1> HIDE DEF more, n
<1>2. ASSUME SavedOK(more) PROVE SavedOK(frames) /\ StateOK(frame.saved, frames)
  <2>1. ASSUME NEW i \in 1..n PROVE StateOK(frames[i].saved, SubSeq(frames, 1, i - 1))
    <3>1. i \in 1..(n + 1)
      BY <1>1
    <3>2. StateOK(more[i].saved, SubSeq(more, 1, i - 1))
      BY <1>1, <1>2, <3>1 DEF SavedOK
    <3> QED BY <1>1, <3>1, <3>2
  <2>2. n + 1 \in 1..(n + 1) /\ (n + 1) - 1 = n
    BY <1>1
  <2>3. StateOK(more[n + 1].saved, SubSeq(more, 1, (n + 1) - 1))
    BY <1>1, <1>2, <2>2 DEF SavedOK
  <2>4. StateOK(frame.saved, frames)
    BY <1>1, <2>2, <2>3
  <2> QED BY <2>1, <2>4 DEF SavedOK, n
<1>3. ASSUME SavedOK(frames), StateOK(frame.saved, frames) PROVE SavedOK(more)
  <2>1. ASSUME NEW i \in 1..(n + 1)
        PROVE  StateOK(more[i].saved, SubSeq(more, 1, i - 1))
    <3>1. CASE i = n + 1
      <4>1. i - 1 = n
        BY <1>1, <3>1
      <4>2. SubSeq(more, 1, i - 1) = frames
        BY <1>1, <4>1
      <4> QED BY <1>1, <1>3, <3>1, <4>2
    <3>2. CASE i # n + 1
      <4>1. i \in 1..n
        BY <1>1, <3>2
      <4> QED BY <1>1, <1>3, <4>1 DEF SavedOK, n
    <3> QED BY <3>1, <3>2
  <2> QED BY <1>1, <2>1 DEF SavedOK
<1> QED BY <1>2, <1>3 DEF more

-----------------------------------------------------------------------------
(* Books that wait for deposits.                                           *)

\* One deposit and the ledger of its token change so that what is held and
\* due grows by no less than the deposit.
LEMMA BooksChange ==
  ASSUME NEW deposits, NEW tokens, NEW due \in [Tokens -> Nat],
         CoveredBooks(deposits, tokens, due),
         NEW u \in Users, NEW t \in Tokens, NEW v \in Uint,
         NEW after \in [Users -> [Tokens -> Uint]], OneDeposit(deposits, after, u, t, v),
         NoneUnlisted(after), NEW token, SoundLedger(token),
         NEW left \in [Tokens -> Nat], \A s \in Tokens \ {t} : left[s] = due[s],
         token.balances[Motor] + left[t] - v
            >= tokens[t].balances[Motor] + due[t] - deposits[u][t]
  PROVE  CoveredBooks(after, [tokens EXCEPT ![t] = token], left)
<1> DEFINE tokens2 == [tokens EXCEPT ![t] = token]
<1>1. /\ deposits \in [Users -> [Tokens -> Uint]] /\ tokens \in [Tokens -> ERC20Ledger]
      /\ \A s \in Tokens :
            /\ SoundLedger(tokens[s]) /\ tokens[s].balances[Motor] \in Nat
            /\ SumFunction(DepositsOf(deposits, s)) <= tokens[s].balances[Motor] + due[s]
  BY BalanceBounded, MotorFacts DEF CoveredBooks
<1>2. /\ tokens2 \in [Tokens -> ERC20Ledger] /\ tokens2[t] = token
      /\ \A s \in Tokens \ {t} : tokens2[s] = tokens[s]
  BY <1>1 DEF SoundLedger
<1>3. /\ SumFunction(DepositsOf(after, t)) =
            SumFunction(DepositsOf(deposits, t)) - deposits[u][t] + v
      /\ SumFunction(DepositsOf(deposits, t)) \in Nat
      /\ \A s \in Tokens \ {t} : DepositsOf(after, s) = DepositsOf(deposits, s)
  BY <1>1, DepositChanged
<1>4. token.balances[Motor] \in Nat /\ v \in Nat /\ deposits[u][t] \in Nat
      /\ left[t] \in Nat /\ due[t] \in Nat
  BY <1>1, UintNat, BalanceBounded, MotorFacts
<1> HIDE DEF tokens2
<1>5. SumFunction(DepositsOf(after, t)) <= token.balances[Motor] + left[t]
  <2> DEFINE a == SumFunction(DepositsOf(deposits, t))
             b == tokens[t].balances[Motor]
             c == token.balances[Motor]
             d == deposits[u][t]
  <2>1. a \in Nat /\ b \in Nat /\ c \in Nat /\ d \in Nat /\ a <= b + due[t]
        /\ c + left[t] - v >= b + due[t] - d
    BY <1>1, <1>3, <1>4
  <2>2. SumFunction(DepositsOf(after, t)) = a - d + v
    BY <1>3
  <2> HIDE DEF a, b, c, d
  <2>3. a - d + v <= c + left[t]
    BY <1>4, <2>1
  <2> QED BY <2>2, <2>3 DEF c
<1>6. ASSUME NEW s \in Tokens
      PROVE  /\ SoundLedger(tokens2[s])
             /\ SumFunction(DepositsOf(after, s)) <= tokens2[s].balances[Motor] + left[s]
  <2>1. CASE s = t
    BY <1>2, <1>5, <2>1
  <2>2. CASE s # t
    BY <1>1, <1>2, <1>3, <2>2
  <2> QED BY <2>1, <2>2
<1> QED BY <1>2, <1>6 DEF CoveredBooks, tokens2

\* A ledger in which the motor holds no less.
LEMMA BooksNotTaken ==
  ASSUME NEW deposits, NEW tokens, NEW due \in [Tokens -> Nat],
         CoveredBooks(deposits, tokens, due), NEW t \in Tokens,
         NEW token, SoundLedger(token),
         token.balances[Motor] >= tokens[t].balances[Motor]
  PROVE  CoveredBooks(deposits, [tokens EXCEPT ![t] = token], due)
<1> DEFINE tokens2 == [tokens EXCEPT ![t] = token]
           total(s) == SumFunction(DepositsOf(deposits, s))
<1>1. /\ deposits \in [Users -> [Tokens -> Uint]] /\ tokens \in [Tokens -> ERC20Ledger]
      /\ \A s \in Tokens :
            /\ SoundLedger(tokens[s]) /\ tokens[s].balances[Motor] \in Nat
            /\ total(s) <= tokens[s].balances[Motor] + due[s]
  BY BalanceBounded, MotorFacts DEF CoveredBooks
<1>2. /\ tokens2 \in [Tokens -> ERC20Ledger] /\ tokens2[t] = token
      /\ \A s \in Tokens \ {t} : tokens2[s] = tokens[s]
  BY <1>1 DEF SoundLedger
<1>3. token.balances[Motor] \in Nat /\ due[t] \in Nat
  BY BalanceBounded, MotorFacts
<1>4. total(t) \in Nat
  <2>1. DepositsOf(deposits, t) \in [Users -> Nat]
    BY <1>1, UintNat DEF DepositsOf
  <2> QED BY <2>1, SumFunctionNat, MotorFacts
<1> HIDE DEF tokens2, total
<1>5. total(t) <= token.balances[Motor] + due[t]
  BY <1>1, <1>3, <1>4
<1>6. \A s \in Tokens : SoundLedger(tokens2[s]) /\ total(s) <= tokens2[s].balances[Motor] + due[s]
  BY <1>1, <1>2, <1>5
<1> QED BY <1>1, <1>2, <1>6 DEF CoveredBooks, tokens2, total

LEMMA PullCovered ==
  ASSUME NEW due \in [Tokens -> Nat],
         CoveredBooks(s_userCollateralDeposits, collateral, due),
         NEW from \in Users, NEW to \in Users, NEW t \in Tokens, NEW amount \in Nat,
         PullOK(from, t, amount)
  PROVE  /\ CoveredBooks(Pulled(from, t, amount), CollateralPaidOut(to, t, amount), due)
         /\ amount \in Uint
<1> DEFINE old == s_userCollateralDeposits
           v == old[from][t] - amount
           token == Transfer(collateral[t], Motor, to, amount)
<1>1. /\ old \in [Users -> [Tokens -> Uint]] /\ SoundLedger(collateral[t])
      /\ amount <= old[from][t] /\ TransferOK(collateral[t], Motor, amount)
  BY DEF CoveredBooks, PullOK
<1>2. old[from][t] \in Uint /\ old[from][t] \in Nat
  BY <1>1, UintNat
<1>3. v \in Uint /\ amount \in Uint
  BY <1>1, <1>2, MathAssumption DEF Uint
<1>4. /\ Pulled(from, t, amount) \in [Users -> [Tokens -> Uint]]
      /\ OneDeposit(old, Pulled(from, t, amount), from, t, v)
  <2>1. Pulled(from, t, amount) = [old EXCEPT ![from][t] = v]
    BY DEF Pulled
  <2> HIDE DEF old, v
  <2> QED BY <1>1, <1>3, <2>1 DEF OneDeposit
<1>5. /\ SoundLedger(token)
      /\ token.balances[Motor] = collateral[t].balances[Motor]
                                    + (IF Motor = to THEN amount ELSE 0)
                                    - (IF Motor = Motor THEN amount ELSE 0)
  BY <1>1, <1>3, MotorFacts, TransferSound
<1>6. collateral[t].balances[Motor] \in Nat /\ due[t] \in Nat
  BY <1>1, BalanceBounded, MotorFacts
<1>7. token.balances[Motor] + due[t] - v
         >= collateral[t].balances[Motor] + due[t] - old[from][t]
  <2>1. token.balances[Motor] = collateral[t].balances[Motor] - amount
    <3> HIDE DEF token
    <3> QED BY <1>5, <1>6, MotorFacts
  <2> DEFINE b == collateral[t].balances[Motor]
             d == old[from][t]
  <2>2. b \in Nat /\ d \in Nat /\ due[t] \in Nat
    BY <1>2, <1>6
  <2> HIDE DEF token, b, d
  <2>3. (b - amount) + due[t] - (d - amount) >= b + due[t] - d
    BY <2>2
  <2> QED BY <2>1, <2>3 DEF b, d
<1>8. CollateralPaidOut(to, t, amount) = [collateral EXCEPT ![t] = token]
  BY DEF CollateralPaidOut
<1> HIDE DEF old, v, token
<1>9. NoneUnlisted(Pulled(from, t, amount))
  <2>1. NoneUnlisted(old)
    BY DEF CoveredBooks, old
  <2>2. t \notin Listed => v = 0
    BY <1>1, <1>2, <2>1 DEF NoneUnlisted, v
  <2> QED BY <1>4, <2>1, <2>2 DEF NoneUnlisted, OneDeposit
<1>10. CoveredBooks(Pulled(from, t, amount), [collateral EXCEPT ![t] = token], due)
  BY <1>3, <1>4, <1>5, <1>7, <1>9, BooksChange DEF old
<1> QED BY <1>3, <1>8, <1>10

-----------------------------------------------------------------------------
(* What the invariant says of the present.                                 *)

LEMMA Present ==
  ASSUME StepsInv
  PROVE  /\ CoveredBooks(s_userCollateralDeposits, collateral, AllDue(stack))
         /\ DebtsBacked(s_BuscAmountMintedByUser, busc)
         /\ entered = Locked(stack) /\ entered \in BOOLEAN
         /\ callers \in SUBSET Users /\ reentered \in BOOLEAN
         /\ AllDue(stack) \in [Tokens -> Nat]
         /\ State \in States
BY DueNat DEF StepsInv, StateOK, State, States, AllDue

\* A state is put together.
LEMMA StateIs ==
  ASSUME CoveredBooks(s_userCollateralDeposits', collateral', AllDue(stack')),
         DebtsBacked(s_BuscAmountMintedByUser', busc'),
         entered' = Locked(stack'), entered' \in BOOLEAN,
         callers' \in SUBSET Users, reentered' \in BOOLEAN
  PROVE  StateOK(State', stack')
<1>1. State' \in States
  BY DEF CoveredBooks, DebtsBacked, SoundLedger, State, States
<1> QED BY <1>1 DEF StateOK, State

LEMMA PushKeeps ==
  ASSUME StepsInv, NEW call \in Call, call.by \in Users, Push(call), WorldOK',
         NEW due, \A t \in Tokens : due[t] = AllDue(stack)[t] + Owed(call, t),
         CoveredBooks(s_userCollateralDeposits', collateral', due),
         DebtsBacked(s_BuscAmountMintedByUser', busc'),
         entered' = (entered \/ Locks(call)), Locks(call) => ~entered
  PROVE  StepsInv'
<1> DEFINE frame == [call |-> call, saved |-> State]
<1>1. /\ frame \in Frames /\ frame.call = call /\ frame.saved = State
      /\ stack \in Seq(Frames) /\ Len(stack) \in Nat
  BY Present, LenProperties DEF Frames, StepsInv
<1> HIDE DEF frame
<1>2. /\ Len(stack) < MaxDepth /\ stack' = Append(stack, frame)
      /\ callers' = callers \cup {call.by} /\ reentered' = (reentered \/ ~Idle)
  BY DEF Push, Called, frame
<1>3. /\ stack' \in Seq(Frames) /\ Len(stack') <= MaxDepth
  BY <1>1, <1>2, AppendFacts, DepthAssumption
<1>4. /\ SavedOK(stack') /\ OneLock(stack')
      /\ entered' = Locked(stack') /\ entered' \in BOOLEAN
  BY <1>1, <1>2, SavedAppend, LocksAppend, Present DEF StepsInv, Locked
<1>5. CoveredBooks(s_userCollateralDeposits', collateral', AllDue(stack'))
  <2>1. ASSUME NEW t \in Tokens PROVE AllDue(stack')[t] = due[t]
    BY <1>1, <1>2, DueAppend DEF AllDue
  <2> QED BY <2>1 DEF CoveredBooks
<1>6. callers' \in SUBSET Users /\ reentered' \in BOOLEAN
  BY <1>2, Present DEF Idle
<1>7. StateOK(State', stack')
  BY <1>4, <1>5, <1>6, StateIs
<1> QED BY <1>3, <1>4, <1>7 DEF StepsInv

\* The waiting call and what lies below it.
LEMMA BelowWaiting ==
  ASSUME StepsInv, ~Idle
  PROVE  /\ Waiting \in Call /\ Last(stack) \in Frames
         /\ Front(stack) \in Seq(Frames) /\ Len(Front(stack)) <= MaxDepth
         /\ SavedOK(Front(stack)) /\ OneLock(Front(stack))
         /\ StateOK(Last(stack).saved, Front(stack))
         /\ entered = (Locked(Front(stack)) \/ Locks(Waiting))
         /\ ~(Locked(Front(stack)) /\ Locks(Waiting))
         /\ AllDue(Front(stack)) \in [Tokens -> Nat]
         /\ \A t \in Tokens :
               AllDue(stack)[t] = AllDue(Front(stack))[t] + Owed(Waiting, t)
<1>1. stack \in Seq(Frames) /\ stack # <<>> /\ Len(stack) <= MaxDepth
  BY DEF StepsInv, Idle
<1>2. /\ Front(stack) \in Seq(Frames) /\ Last(stack) \in Frames
      /\ Len(Front(stack)) = Len(stack) - 1 /\ Len(stack) \in Nat \ {0}
      /\ stack = Append(Front(stack), Last(stack))
  BY <1>1, FrontFacts
<1>3. Len(Front(stack)) <= MaxDepth
  BY <1>1, <1>2, DepthAssumption
<1>4. SavedOK(Front(stack)) /\ StateOK(Last(stack).saved, Front(stack))
  BY <1>2, SavedAppend DEF StepsInv
<1>5. /\ OneLock(Front(stack))
      /\ Locked(stack) <=> Locked(Front(stack)) \/ Locks(Waiting)
      /\ ~(Locked(Front(stack)) /\ Locks(Waiting))
  BY <1>2, LocksAppend DEF StepsInv, Waiting
<1>6. entered = (Locked(Front(stack)) \/ Locks(Waiting))
  BY <1>5, Present DEF Locked, Locks
<1>7. AllDue(Front(stack)) \in [Tokens -> Nat]
  BY <1>2, DueNat DEF AllDue
<1>8. ASSUME NEW t \in Tokens
      PROVE  AllDue(stack)[t] = AllDue(Front(stack))[t] + Owed(Waiting, t)
  BY <1>2, DueAppend DEF AllDue, Waiting
<1>9. Waiting \in Call
  BY <1>2 DEF Waiting, Frames
<1> QED BY <1>2, <1>3, <1>4, <1>5, <1>6, <1>7, <1>8, <1>9

LEMMA PopKeeps ==
  ASSUME StepsInv, ~Idle, Pop, WorldOK',
         CoveredBooks(s_userCollateralDeposits', collateral', AllDue(Front(stack))),
         DebtsBacked(s_BuscAmountMintedByUser', busc'),
         entered' = (entered /\ ~Locks(Waiting))
  PROVE  StepsInv'
<1>1. /\ stack' = Front(stack)
      /\ callers' \in SUBSET Users /\ reentered' \in BOOLEAN
  BY Present DEF Pop
<1>2. entered' = Locked(stack') /\ entered' \in BOOLEAN
  BY <1>1, BelowWaiting DEF Locked, Locks
<1>3. StateOK(State', stack')
  BY <1>1, <1>2, StateIs
<1> QED BY <1>1, <1>3, BelowWaiting DEF StepsInv

LEMMA DirectKeeps ==
  ASSUME StepsInv, NEW u \in Users, Direct(u), WorldOK', UNCHANGED entered,
         CoveredBooks(s_userCollateralDeposits', collateral', AllDue(stack)),
         DebtsBacked(s_BuscAmountMintedByUser', busc')
  PROVE  StepsInv'
<1>1. UNCHANGED stack /\ callers' \in SUBSET Users /\ reentered' \in BOOLEAN
  BY Present DEF Direct, Called, Idle
<1>2. StateOK(State', stack')
  BY <1>1, Present, StateIs
<1> QED BY <1>1, <1>2 DEF StepsInv

-----------------------------------------------------------------------------
(* Calls that start to wait.                                               *)

LEMMA PresentFacts ==
  ASSUME StepsInv
  PROVE  /\ s_userCollateralDeposits \in [Users -> [Tokens -> Uint]]
         /\ s_BuscAmountMintedByUser \in [Users -> Uint]
         /\ \A t \in Tokens : /\ SoundLedger(collateral[t])
                             /\ collateral[t].balances[Motor] \in Nat
                             /\ AllDue(stack)[t] \in Nat
         /\ collateral \in [Tokens -> ERC20Ledger]
BY Present, BalanceBounded, MotorFacts DEF CoveredBooks, DebtsBacked

LEMMA PresentNat ==
  ASSUME StepsInv
  PROVE  /\ \A u \in Users, t \in Tokens : s_userCollateralDeposits[u][t] \in Nat
         /\ \A t \in Tokens : collateral[t].balances[Motor] \in Nat
         /\ busc.totalSupply \in Nat
<1>1. \A u \in Users, t \in Tokens : s_userCollateralDeposits[u][t] \in Uint
  BY PresentFacts
<1> QED BY <1>1, Present, PresentFacts, UintNat, BUSCFacts DEF DebtsBacked

LEMMA NewCallIs ==
  ASSUME NEW fn \in {"pull", "pullAndBurn"}, NEW u \in Users, NEW t \in Tokens,
         NEW amount \in Uint
  PROVE  /\ NewCall(fn, u, t, amount) \in Call
         /\ NewCall(fn, u, t, amount).fn = fn /\ NewCall(fn, u, t, amount).by = u
BY UintNat DEF NewCall, Call

LEMMA EnterDepositKeeps ==
  ASSUME StepsInv, NEW u \in Users, NEW t \in Tokens, NEW amount \in Uint,
         NEW mint \in Uint, EnterDeposit(u, t, amount, mint)
  PROVE  StepsInv'
<1> DEFINE old == s_userCollateralDeposits
           v == old[u][t] + amount
           token == SpendAllowance(collateral[t], u, Motor, amount)
           call == [NewCall("deposit", u, t, amount) EXCEPT !.mint = mint]
           due == [s \in Tokens |-> AllDue(stack)[s] + Owed(call, s)]
<1>1. /\ AddOK(old[u][t], amount) /\ SpendAllowanceOK(collateral[t], u, Motor, amount)
      /\ s_userCollateralDeposits' = Deposited(u, t, amount)
      /\ collateral' = [collateral EXCEPT ![t] = token]
      /\ ~entered /\ entered' = TRUE /\ Push(call) /\ t \in Listed
      /\ UNCHANGED <<s_BuscAmountMintedByUser, busc, world>>
  BY DEF EnterDeposit
<1>2. /\ call \in Call /\ call.by = u /\ call.fn = "deposit" /\ call.token = t
      /\ call.amount = amount
  BY UintNat DEF NewCall, Call
<1>3. /\ old \in [Users -> [Tokens -> Uint]] /\ SoundLedger(collateral[t])
      /\ old[u][t] \in Nat /\ amount \in Nat
      /\ AllDue(stack) \in [Tokens -> Nat] /\ collateral[t].balances[Motor] \in Nat
  BY PresentFacts, Present, UintNat
<1>4. v \in Uint
  BY <1>1, <1>3, MathAssumption DEF AddOK, Uint
<1>5. /\ Deposited(u, t, amount) \in [Users -> [Tokens -> Uint]]
      /\ OneDeposit(old, Deposited(u, t, amount), u, t, v)
  <2>1. Deposited(u, t, amount) = [old EXCEPT ![u][t] = v]
    BY DEF Deposited
  <2> HIDE DEF old, v
  <2> QED BY <1>3, <1>4, <2>1 DEF OneDeposit
<1>6. SoundLedger(token) /\ token.balances = collateral[t].balances
  BY <1>1, <1>3, MotorFacts, SpendAllowanceSound
<1>7. \A s \in Tokens : Owed(call, s) = IF s = t THEN amount ELSE 0
  <2> HIDE DEF call
  <2> QED BY <1>2 DEF Owed
<1> HIDE DEF call
<1>8. /\ due \in [Tokens -> Nat] /\ due[t] = AllDue(stack)[t] + amount
      /\ \A s \in Tokens \ {t} : due[s] = AllDue(stack)[s]
  BY <1>3, <1>7
<1>9. token.balances[Motor] + due[t] - v
         >= collateral[t].balances[Motor] + AllDue(stack)[t] - old[u][t]
  <2> DEFINE b == collateral[t].balances[Motor]
             d == old[u][t]
             e == AllDue(stack)[t]
  <2>1. b \in Nat /\ d \in Nat /\ e \in Nat
    BY <1>3
  <2> HIDE DEF b, d, e
  <2>2. b + (e + amount) - (d + amount) >= b + e - d
    BY <1>3, <2>1
  <2> HIDE DEF token, due
  <2> QED BY <1>6, <1>8, <2>2 DEF b, d, e
<1>10. CoveredBooks(old, collateral, AllDue(stack))
  BY Present
<1> HIDE DEF old, v, token, due
<1>11. CoveredBooks(Deposited(u, t, amount), [collateral EXCEPT ![t] = token], due)
  <2>1. NoneUnlisted(Deposited(u, t, amount))
    BY <1>1, <1>5, <1>10 DEF CoveredBooks, NoneUnlisted, OneDeposit
  <2> QED BY <1>3, <1>4, <1>5, <1>6, <1>8, <1>9, <1>10, <2>1, BooksChange
<1>12. DebtsBacked(s_BuscAmountMintedByUser', busc') /\ WorldOK'
  BY <1>1, Present DEF world, StepsInv, WorldOK
<1>13. CoveredBooks(s_userCollateralDeposits', collateral', due)
  BY <1>1, <1>11
<1>14. Locks(call)
  BY <1>2 DEF Locks
<1>15. \A s \in Tokens : due[s] = AllDue(stack)[s] + Owed(call, s)
  BY DEF due
<1>16. entered' = (entered \/ Locks(call)) /\ (Locks(call) => ~entered)
  BY <1>1, <1>14
<1> QED BY <1>1, <1>2, <1>12, <1>13, <1>15, <1>16, PushKeeps

\* A call that pulls collateral out owes nothing while it waits.
LEMMA PullPushKeeps ==
  ASSUME StepsInv, NEW call \in Call, call.fn # "deposit", Push(call), UNCHANGED world,
         NEW from \in Users, NEW to \in Users, NEW t \in Tokens, NEW amount \in Nat,
         PullOK(from, t, amount),
         s_userCollateralDeposits' = Pulled(from, t, amount),
         collateral' = CollateralPaidOut(to, t, amount),
         DebtsBacked(s_BuscAmountMintedByUser', busc'),
         entered' = (entered \/ Locks(call)), Locks(call) => ~entered
  PROVE  StepsInv'
<1>1. CoveredBooks(s_userCollateralDeposits', collateral', AllDue(stack))
  BY Present, PullCovered
<1>2. \A s \in Tokens : AllDue(stack)[s] = AllDue(stack)[s] + Owed(call, s)
  BY Present DEF Owed
<1>3. WorldOK' /\ call.by \in Users
  BY DEF world, StepsInv, WorldOK, Call
<1> QED BY <1>1, <1>2, <1>3, PushKeeps

LEMMA EnterPullKeeps ==
  ASSUME StepsInv, NEW u \in Users, NEW t \in Tokens, NEW amount \in Uint,
         EnterPull(u, t, amount)
  PROVE  StepsInv'
<1> DEFINE call == NewCall("pull", u, t, amount)
<1>1. call \in Call /\ call.fn = "pull"
  BY NewCallIs
<1>2. Locks(call)
  BY <1>1 DEF Locks
<1>3. /\ Push(call) /\ ~entered /\ entered' = TRUE /\ PullOK(u, t, amount)
      /\ s_userCollateralDeposits' = Pulled(u, t, amount)
      /\ collateral' = CollateralPaidOut(u, t, amount) /\ UNCHANGED world
      /\ UNCHANGED <<s_BuscAmountMintedByUser, busc>>
  BY DEF EnterPull
<1>4. DebtsBacked(s_BuscAmountMintedByUser', busc')
  BY <1>3, Present
<1>5. entered' = (entered \/ Locks(call)) /\ (Locks(call) => ~entered)
  BY <1>2, <1>3
<1>6. amount \in Nat
  BY UintNat
<1> HIDE DEF call
<1> QED BY <1>1, <1>3, <1>4, <1>5, <1>6, PullPushKeeps

LEMMA EnterPullAndBurnKeeps ==
  ASSUME StepsInv, NEW u \in Users, NEW t \in Tokens, NEW amount \in Uint,
         NEW burn \in Uint, EnterPullAndBurn(u, t, amount, burn)
  PROVE  StepsInv'
<1> DEFINE call == NewCall("pullAndBurn", u, t, amount)
<1>1. call \in Call /\ call.fn = "pullAndBurn"
  BY NewCallIs
<1>2. ~Locks(call)
  BY <1>1 DEF Locks
<1>3. /\ Push(call) /\ UNCHANGED entered /\ PullOK(u, t, amount)
      /\ s_userCollateralDeposits' = Pulled(u, t, amount)
      /\ collateral' = CollateralPaidOut(u, t, amount) /\ UNCHANGED world
      /\ RepayOK(u, u, burn) /\ s_BuscAmountMintedByUser' = Repaid(u, burn)
      /\ busc' = BUSCBurned(u, burn)
  BY DEF EnterPullAndBurn
<1>4. DebtsBacked(s_BuscAmountMintedByUser', busc')
  BY <1>3, Present, RepaySound
<1>5. entered' = (entered \/ Locks(call)) /\ (Locks(call) => ~entered)
  BY <1>2, <1>3, Present
<1>6. amount \in Nat
  BY UintNat
<1> HIDE DEF call
<1> QED BY <1>1, <1>3, <1>4, <1>5, <1>6, PullPushKeeps

LEMMA EnterLiquidateKeeps ==
  ASSUME StepsInv, NEW l \in Users, NEW t \in Tokens, NEW u \in Users,
         NEW debt \in Uint, EnterLiquidate(l, t, u, debt)
  PROVE  StepsInv'
<1> DEFINE amount == Seized(t, debt)
           call == [NewCall("liquidate", l, t, amount) EXCEPT
                       !.user = u, !.debt = debt, !.health = HealthOf(u)]
<1>1. /\ Push(call) /\ ~entered /\ entered' = TRUE /\ PullOK(u, t, amount)
      /\ t \in Listed /\ SeizedCollateralOK(priceFeed[t].answer, debt)
      /\ s_userCollateralDeposits' = Pulled(u, t, amount)
      /\ collateral' = CollateralPaidOut(l, t, amount) /\ UNCHANGED world
      /\ UNCHANGED <<s_BuscAmountMintedByUser, busc>>
  BY DEF EnterLiquidate
<1>2. amount \in Nat
  BY <1>1, SeizedNat DEF StepsInv, WorldOK, PriceFeed, Seized
<1>3. amount \in Uint
  <2> HIDE DEF amount
  <2> QED BY <1>1, <1>2, Present, PullCovered
<1>4. HealthOf(u) \in Nat
  <2>1. ASSUME NEW s \in Listed PROVE s_userCollateralDeposits[u][s] \in Nat
    <3>1. s \in Tokens
      BY MotorAssumption
    <3>2. s_userCollateralDeposits[u][s] \in Uint
      BY <3>1, PresentFacts
    <3> QED BY <3>2, UintNat
  <2>2. s_BuscAmountMintedByUser[u] \in Nat
    BY PresentFacts, UintNat
  <2>3. WorldOK
    BY DEF StepsInv
  <2> QED BY <2>1, <2>2, <2>3, HealthNat, HealthOfIs
<1>5. call \in Call /\ call.fn = "liquidate"
  <2> HIDE DEF amount
  <2> QED BY <1>3, <1>4, UintNat DEF NewCall, Call
<1>6. DebtsBacked(s_BuscAmountMintedByUser', busc')
  BY <1>1, Present
<1> HIDE DEF call, amount
<1>7. Locks(call)
  BY <1>5 DEF Locks
<1>8. entered' = (entered \/ Locks(call)) /\ (Locks(call) => ~entered)
  BY <1>1, <1>7
<1> QED BY <1>1, <1>2, <1>5, <1>6, <1>8, PullPushKeeps

-----------------------------------------------------------------------------
(* Calls that go on after their callback.                                  *)

\* The tokens of a waiting deposit arrive: what was due is held.
LEMMA ArrivalCovered ==
  ASSUME StepsInv, ~Idle, Waiting.fn = "deposit", TokensArrive(Waiting)
  PROVE  /\ CoveredBooks(s_userCollateralDeposits, collateral', AllDue(Front(stack)))
         /\ \A s \in Tokens : collateral'[s].balances[Motor] >= collateral[s].balances[Motor]
<1> DEFINE old == s_userCollateralDeposits
           u == Waiting.by
           t == Waiting.token
           amount == Waiting.amount
           token == Transfer(collateral[t], u, Motor, amount)
           left == AllDue(Front(stack))
<1>1. u \in Users /\ t \in Tokens /\ amount \in Uint
  BY BelowWaiting DEF Call
<1>2. TransferOK(collateral[t], u, amount) /\ collateral' = [collateral EXCEPT ![t] = token]
  BY DEF TokensArrive
<1>3. /\ \A s \in Tokens : AllDue(stack)[s] = left[s] + (IF s = t THEN amount ELSE 0)
      /\ left \in [Tokens -> Nat] /\ AllDue(stack) \in [Tokens -> Nat]
  BY BelowWaiting, Present DEF Owed
<1>4. /\ old \in [Users -> [Tokens -> Uint]] /\ SoundLedger(collateral[t])
      /\ collateral[t].balances[Motor] \in Nat /\ amount \in Nat
  BY <1>1, PresentFacts, UintNat
<1>5. old[u][t] \in Uint /\ old[u][t] \in Nat
  <2> HIDE DEF old, u, t
  <2>1. old[u][t] \in Uint
    BY <1>1, <1>4
  <2> QED BY <2>1, UintNat
<1>6. /\ SoundLedger(token)
      /\ token.balances[Motor] = collateral[t].balances[Motor]
                                    + (IF Motor = Motor THEN amount ELSE 0)
                                    - (IF Motor = u THEN amount ELSE 0)
  <2>1. u \in Accounts /\ Motor \in Accounts
    BY <1>1, MotorFacts
  <2>2. TransferOK(collateral[t], u, amount)
    BY <1>2
  <2> HIDE DEF u, t, amount
  <2>3. /\ SoundLedger(token)
        /\ \A a \in Accounts : token.balances[a] =
              collateral[t].balances[a] + (IF a = Motor THEN amount ELSE 0)
                                        - (IF a = u THEN amount ELSE 0)
    BY <1>1, <1>4, <2>1, <2>2, TransferSound
  <2> HIDE DEF token
  <2> QED BY <2>1, <2>3
<1>7. CoveredBooks(old, collateral, AllDue(stack))
  BY Present
<1> HIDE DEF old, u, t, amount, token, left
<1>8. token.balances[Motor] = collateral[t].balances[Motor] + amount
  BY <1>1, <1>4, <1>6, MotorFacts
<1>9. OneDeposit(old, old, u, t, old[u][t])
  BY DEF OneDeposit
<1>10. /\ left[t] \in Nat /\ AllDue(stack)[t] = left[t] + amount
       /\ \A s \in Tokens \ {t} : left[s] = AllDue(stack)[s]
  BY <1>1, <1>3
<1>11. token.balances[Motor] + left[t] - old[u][t]
          >= collateral[t].balances[Motor] + AllDue(stack)[t] - old[u][t]
  <2> DEFINE b == collateral[t].balances[Motor]
  <2>1. b \in Nat
    BY <1>4
  <2> HIDE DEF b
  <2>2. (b + amount) + left[t] - old[u][t] >= b + (left[t] + amount) - old[u][t]
    BY <1>4, <1>5, <1>10, <2>1
  <2> QED BY <1>8, <1>10, <2>2 DEF b
<1>12. CoveredBooks(old, [collateral EXCEPT ![t] = token], left)
  <2>1. NoneUnlisted(old)
    BY <1>7 DEF CoveredBooks
  <2> QED BY <1>1, <1>3, <1>4, <1>5, <1>6, <1>7, <1>9, <1>10, <1>11, <2>1, BooksChange
<1>13. \A s \in Tokens : collateral'[s].balances[Motor] >= collateral[s].balances[Motor]
  BY <1>1, <1>2, <1>4, <1>8, PresentFacts
<1> QED BY <1>2, <1>12, <1>13 DEF old, left

\* A call that owes nothing leaves the books as the callback left them.
LEMMA NothingDue ==
  ASSUME StepsInv, ~Idle, Waiting.fn # "deposit", UNCHANGED s_userCollateralDeposits,
         UNCHANGED collateral
  PROVE  CoveredBooks(s_userCollateralDeposits', collateral', AllDue(Front(stack)))
<1>1. \A t \in Tokens : AllDue(stack)[t] = AllDue(Front(stack))[t]
  BY BelowWaiting DEF Owed
<1>2. CoveredBooks(s_userCollateralDeposits, collateral, AllDue(stack))
  BY Present
<1>3. CoveredBooks(s_userCollateralDeposits, collateral, AllDue(Front(stack)))
  BY <1>1, <1>2 DEF CoveredBooks
<1> QED BY <1>3

LEMMA LeaveDepositKeeps ==
  ASSUME StepsInv, LeaveDeposit
  PROVE  StepsInv'
<1>1. /\ ~Idle /\ Waiting.fn = "deposit" /\ TokensArrive(Waiting) /\ Pop
      /\ entered' = FALSE /\ UNCHANGED <<positions, busc, world>>
  BY DEF LeaveDeposit
<1>2. CoveredBooks(s_userCollateralDeposits', collateral', AllDue(Front(stack)))
  BY <1>1, ArrivalCovered DEF positions
<1>3. DebtsBacked(s_BuscAmountMintedByUser', busc') /\ WorldOK'
  BY <1>1, Present DEF world, positions, StepsInv, WorldOK
<1>4. entered' = (entered /\ ~Locks(Waiting))
  BY <1>1 DEF Locks
<1> QED BY <1>1, <1>2, <1>3, <1>4, PopKeeps

LEMMA LeaveDepositAndMintKeeps ==
  ASSUME StepsInv, LeaveDepositAndMint
  PROVE  StepsInv'
<1> DEFINE u == Waiting.by
           mint == Waiting.mint
<1>1. /\ ~Idle /\ Waiting.fn = "deposit" /\ TokensArrive(Waiting) /\ Pop
      /\ MintBUSCOK(u, s_userCollateralDeposits[u], mint)
      /\ s_BuscAmountMintedByUser' = [s_BuscAmountMintedByUser EXCEPT ![u] = @ + mint]
      /\ busc' = Mint(busc, u, mint)
      /\ entered' = FALSE /\ UNCHANGED <<s_userCollateralDeposits, world>>
  BY DEF LeaveDepositAndMint
<1>2. CoveredBooks(s_userCollateralDeposits', collateral', AllDue(Front(stack)))
  BY <1>1, ArrivalCovered
<1>3. u \in Users /\ mint \in Uint
  BY <1>1, BelowWaiting DEF Call
<1>4. DebtsBacked(s_BuscAmountMintedByUser, busc)
  BY Present
<1> HIDE DEF u, mint
<1>5. DebtsBacked(s_BuscAmountMintedByUser', busc')
  BY <1>1, <1>3, <1>4, MintBUSCSound
<1>6. WorldOK'
  BY <1>1 DEF world, StepsInv, WorldOK
<1>7. entered' = (entered /\ ~Locks(Waiting))
  BY <1>1 DEF Locks
<1> QED BY <1>1, <1>2, <1>5, <1>6, <1>7, PopKeeps

LEMMA LeavePullKeeps ==
  ASSUME StepsInv, LeavePull \/ LeavePullAndBurn
  PROVE  StepsInv'
<1>1. /\ ~Idle /\ Waiting.fn # "deposit" /\ Pop /\ UNCHANGED vars
      /\ entered' = (entered /\ ~Locks(Waiting))
  BY Present DEF LeavePull, LeavePullAndBurn, Locks
<1>2. CoveredBooks(s_userCollateralDeposits', collateral', AllDue(Front(stack)))
  BY <1>1, NothingDue DEF vars, positions
<1>3. DebtsBacked(s_BuscAmountMintedByUser', busc') /\ WorldOK'
  BY <1>1, Present DEF vars, world, positions, StepsInv, WorldOK
<1> QED BY <1>1, <1>2, <1>3, PopKeeps

LEMMA LeaveLiquidateKeeps ==
  ASSUME StepsInv, LeaveLiquidate
  PROVE  StepsInv'
<1> DEFINE l == Waiting.by
           u == Waiting.user
           debt == Waiting.debt
<1>1. /\ ~Idle /\ Waiting.fn = "liquidate" /\ Pop
      /\ RepayOK(u, l, debt)
      /\ s_BuscAmountMintedByUser' = Repaid(u, debt)
      /\ busc' = BUSCBurned(l, debt)
      /\ entered' = FALSE /\ UNCHANGED <<s_userCollateralDeposits, collateral, world>>
  BY DEF LeaveLiquidate
<1>2. CoveredBooks(s_userCollateralDeposits', collateral', AllDue(Front(stack)))
  BY <1>1, NothingDue
<1>3. u \in Users /\ l \in Users /\ debt \in Uint
  BY <1>1, BelowWaiting DEF Call
<1>4. DebtsBacked(s_BuscAmountMintedByUser, busc)
  BY Present
<1> HIDE DEF u, l, debt
<1>5. DebtsBacked(s_BuscAmountMintedByUser', busc')
  BY <1>1, <1>3, <1>4, RepaySound
<1>6. WorldOK'
  BY <1>1 DEF world, StepsInv, WorldOK
<1>7. entered' = (entered /\ ~Locks(Waiting))
  BY <1>1 DEF Locks
<1> QED BY <1>1, <1>2, <1>5, <1>6, <1>7, PopKeeps

-----------------------------------------------------------------------------
(* Calls that wait for no callback.                                        *)

LEMMA LockedMintKeeps ==
  ASSUME StepsInv, NEW u \in Users, NEW amount \in Uint, LockedMint(u, amount)
  PROVE  StepsInv'
<1>1. /\ MintBUSCOK(u, s_userCollateralDeposits[u], amount)
      /\ s_BuscAmountMintedByUser' = [s_BuscAmountMintedByUser EXCEPT ![u] = @ + amount]
      /\ busc' = Mint(busc, u, amount)
      /\ Direct(u) /\ UNCHANGED entered
      /\ UNCHANGED <<s_userCollateralDeposits, collateral, world>>
  BY DEF LockedMint, MintBUSC
<1>2. DebtsBacked(s_BuscAmountMintedByUser', busc')
  BY <1>1, Present, MintBUSCSound
<1>3. CoveredBooks(s_userCollateralDeposits', collateral', AllDue(stack))
  BY <1>1, Present
<1>4. WorldOK'
  BY <1>1 DEF world, StepsInv, WorldOK
<1> QED BY <1>1, <1>2, <1>3, <1>4, DirectKeeps

LEMMA DirectBurnKeeps ==
  ASSUME StepsInv, NEW u \in Users, NEW amount \in Uint, DirectBurn(u, amount)
  PROVE  StepsInv'
<1>1. /\ RepayOK(u, u, amount)
      /\ s_BuscAmountMintedByUser' = Repaid(u, amount)
      /\ busc' = BUSCBurned(u, amount)
      /\ Direct(u) /\ UNCHANGED entered
      /\ UNCHANGED <<s_userCollateralDeposits, collateral, world>>
  BY DEF DirectBurn, BurnBUSC, BurnBUSCOK
<1>2. DebtsBacked(s_BuscAmountMintedByUser', busc')
  BY <1>1, Present, RepaySound
<1>3. CoveredBooks(s_userCollateralDeposits', collateral', AllDue(stack))
  BY <1>1, Present
<1>4. WorldOK'
  BY <1>1 DEF world, StepsInv, WorldOK
<1> QED BY <1>1, <1>2, <1>3, <1>4, DirectKeeps

\* A call on BUSC, and one on a collateral token: they keep the invariant and
\* take nothing from the motor.
LEMMA BUSCCallKeeps ==
  ASSUME StepsInv, NEW u \in Users, Direct(u), UNCHANGED <<entered, positions>>,
         UNCHANGED <<collateral, world>>, BUSCStepOK(busc')
  PROVE  StepsInv' /\ NothingLeaves
<1>1. DebtsBacked(s_BuscAmountMintedByUser', busc')
  BY Present, SupplyNotRaised DEF BUSCStepOK, positions
<1>2. CoveredBooks(s_userCollateralDeposits', collateral', AllDue(stack))
  BY Present DEF positions
<1>3. WorldOK'
  BY DEF world, StepsInv, WorldOK
<1>4. NothingLeaves
  BY PresentNat DEF NothingLeaves, BUSCStepOK, positions
<1> QED BY <1>1, <1>2, <1>3, <1>4, DirectKeeps

LEMMA CollateralCallKeeps ==
  ASSUME StepsInv, NEW u \in Users, Direct(u), UNCHANGED <<entered, positions>>,
         UNCHANGED <<busc, world>>, NEW t \in Tokens, NEW token, SoundLedger(token),
         token.balances[Motor] >= collateral[t].balances[Motor],
         collateral' = [collateral EXCEPT ![t] = token]
  PROVE  StepsInv' /\ NothingLeaves
<1>1. DebtsBacked(s_BuscAmountMintedByUser', busc')
  BY Present DEF positions
<1>2. CoveredBooks(s_userCollateralDeposits', collateral', AllDue(stack))
  BY Present, BooksNotTaken DEF positions
<1>3. WorldOK'
  BY DEF world, StepsInv, WorldOK
<1>4. \A s \in Tokens : collateral'[s].balances[Motor] >= collateral[s].balances[Motor]
  BY PresentFacts
<1>5. NothingLeaves
  BY <1>4, PresentNat DEF NothingLeaves, positions
<1> QED BY <1>1, <1>2, <1>3, <1>5, DirectKeeps

LEMMA DirectTokenCallKeeps ==
  ASSUME StepsInv, NEW u \in Users, DirectTokenCall(u)
  PROVE  StepsInv' /\ NothingLeaves
<1>1. Direct(u) /\ UNCHANGED entered /\ TokenCall(u)
  BY DEF DirectTokenCall
<1>2. DebtsBacked(s_BuscAmountMintedByUser, busc)
  BY Present
<1>3. /\ TransferAmounts \subseteq Uint /\ Approvals \subseteq Uint
      /\ Spenders \subseteq Accounts /\ SoundLedger(busc)
  BY MotorAssumption, Present DEF DebtsBacked
<1>4. ASSUME NEW to \in Accounts, NEW a \in TransferAmounts, BUSCTransfer(u, to, a)
      PROVE  StepsInv' /\ NothingLeaves
  BY <1>1, <1>2, <1>3, <1>4, BUSCCallSound, BUSCCallKeeps DEF BUSCTransfer
<1>5. ASSUME NEW to \in Accounts, NEW a \in TransferAmounts, NEW from \in Users,
             BUSCTransferFrom(u, from, to, a)
      PROVE  StepsInv' /\ NothingLeaves
  BY <1>1, <1>2, <1>3, <1>5, BUSCCallSound, BUSCCallKeeps DEF BUSCTransferFrom
<1>6. ASSUME NEW from \in Users, NEW a \in TransferAmounts, BUSCBurnFrom(u, from, a)
      PROVE  StepsInv' /\ NothingLeaves
  BY <1>1, <1>2, <1>3, <1>6, MotorFacts, BUSCCallSound, BUSCCallKeeps DEF BUSCBurnFrom
<1>7. ASSUME NEW a \in Approvals, NEW spender \in Spenders, BUSCApprove(u, spender, a)
      PROVE  StepsInv' /\ NothingLeaves
  BY <1>1, <1>2, <1>3, <1>7, BUSCCallSound, BUSCCallKeeps DEF BUSCApprove
<1>8. ASSUME NEW to \in Accounts, NEW a \in TransferAmounts, NEW t \in Tokens,
             CollateralTransfer(u, t, to, a)
      PROVE  StepsInv' /\ NothingLeaves
  <2> DEFINE token == Transfer(collateral[t], u, to, a)
  <2>1. /\ TransferOK(collateral[t], u, a) /\ UNCHANGED <<positions, busc, world>>
        /\ collateral' = [collateral EXCEPT ![t] = token]
    BY <1>8 DEF CollateralTransfer
  <2>2. /\ SoundLedger(collateral[t]) /\ collateral[t].balances[Motor] \in Nat
        /\ a \in Uint /\ a \in Nat
    BY <1>3, PresentFacts, UintNat
  <2>3. /\ SoundLedger(token)
        /\ token.balances[Motor] = collateral[t].balances[Motor]
                                      + (IF Motor = to THEN a ELSE 0)
                                      - (IF Motor = u THEN a ELSE 0)
    BY <2>1, <2>2, MotorFacts, TransferSound
  <2> HIDE DEF token
  <2>4. token.balances[Motor] >= collateral[t].balances[Motor]
    BY <2>2, <2>3, MotorFacts
  <2> QED BY <1>1, <2>1, <2>3, <2>4, CollateralCallKeeps
<1>9. ASSUME NEW a \in Approvals, NEW t \in Tokens, CollateralApprove(u, t, a)
      PROVE  StepsInv' /\ NothingLeaves
  <2> DEFINE token == Approve(collateral[t], u, Motor, a)
  <2>1. /\ UNCHANGED <<positions, busc, world>>
        /\ collateral' = [collateral EXCEPT ![t] = token]
    BY <1>9 DEF CollateralApprove
  <2>2. /\ SoundLedger(collateral[t]) /\ collateral[t].balances[Motor] \in Nat
        /\ a \in Uint
    BY <1>3, PresentFacts
  <2>3. SoundLedger(token) /\ token.balances = collateral[t].balances
    BY <2>2, MotorFacts, ApproveSound
  <2> HIDE DEF token
  <2>4. token.balances[Motor] >= collateral[t].balances[Motor]
    BY <2>2, <2>3
  <2> QED BY <1>1, <2>1, <2>3, <2>4, CollateralCallKeeps
<1> QED BY <1>1, <1>4, <1>5, <1>6, <1>7, <1>8, <1>9 DEF TokenCall

-----------------------------------------------------------------------------
(* Reverts, prices and time.                                               *)

LEMMA RevertKeeps ==
  ASSUME StepsInv, Revert
  PROVE  StepsInv'
<1> DEFINE saved == Last(stack).saved
<1>1. /\ ~Idle /\ stack' = Front(stack) /\ UNCHANGED world
      /\ s_userCollateralDeposits' = saved.deposits
      /\ s_BuscAmountMintedByUser' = saved.debts
      /\ busc' = saved.busc /\ collateral' = saved.collateral
      /\ entered' = saved.entered /\ callers' = saved.callers
      /\ reentered' = saved.reentered
  BY DEF Revert
<1>2. StateOK(saved, Front(stack))
  BY <1>1, BelowWaiting
<1> HIDE DEF saved
<1>3. State' = saved
  <2>1. saved \in States
    BY <1>2 DEF StateOK
  <2> QED BY <1>1, <2>1 DEF State, States
<1>4. WorldOK'
  BY <1>1 DEF world, StepsInv, WorldOK
<1> QED BY <1>1, <1>2, <1>3, <1>4, BelowWaiting DEF StepsInv

LEMMA WorldMovesKeeps ==
  ASSUME StepsInv, WorldMoves \/ UNCHANGED allVars
  PROVE  StepsInv'
<1>1. /\ UNCHANGED <<positions, busc, collateral>>
      /\ UNCHANGED <<entered, stack, callers, reentered>>
  BY DEF WorldMoves, WorldStep, UpdateAnswer, UpdateRoundData, Tick, allVars, vars
<1>2. WorldOK'
  <2>1. priceFeed \in [Listed -> PriceFeed] /\ now \in Nat
    BY DEF StepsInv, WorldOK
  <2>2. ASSUME NEW t \in Listed, NEW answer \in Answers, UpdateAnswer(t, answer)
        PROVE  WorldOK'
    BY <2>1, <2>2, MotorAssumption DEF UpdateAnswer, WorldOK, PriceFeed, NewRound
  <2>3. ASSUME NEW t \in Listed, NEW answer \in Answers, NEW time \in RoundTimes,
               UpdateRoundData(t, answer, time)
        PROVE  WorldOK'
    BY <2>1, <2>3, MotorAssumption DEF UpdateRoundData, WorldOK, PriceFeed, NewRound
  <2>4. CASE Tick
    BY <2>1, <2>4 DEF Tick, WorldOK
  <2>5. CASE UNCHANGED allVars
    BY <2>1, <2>5 DEF allVars, vars, world, WorldOK
  <2> QED BY <2>2, <2>3, <2>4, <2>5 DEF WorldMoves, WorldStep
<1>3. State' = State /\ stack' = stack
  BY <1>1 DEF State, positions
<1> QED BY <1>2, <1>3 DEF StepsInv

-----------------------------------------------------------------------------
(* The invariant.                                                          *)

\* While no call waits nothing is due, and the books are those of BUSCmotor.
LEMMA BooksAtRest ==
  ASSUME NEW deposits, NEW tokens
  PROVE  CoveredBooks(deposits, tokens, AllDue(<<>>)) <=> BooksOK(deposits, tokens)
<1>1. \A t \in Tokens : AllDue(<<>>)[t] = 0
  <2>1. ASSUME NEW t \in Tokens PROVE DueFrom(<<>>, t) = 0
    <3>1. [i \in DOMAIN <<>> |-> Owed(<<>>[i].call, t)] = [i \in {} |-> 0]
      BY EmptySeq
    <3>2. SumFunction([i \in {} |-> 0]) = 0
      BY FS_EmptySet, SumFunctionZero
    <3> QED BY <3>1, <3>2 DEF DueFrom
  <2> QED BY <2>1 DEF AllDue
<1>2. ASSUME \A t \in Tokens : SoundLedger(tokens[t])
      PROVE  \A t \in Tokens :
                tokens[t].balances[Motor] + AllDue(<<>>)[t] = tokens[t].balances[Motor]
  BY <1>1, <1>2, BalanceBounded, MotorFacts
<1>3. ASSUME CoveredBooks(deposits, tokens, AllDue(<<>>)) PROVE BooksOK(deposits, tokens)
  BY <1>2, <1>3 DEF CoveredBooks, NoneUnlisted, BooksOK
<1>4. ASSUME BooksOK(deposits, tokens) PROVE CoveredBooks(deposits, tokens, AllDue(<<>>))
  BY <1>2, <1>4 DEF CoveredBooks, NoneUnlisted, BooksOK
<1> QED BY <1>3, <1>4

LEMMA StepsInitInvariant ==
  ASSUME StepsInit
  PROVE  StepsInv
<1>1. IInv /\ entered = FALSE /\ stack = <<>> /\ callers = {} /\ reentered = FALSE
  BY InitInvariant DEF StepsInit
<1>2. stack \in Seq(Frames) /\ Len(stack) = 0 /\ Len(stack) <= MaxDepth
      /\ DOMAIN stack = {}
  BY <1>1, EmptySeq, DepthAssumption
<1>3. SavedOK(stack) /\ OneLock(stack) /\ ~Locked(stack)
  BY <1>2 DEF SavedOK, OneLock, Locked
<1>4. CoveredBooks(s_userCollateralDeposits, collateral, AllDue(stack))
  BY <1>1, BooksAtRest DEF IInv
<1>5. DebtsBacked(s_BuscAmountMintedByUser, busc) /\ WorldOK
  BY <1>1, InitInvariant DEF StepsInit, IInv
<1>6. State \in States
  BY <1>1, <1>4, <1>5 DEF CoveredBooks, DebtsBacked, SoundLedger, State, States
<1>7. StateOK(State, stack)
  <2>1. State.entered = Locked(stack)
    BY <1>1, <1>3 DEF State, Locked
  <2>2. CoveredBooks(State.deposits, State.collateral, AllDue(stack))
    BY <1>4 DEF State
  <2>3. DebtsBacked(State.debts, State.busc)
    BY <1>5 DEF State
  <2> QED BY <1>6, <2>1, <2>2, <2>3 DEF StateOK
<1> QED BY <1>2, <1>3, <1>5, <1>7 DEF StepsInv

LEMMA StepKeeps ==
  ASSUME StepsInv, [StepsNext]_allVars
  PROVE  StepsInv'
<1>1. CollateralAmounts \subseteq Uint /\ BuscAmounts \subseteq Uint /\ 0 \in Uint
  BY MotorAssumption, UintNat
<1>2. ASSUME NEW u \in Users, EnterCall(u) PROVE StepsInv'
  BY <1>1, <1>2, EnterDepositKeeps, EnterPullKeeps, EnterPullAndBurnKeeps,
     EnterLiquidateKeeps DEF EnterCall
<1>3. ASSUME NEW u \in Users, DirectCall(u) PROVE StepsInv'
  BY <1>1, <1>3, LockedMintKeeps, DirectBurnKeeps, DirectTokenCallKeeps DEF DirectCall
<1>4. CASE LeaveCall
  BY <1>4, LeaveDepositKeeps, LeaveDepositAndMintKeeps, LeavePullKeeps,
     LeaveLiquidateKeeps DEF LeaveCall
<1>5. CASE Revert
  BY <1>5, RevertKeeps
<1>6. CASE WorldMoves \/ UNCHANGED allVars
  BY <1>6, WorldMovesKeeps
<1> QED BY <1>2, <1>3, <1>4, <1>5, <1>6 DEF StepsNext

(***************************************************************************)
(* What holds between any two statements, at any depth of callbacks.       *)
(***************************************************************************)
THEOREM StepsInvariance == StepsSpec => []StepsInv
<1>1. StepsInit => StepsInv
  BY StepsInitInvariant
<1>2. StepsInv /\ [StepsNext]_allVars => StepsInv'
  BY StepKeeps
<1> QED BY <1>1, <1>2, PTL DEF StepsSpec

(***************************************************************************)
(* Every variable and every saved state keeps its type, whatever is called *)
(* from callbacks: no checked operation of the motor leaves uint256.       *)
(***************************************************************************)
THEOREM StepsTyped == StepsSpec => []StepsTypeOK
<1>1. StepsInv => StepsTypeOK
  <2> SUFFICES ASSUME StepsInv PROVE StepsTypeOK
    OBVIOUS
  <2>1. TypeOK
    BY PresentFacts, Present DEF TypeOK, StepsInv, WorldOK, DebtsBacked, SoundLedger
  <2>2. stack \in Seq([call : Call, saved : States]) /\ Len(stack) <= MaxDepth
    BY DEF StepsInv, Frames
  <2> QED BY <2>1, <2>2, Present DEF StepsTypeOK
<1> QED BY <1>1, StepsInvariance, PTL

(***************************************************************************)
(* The deposits credited are covered by what the motor holds and what      *)
(* waiting deposits still bring, although depositCollateral credits before *)
(* it transfers and burnBUSC and pullCollateralAndBurnBUSC have no lock.   *)
(***************************************************************************)
THEOREM CustodyKept == StepsSpec => []CustodyDuringCallbacks
<1>1. StepsInv => CustodyDuringCallbacks
  <2> SUFFICES ASSUME StepsInv, NEW t \in Tokens
               PROVE  TotalDeposits(t) <= collateral[t].balances[Motor] + Due(t)
    BY DEF CustodyDuringCallbacks
  <2>1. Due(t) = AllDue(stack)[t]
    BY DEF Due, AllDue, DueFrom, Owed
  <2>2. TotalDeposits(t) = SumFunction(DepositsOf(s_userCollateralDeposits, t))
    BY DEF TotalDeposits, DepositsOf
  <2> QED BY <2>1, <2>2, Present DEF CoveredBooks
<1> QED BY <1>1, StepsInvariance, PTL

(***************************************************************************)
(* The ReentrancyGuard is set exactly while one call that took it waits,   *)
(* even after reverts deep in a callback.                                  *)
(***************************************************************************)
THEOREM LockKept == StepsSpec => []LockFollowsCalls
<1>1. StepsInv => LockFollowsCalls
  <2> SUFFICES ASSUME StepsInv PROVE LockFollowsCalls
    OBVIOUS
  <2>1. entered = Locked(stack) /\ OneLock(stack)
    BY Present DEF StepsInv
  <2> QED BY <2>1 DEF LockFollowsCalls, Locked, OneLock, Locks
<1> QED BY <1>1, StepsInvariance, PTL

(***************************************************************************)
(* In the middle of a transaction too every BUSC is owed by someone: the   *)
(* liquidator holds the collateral before the debt is paid, but mintBUSC   *)
(* and _burnBUSC change debt and supply in one statement of each call.     *)
(***************************************************************************)
THEOREM SupplyBackedInCallbacks == StepsSpec => []SupplyBackedByDebt
<1>1. StepsInv => SupplyBackedByDebt
  BY Present DEF DebtsBacked, SupplyBackedByDebt, TotalDebt
<1> QED BY <1>1, StepsInvariance, PTL

(***************************************************************************)
(* The invariant of BUSCmotor is that of every state in which no call      *)
(* waits: a transaction, whatever its callbacks did, leaves the motor      *)
(* holding what it owes and, if all positions are healthy, twice the worth *)
(* of the supply.                                                          *)
(***************************************************************************)
THEOREM TransactionsLeaveSound == StepsSpec => []SoundBetweenTransactions
<1>1. ASSUME StepsInv, Idle
      PROVE  IInv
  <2>1. BooksOK(s_userCollateralDeposits, collateral)
    BY <1>1, Present, BooksAtRest DEF Idle
  <2>2. DebtsOK(s_BuscAmountMintedByUser, busc) /\ WorldOK
    BY <1>1, Present, BackedIs DEF StepsInv
  <2> QED BY <2>1, <2>2 DEF IInv
<1>2. ASSUME StepsInv, Idle, \A u \in Users : Healthy(u)
      PROVE  ProtocolValue >= 2 * busc.totalSupply
  <2>1. /\ ProtocolValue >= 2 * TotalDebt
        /\ ProtocolValue \in Nat /\ TotalDebt \in Nat
    BY <1>1, <1>2, HealthyDebtsCovered
  <2>2. busc.totalSupply <= TotalDebt /\ busc.totalSupply \in Nat
    BY <1>2, Present, BUSCFacts DEF DebtsBacked, TotalDebt
  <2> QED BY <2>1, <2>2
<1>3. StepsInv => SoundBetweenTransactions
  BY <1>1, <1>2, InvariantImplies, Present
     DEF SoundBetweenTransactions, OvercollateralizedWhenHealthy, SupplyBackedByDebt,
         DebtsBacked, TotalDebt
<1> QED BY <1>3, StepsInvariance, PTL

(***************************************************************************)
(* No unchecked block of a token wraps, in whatever order callbacks make   *)
(* transfers, approvals and the motor's calls follow each other.           *)
(***************************************************************************)
THEOREM LedgersSoundInCallbacks == StepsSpec => []BalancesSumToSupply
<1>1. StepsInv => BalancesSumToSupply
  BY Present DEF DebtsBacked, CoveredBooks, SoundLedger, BalancesSumToSupply
<1> QED BY <1>1, StepsInvariance, PTL

=============================================================================
