---------------------- MODULE BUSCmotorTransactionProofs ----------------------
(***************************************************************************)
(* Proofs about whole transactions of BUSCmotorSteps: what they leave of   *)
(* the users' positions, whatever is called or reverted from callbacks.    *)
(*                                                                         *)
(* A property of the end of a transaction becomes an invariant of its      *)
(* middle: each user is no worse off than in the committed state, or is    *)
(* healthy, or a waiting call will read the user's health factor before    *)
(* it returns; and a bystander's position is untouched, or improved by a   *)
(* liquidation, or in the middle of one.  As a revert may bring back any   *)
(* saved state, the same is said of each of them.                          *)
(*                                                                         *)
(* A transaction without calls from callbacks is one step of BUSCmotor:    *)
(* while its call waits, the state is what the first statements made of    *)
(* the committed one.                                                      *)
(***************************************************************************)
EXTENDS BUSCmotorStepsProofs

HealthIn(feeds, state, u) == HealthAt(feeds, state.deposits[u], state.debts[u])

Seizes(call, u) == call.fn = "liquidate" /\ call.user = u
Awaits(call, u) ==
    Seizes(call, u) \/ (call.fn \in {"pull", "pullAndBurn"} /\ call.by = u)
Seizing(frames, u) == \E i \in DOMAIN frames : Seizes(frames[i].call, u)
Awaited(frames, u) == \E i \in DOMAIN frames : Awaits(frames[i].call, u)

\* The position in state, while frames wait, against that in base.
NoWorse(feeds, state, frames, base, u) ==
    \/ HealthIn(feeds, state, u) >= MINIMUM_HEALTH_FACTOR
    \/ HealthIn(feeds, state, u) >= HealthIn(feeds, base, u)
    \/ Awaited(frames, u)

Kept(feeds, state, frames, base, u) ==
    \/ state.deposits[u] = base.deposits[u] /\ state.debts[u] = base.debts[u]
    \/ /\ HealthIn(feeds, base, u) < MINIMUM_HEALTH_FACTOR
       /\ state.debts[u] < base.debts[u]
       /\ HealthIn(feeds, state, u) > HealthIn(feeds, base, u)
    \/ state.debts[u] <= base.debts[u] /\ Seizing(frames, u)

\* All who made the waiting calls are known as callers.
Named(frames, who) ==
    \A i \in DOMAIN frames : frames[i].call.by \in who /\ frames[i].saved.callers \subseteq who

FairTo(feeds, state, frames, base, bystanders) ==
    \A u \in Users : /\ NoWorse(feeds, state, frames, base, u)
                     /\ u \in bystanders => Kept(feeds, state, frames, base, u)

FairState(feeds, state, frames, base) ==
    /\ FairTo(feeds, state, frames, base, Users \ state.callers)
    /\ Named(frames, state.callers)

\* What liquidate knew when it read the starting health factor.
FairStart(feeds, frame, below, base) ==
    LET call == frame.call
        before == HealthIn(feeds, base, call.user)
    IN  call.fn = "liquidate" =>
           /\ call.debt > 0
           /\ call.health >= before \/ Awaited(below, call.user)
           /\ call.user \notin frame.saved.callers \cup {call.by} =>
                 before < MINIMUM_HEALTH_FACTOR /\ call.health >= before

FairFrames(feeds, frames, base) ==
    \A i \in 1..Len(frames) :
        /\ FairState(feeds, frames[i].saved, SubSeq(frames, 1, i - 1), base)
        /\ FairStart(feeds, frames[i], SubSeq(frames, 1, i - 1), base)

FairInv ==
    /\ FairState(priceFeed, State, stack, Committed)
    /\ FairFrames(priceFeed, stack, Committed)

-----------------------------------------------------------------------------
(* States that are fair to the users.                                      *)

LEMMA StateNat ==
  ASSUME NEW feeds \in [Listed -> PriceFeed], NEW state \in States, NEW u \in Users
  PROVE  /\ HealthIn(feeds, state, u) \in Nat
         /\ state.debts[u] \in Nat
         /\ \A t \in Tokens : state.deposits[u][t] \in Nat
<1>1. state.debts[u] \in Uint /\ \A t \in Tokens : state.deposits[u][t] \in Uint
  BY DEF States
<1>2. state.debts[u] \in Nat /\ \A t \in Tokens : state.deposits[u][t] \in Nat
  BY <1>1, UintNat
<1>3. \A t \in Listed : /\ state.deposits[u][t] \in Nat
                        /\ state.deposits[u][t] <= state.deposits[u][t]
  BY <1>2, MotorAssumption
<1>4. HealthIn(feeds, state, u) \in Nat
  BY <1>2, <1>3, HealthRaised DEF HealthIn
<1> QED BY <1>2, <1>4

\* The state before a transaction is fair to all.
LEMMA FairAtRest ==
  ASSUME NEW feeds \in [Listed -> PriceFeed], NEW state \in States
  PROVE  FairState(feeds, state, <<>>, state) /\ FairFrames(feeds, <<>>, state)
<1>1. DOMAIN <<>> = {} /\ 1..Len(<<>>) = {}
  OBVIOUS
<1>2. ASSUME NEW u \in Users
      PROVE  NoWorse(feeds, state, <<>>, state, u) /\ Kept(feeds, state, <<>>, state, u)
  BY StateNat DEF NoWorse, Kept
<1> QED BY <1>1, <1>2 DEF FairState, FairTo, Named, FairFrames

LEMMA CallsAppend ==
  ASSUME NEW frames \in Seq(Frames), NEW frame \in Frames
  PROVE  /\ \A u : Awaited(Append(frames, frame), u)
                      <=> Awaited(frames, u) \/ Awaits(frame.call, u)
         /\ \A u : Seizing(Append(frames, frame), u)
                      <=> Seizing(frames, u) \/ Seizes(frame.call, u)
         /\ \A who : Named(Append(frames, frame), who)
                      <=> /\ Named(frames, who)
                          /\ frame.call.by \in who /\ frame.saved.callers \subseteq who
<1> DEFINE more == Append(frames, frame)
           n == Len(frames)
<1>1. /\ DOMAIN frames = 1..n /\ DOMAIN more = 1..(n + 1) /\ n \in Nat
      /\ \A i \in 1..n : more[i] = frames[i]
      /\ more[n + 1] = frame
  BY AppendFacts, LenProperties
<1> HIDE DEF more, n
<1>2. DOMAIN more = DOMAIN frames \cup {n + 1}
  BY <1>1
<1>3. ASSUME NEW u PROVE Awaited(more, u) <=> Awaited(frames, u) \/ Awaits(frame.call, u)
  BY <1>1, <1>2 DEF Awaited
<1>4. ASSUME NEW u PROVE Seizing(more, u) <=> Seizing(frames, u) \/ Seizes(frame.call, u)
  BY <1>1, <1>2 DEF Seizing
<1>5. ASSUME NEW who
      PROVE  Named(more, who) <=>
                /\ Named(frames, who)
                /\ frame.call.by \in who /\ frame.saved.callers \subseteq who
  BY <1>1, <1>2 DEF Named
<1> QED BY <1>3, <1>4, <1>5 DEF more

LEMMA FairFramesAppend ==
  ASSUME NEW frames \in Seq(Frames), NEW frame \in Frames, NEW feeds, NEW base
  PROVE  FairFrames(feeds, Append(frames, frame), base) <=>
            /\ FairFrames(feeds, frames, base)
            /\ FairState(feeds, frame.saved, frames, base)
            /\ FairStart(feeds, frame, frames, base)
<1> DEFINE more == Append(frames, frame)
           n == Len(frames)
           Fair(f, below) == /\ FairState(feeds, f.saved, below, base)
                             /\ FairStart(feeds, f, below, base)
<1>1. /\ Len(more) = n + 1 /\ n \in Nat
      /\ \A i \in 1..n : more[i] = frames[i]
      /\ more[n + 1] = frame
      /\ \A i \in 1..(n + 1) : SubSeq(more, 1, i - 1) = SubSeq(frames, 1, i - 1)
      /\ SubSeq(frames, 1, n) = frames
  BY AppendFacts, LenProperties
<1>2. /\ FairFrames(feeds, more, base) <=>
            \A i \in 1..Len(more) : Fair(more[i], SubSeq(more, 1, i - 1))
      /\ FairFrames(feeds, frames, base) <=>
            \A i \in 1..n : Fair(frames[i], SubSeq(frames, 1, i - 1))
  BY DEF FairFrames
<1> HIDE DEF more, n, Fair
<1>3. /\ 1..(n + 1) = 1..n \cup {n + 1} /\ (n + 1) - 1 = n
  BY <1>1
<1>4. FairFrames(feeds, more, base) <=>
         FairFrames(feeds, frames, base) /\ Fair(frame, frames)
  BY <1>1, <1>2, <1>3
<1> QED BY <1>4 DEF more, Fair

-----------------------------------------------------------------------------
(* Steps of a transaction.                                                 *)

Unmoved(state, after, u) ==
    after.deposits[u] = state.deposits[u] /\ after.debts[u] = state.debts[u]

LEMMA UnmovedHealth ==
  ASSUME NEW feeds, NEW state, NEW after, NEW u, Unmoved(state, after, u)
  PROVE  HealthIn(feeds, after, u) = HealthIn(feeds, state, u)
BY DEF Unmoved, HealthIn

\* What a step does to one user, in a call that others make or make with it.
FairMove(after, frames, who, u) ==
    /\ NoWorse(priceFeed, after, frames, Committed, u)
    /\ u \in who \/ Kept(priceFeed, after, frames, Committed, u)

LEMMA PresentFair ==
  ASSUME FairInv
  PROVE  /\ \A u \in Users : /\ NoWorse(priceFeed, State, stack, Committed, u)
                             /\ u \in callers \/ Kept(priceFeed, State, stack, Committed, u)
         /\ Named(stack, callers)
         /\ FairFrames(priceFeed, stack, Committed)
BY DEF FairInv, FairState, FairTo, State

LEMMA FairPut ==
  ASSUME UNCHANGED priceFeed, Committed' = Committed,
         \A u \in Users : FairMove(State', stack', callers', u),
         Named(stack', callers'), FairFrames(priceFeed, stack', Committed)
  PROVE  FairInv'
<1>1. State'.callers = callers'
  BY DEF State
<1>2. FairState(priceFeed, State', stack', Committed)
  BY <1>1 DEF FairState, FairTo, FairMove
<1> QED BY <1>2 DEF FairInv

LEMMA CommittedState ==
  ASSUME StepsInv
  PROVE  Committed \in States
<1>1. CASE Idle
  BY <1>1, Present DEF Committed
<1>2. CASE ~Idle
  <2>1. stack \in Seq(Frames) /\ Len(stack) \in Nat \ {0}
    BY <1>2, EmptySeq, LenProperties DEF StepsInv, Idle
  <2>2. stack[1] \in Frames
    BY <2>1, ElementOfSeq
  <2> QED BY <1>2, <2>2 DEF Committed, Frames
<1> QED BY <1>1, <1>2

\* The first call on the stack keeps the committed state.
LEMMA CommittedKept ==
  ASSUME StepsInv, ~Idle, stack' = Front(stack), Front(stack) # <<>>
  PROVE  Committed' = Committed
<1>1. /\ Front(stack) \in Seq(Frames) /\ Last(stack) \in Frames
      /\ stack = Append(Front(stack), Last(stack))
  BY FrontFacts DEF StepsInv, Idle
<1>2. Len(Front(stack)) \in Nat \ {0}
  BY <1>1, EmptySeq, LenProperties
<1>3. Front(stack)[1] = stack[1]
  BY <1>1, <1>2, AppendFacts
<1> QED BY <1>3 DEF Committed, Idle

LEMMA PushFair ==
  ASSUME StepsInv, StepsInv', FairInv, NEW call \in Call, Push(call), UNCHANGED priceFeed,
         NEW frame, frame = [call |-> call, saved |-> State],
         FairStart(priceFeed, frame, stack, Committed),
         \A u \in Users :
            \/ Unmoved(State, State', u)
            \/ FairMove(State', Append(stack, frame), callers \cup {call.by}, u)
  PROVE  FairInv'
<1>1. /\ frame \in Frames /\ frame.call = call /\ frame.saved = State
      /\ stack \in Seq(Frames) /\ Len(stack) \in Nat /\ State.callers = callers
  BY Present, LenProperties DEF Frames, StepsInv, State
<1>2. stack' = Append(stack, frame) /\ callers' = callers \cup {call.by}
  BY DEF Push, Called
<1>3. Committed' = Committed
  <2>1. /\ Len(stack') = Len(stack) + 1 /\ stack'[Len(stack) + 1] = frame
        /\ \A i \in 1..Len(stack) : stack'[i] = stack[i]
        /\ Len(<<>>) = 0
    BY <1>1, <1>2, AppendFacts
  <2>2. ~Idle'
    BY <1>1, <2>1 DEF Idle
  <2>3. CASE Idle
    <3>1. stack'[1] = frame
      BY <2>1, <2>3 DEF Idle
    <3> QED BY <1>1, <2>2, <2>3, <3>1 DEF Committed
  <2>4. CASE ~Idle
    <3>1. Len(stack) \in Nat \ {0}
      BY <1>1, <2>4, EmptySeq DEF Idle
    <3>2. stack'[1] = stack[1]
      BY <2>1, <3>1
    <3> QED BY <2>2, <2>4, <3>2 DEF Committed
  <2> QED BY <2>3, <2>4
<1>4. FairFrames(priceFeed, stack', Committed)
  <2>1. FairState(priceFeed, State, stack, Committed)
    BY DEF FairInv
  <2> QED BY <1>1, <1>2, <2>1, FairFramesAppend, PresentFair
<1>5. Named(stack', callers')
  <2>1. Named(stack, callers')
    BY <1>2, PresentFair DEF Named
  <2> QED BY <1>1, <1>2, <2>1, CallsAppend
<1>6. ASSUME NEW u \in Users PROVE FairMove(State', stack', callers', u)
  <2>1. CASE Unmoved(State, State', u)
    <3>1. HealthIn(priceFeed, State', u) = HealthIn(priceFeed, State, u)
      BY <2>1, UnmovedHealth
    <3>2. NoWorse(priceFeed, State', stack', Committed, u)
      BY <1>1, <1>2, <3>1, CallsAppend, PresentFair DEF NoWorse
    <3>3. u \in callers' \/ Kept(priceFeed, State', stack', Committed, u)
      BY <1>1, <1>2, <2>1, <3>1, CallsAppend, PresentFair DEF Kept, Unmoved
    <3> QED BY <3>2, <3>3 DEF FairMove
  <2>2. CASE FairMove(State', Append(stack, frame), callers \cup {call.by}, u)
    BY <1>2, <2>2
  <2> QED BY <2>1, <2>2
<1> QED BY <1>3, <1>4, <1>5, <1>6, FairPut

\* Nobody is left worse, and bystanders are kept, when the waiting call is
\* over.
Settled ==
    /\ UNCHANGED priceFeed
    /\ stack' = Front(stack)
    /\ \A u \in Users : FairMove(State', stack', callers, u)

\* The frames below the waiting call.
LEMMA BelowFair ==
  ASSUME StepsInv, FairInv, ~Idle
  PROVE  /\ Front(stack) \in Seq(Frames) /\ Last(stack) \in Frames
         /\ stack = Append(Front(stack), Last(stack))
         /\ FairFrames(priceFeed, Front(stack), Committed)
         /\ FairState(priceFeed, Last(stack).saved, Front(stack), Committed)
         /\ FairStart(priceFeed, Last(stack), Front(stack), Committed)
         /\ Named(Front(stack), callers)
         /\ Waiting.by \in callers /\ Last(stack).saved.callers \subseteq callers
<1>1. /\ Front(stack) \in Seq(Frames) /\ Last(stack) \in Frames
      /\ stack = Append(Front(stack), Last(stack))
  BY FrontFacts DEF StepsInv, Idle
<1>2. FairFrames(priceFeed, stack, Committed) /\ Named(stack, callers)
  BY PresentFair
<1> DEFINE below == Front(stack)
           frame == Last(stack)
<1>3. below \in Seq(Frames) /\ frame \in Frames /\ stack = Append(below, frame)
  BY <1>1
<1>4. Waiting = frame.call
  BY DEF Waiting
<1> HIDE DEF below, frame
<1>5. /\ FairFrames(priceFeed, below, Committed)
      /\ FairState(priceFeed, frame.saved, below, Committed)
      /\ FairStart(priceFeed, frame, below, Committed)
  <2>1. FairFrames(priceFeed, Append(below, frame), Committed)
    BY <1>2, <1>3
  <2> QED BY <1>3, <2>1, FairFramesAppend
<1>6. Named(below, callers) /\ frame.call.by \in callers /\ frame.saved.callers \subseteq callers
  <2>1. Named(Append(below, frame), callers)
    BY <1>2, <1>3
  <2> QED BY <1>3, <2>1, CallsAppend
<1> QED BY <1>1, <1>4, <1>5, <1>6 DEF below, frame

LEMMA SettledFair ==
  ASSUME StepsInv, StepsInv', FairInv, ~Idle, Settled,
         Front(stack) # <<>> => /\ Named(Front(stack), callers')
                                /\ \A u \in Users : FairMove(State', stack', callers', u)
  PROVE  FairInv'
<1>1. stack' = Front(stack) /\ UNCHANGED priceFeed
  BY DEF Settled
<1>2. CASE Front(stack) = <<>>
  <2>1. Committed' = State' /\ stack' = <<>>
    BY <1>1, <1>2 DEF Committed, Idle
  <2>2. State' \in States /\ priceFeed' \in [Listed -> PriceFeed]
    BY DEF StepsInv, StateOK, WorldOK
  <2>3. FairState(priceFeed', State', <<>>, State') /\ FairFrames(priceFeed', <<>>, State')
    BY <2>2, FairAtRest
  <2> QED BY <2>1, <2>3 DEF FairInv
<1>3. CASE Front(stack) # <<>>
  BY <1>1, <1>3, BelowFair, CommittedKept, FairPut
<1> QED BY <1>2, <1>3

LEMMA PopFair ==
  ASSUME StepsInv, StepsInv', FairInv, ~Idle, Pop, UNCHANGED priceFeed,
         \A u \in Users :
            \/ Unmoved(State, State', u) /\ ~Awaits(Waiting, u)
            \/ FairMove(State', Front(stack), callers, u)
  PROVE  FairInv' /\ Settled
<1>1. stack' = Front(stack)
  BY DEF Pop
<1>2. ASSUME NEW u \in Users PROVE FairMove(State', stack', callers, u)
  <2>1. CASE Unmoved(State, State', u) /\ ~Awaits(Waiting, u)
    <3>1. HealthIn(priceFeed, State', u) = HealthIn(priceFeed, State, u)
      BY <2>1, UnmovedHealth
    <3>2. /\ Awaited(stack, u) <=> Awaited(Front(stack), u)
          /\ Seizing(stack, u) <=> Seizing(Front(stack), u)
      <4> DEFINE below == Front(stack)
                 frame == Last(stack)
      <4>1. ~Awaits(frame.call, u) /\ ~Seizes(frame.call, u)
        BY <2>1 DEF Awaits, Waiting
      <4>2. below \in Seq(Frames) /\ frame \in Frames /\ stack = Append(below, frame)
        BY BelowFair
      <4> HIDE DEF below, frame
      <4>3. /\ Awaited(Append(below, frame), u) <=> Awaited(below, u)
            /\ Seizing(Append(below, frame), u) <=> Seizing(below, u)
        BY <4>1, <4>2, CallsAppend
      <4> QED BY <4>2, <4>3 DEF below
    <3>3. NoWorse(priceFeed, State', stack', Committed, u)
      BY <1>1, <3>1, <3>2, PresentFair DEF NoWorse
    <3>4. u \in callers \/ Kept(priceFeed, State', stack', Committed, u)
      BY <1>1, <2>1, <3>1, <3>2, PresentFair DEF Kept, Unmoved
    <3> QED BY <3>3, <3>4 DEF FairMove
  <2>2. CASE FairMove(State', Front(stack), callers, u)
    BY <1>1, <2>2
  <2> QED BY <2>1, <2>2
<1>3. Settled
  BY <1>1, <1>2 DEF Settled
<1>4. Front(stack) # <<>> => callers' = callers
  <2>1. Len(stack) = 1 => Front(stack) = <<>>
    <3>1. Len(Front(stack)) = Len(stack) - 1 /\ Len(stack) \in Nat
      BY FrontFacts DEF StepsInv, Idle
    <3> QED BY <3>1, BelowFair, EmptySeq
  <2> QED BY <2>1 DEF Pop
<1> QED BY <1>2, <1>3, <1>4, BelowFair, SettledFair

LEMMA DirectFair ==
  ASSUME StepsInv, StepsInv', FairInv, NEW c \in Users, Direct(c), UNCHANGED priceFeed,
         \A u \in Users :
            \/ Unmoved(State, State', u)
            \/ /\ u = c
               /\ HealthIn(priceFeed, State', u) >= MINIMUM_HEALTH_FACTOR
  PROVE  FairInv'
<1>1. stack' = stack
  BY DEF Direct
<1>2. CASE Idle
  <2>1. Committed' = State' /\ stack' = <<>>
    BY <1>1, <1>2 DEF Committed, Idle
  <2>2. State' \in States /\ priceFeed' \in [Listed -> PriceFeed]
    BY DEF StepsInv, StateOK, WorldOK
  <2>3. FairState(priceFeed', State', <<>>, State') /\ FairFrames(priceFeed', <<>>, State')
    BY <2>2, FairAtRest
  <2> QED BY <2>1, <2>3 DEF FairInv
<1>3. CASE ~Idle
  <2>1. callers' = callers \cup {c} /\ Committed' = Committed
    BY <1>1, <1>3 DEF Direct, Called, Committed, Idle
  <2>2. Named(stack', callers') /\ FairFrames(priceFeed, stack', Committed)
    BY <1>1, <2>1, PresentFair DEF Named
  <2>3. ASSUME NEW u \in Users PROVE FairMove(State', stack', callers', u)
    <3>1. CASE Unmoved(State, State', u)
      <4>1. HealthIn(priceFeed, State', u) = HealthIn(priceFeed, State, u)
        BY <3>1, UnmovedHealth
      <4>2. NoWorse(priceFeed, State', stack', Committed, u)
        BY <1>1, <4>1, PresentFair DEF NoWorse
      <4>3. u \in callers' \/ Kept(priceFeed, State', stack', Committed, u)
        BY <1>1, <2>1, <3>1, <4>1, PresentFair DEF Kept, Unmoved
      <4> QED BY <4>2, <4>3 DEF FairMove
    <3>2. CASE u = c /\ HealthIn(priceFeed, State', u) >= MINIMUM_HEALTH_FACTOR
      BY <2>1, <3>2 DEF FairMove, NoWorse
    <3> QED BY <3>1, <3>2
  <2> QED BY <2>1, <2>2, <2>3, FairPut
<1> QED BY <1>2, <1>3

-----------------------------------------------------------------------------
(* The calls.                                                              *)

\* Calls that write the position of one user leave the others unmoved.
LEMMA OthersUnmoved ==
  ASSUME StepsInv, NEW c \in Users, NEW u \in Users \ {c}, NEW t \in Tokens,
         NEW amount, NEW debt,
         \/ s_userCollateralDeposits' = Deposited(c, t, amount)
         \/ s_userCollateralDeposits' = Pulled(c, t, amount)
         \/ UNCHANGED s_userCollateralDeposits,
         \/ s_BuscAmountMintedByUser' = Repaid(c, debt)
         \/ s_BuscAmountMintedByUser' = [s_BuscAmountMintedByUser EXCEPT ![c] = @ + debt]
         \/ UNCHANGED s_BuscAmountMintedByUser
  PROVE  Unmoved(State, State', u)
<1>1. s_userCollateralDeposits'[u] = s_userCollateralDeposits[u]
  BY PresentFacts DEF Deposited, Pulled
<1>2. s_BuscAmountMintedByUser'[u] = s_BuscAmountMintedByUser[u]
  BY PresentFacts DEF Repaid
<1> QED BY <1>1, <1>2 DEF Unmoved, State

LEMMA NobodyMoved ==
  ASSUME UNCHANGED positions, NEW u
  PROVE  Unmoved(State, State', u)
BY DEF positions, Unmoved, State

\* The health factor that _revertOnBrokenHealthFactor has read.
LEMMA CheckedIn ==
  ASSUME NEW u, NEW deposits, NEW debt, HealthChecked(deposits, debt),
         s_userCollateralDeposits'[u] = deposits, s_BuscAmountMintedByUser'[u] = debt
  PROVE  HealthIn(priceFeed, State', u) >= MINIMUM_HEALTH_FACTOR
BY HealthFactorIs DEF HealthChecked, HealthIn, State

\* A user whose call waits for its check.
LEMMA AwaitedMove ==
  ASSUME NEW frames \in Seq(Frames), NEW frame \in Frames, NEW after, NEW u,
         Awaits(frame.call, u)
  PROVE  NoWorse(priceFeed, after, Append(frames, frame), Committed, u)
BY CallsAppend DEF NoWorse

LEMMA EnterDepositFair ==
  ASSUME StepsInv, StepsInv', FairInv, NEW u \in Users, NEW t \in Tokens,
         NEW amount \in Uint, NEW mint \in Uint, EnterDeposit(u, t, amount, mint)
  PROVE  FairInv'
<1> DEFINE call == [NewCall("deposit", u, t, amount) EXCEPT !.mint = mint]
           frame == [call |-> call, saved |-> State]
<1>1. /\ s_userCollateralDeposits' = Deposited(u, t, amount) /\ Push(call)
      /\ UNCHANGED <<s_BuscAmountMintedByUser, priceFeed>>
  BY DEF EnterDeposit, world
<1>2. call \in Call /\ call.by = u /\ call.fn = "deposit"
  BY UintNat DEF NewCall, Call
<1> HIDE DEF call
<1>3. FairStart(priceFeed, frame, stack, Committed)
  BY <1>2 DEF FairStart
<1>4. State \in States /\ State' \in States /\ priceFeed \in [Listed -> PriceFeed]
  BY DEF StepsInv, StateOK, WorldOK
<1>5. HealthIn(priceFeed, State', u) >= HealthIn(priceFeed, State, u)
  <2>1. /\ State'.debts[u] = State.debts[u] /\ State.debts[u] \in Nat
        /\ State'.deposits = Deposited(u, t, amount)
        /\ State.deposits = s_userCollateralDeposits
    BY <1>1, <1>4, StateNat DEF State
  <2>2. ASSUME NEW s \in Tokens
        PROVE  /\ State.deposits[u][s] \in Nat /\ State'.deposits[u][s] \in Nat
               /\ State.deposits[u][s] <= State'.deposits[u][s]
    <3>1. State.deposits[u][s] \in Nat /\ State'.deposits[u][s] \in Nat /\ amount \in Nat
      BY <1>4, StateNat, UintNat
    <3>2. State'.deposits[u][s] = State.deposits[u][s] + (IF s = t THEN amount ELSE 0)
      BY <2>1, <3>1, PresentFacts DEF Deposited
    <3> QED BY <3>1, <3>2
  <2>3. \A s \in Listed :
            /\ State.deposits[u][s] \in Nat /\ State'.deposits[u][s] \in Nat
            /\ State.deposits[u][s] <= State'.deposits[u][s]
    BY <2>2, MotorAssumption
  <2>4. /\ HealthAt(priceFeed, State.deposits[u], State.debts[u]) \in Nat
        /\ HealthAt(priceFeed, State'.deposits[u], State.debts[u]) \in Nat
        /\ HealthAt(priceFeed, State.deposits[u], State.debts[u])
              <= HealthAt(priceFeed, State'.deposits[u], State.debts[u])
    BY <1>4, <2>1, <2>3, HealthRaised
  <2> QED BY <2>1, <2>4 DEF HealthIn
<1>6. frame \in Frames /\ frame.call = call /\ stack \in Seq(Frames)
  BY <1>2, <1>4 DEF Frames, StepsInv
<1> HIDE DEF frame
<1>7. FairMove(State', Append(stack, frame), callers \cup {call.by}, u)
  <2> DEFINE old == HealthIn(priceFeed, State, u)
             new == HealthIn(priceFeed, State', u)
             first == HealthIn(priceFeed, Committed, u)
  <2>1. old \in Nat /\ new \in Nat /\ first \in Nat /\ old <= new
        /\ MINIMUM_HEALTH_FACTOR \in Nat
    <3>1. Committed \in States
      BY <1>4, CommittedState
    <3> QED BY <1>4, <1>5, <3>1, StateNat, MathFacts DEF MINIMUM_HEALTH_FACTOR
  <2>2. NoWorse(priceFeed, State, stack, Committed, u)
    BY PresentFair
  <2>3. Awaited(stack, u) => Awaited(Append(stack, frame), u)
    BY <1>6, CallsAppend
  <2>4. NoWorse(priceFeed, State', Append(stack, frame), Committed, u)
    <3>1. \/ old >= MINIMUM_HEALTH_FACTOR \/ old >= first \/ Awaited(stack, u)
      BY <2>2 DEF NoWorse
    <3> HIDE DEF old, new, first
    <3>2. \/ new >= MINIMUM_HEALTH_FACTOR \/ new >= first
          \/ Awaited(Append(stack, frame), u)
      BY <2>1, <2>3, <3>1
    <3> QED BY <3>2 DEF NoWorse, new, first
  <2> QED BY <1>2, <2>4 DEF FairMove
<1>8. \A w \in Users : \/ Unmoved(State, State', w)
                       \/ FairMove(State', Append(stack, frame), callers \cup {call.by}, w)
  BY <1>1, <1>7, OthersUnmoved
<1> QED BY <1>1, <1>2, <1>3, <1>8, PushFair DEF frame

\* A call that pulls collateral out and reads its caller's health later.
LEMMA PullFair ==
  ASSUME StepsInv, StepsInv', FairInv, NEW call \in Call,
         call.fn \in {"pull", "pullAndBurn"}, Push(call), UNCHANGED priceFeed,
         NEW t \in Tokens, NEW amount, NEW debt,
         s_userCollateralDeposits' = Pulled(call.by, t, amount),
         \/ s_BuscAmountMintedByUser' = Repaid(call.by, debt)
         \/ UNCHANGED s_BuscAmountMintedByUser
  PROVE  FairInv'
<1> DEFINE frame == [call |-> call, saved |-> State]
<1>1. /\ frame \in Frames /\ frame.call = call /\ stack \in Seq(Frames)
      /\ call.by \in Users
  BY Present DEF Frames, StepsInv, Call
<1>2. Awaits(frame.call, call.by) /\ FairStart(priceFeed, frame, stack, Committed)
  BY DEF Awaits, FairStart
<1>3. frame = [call |-> call, saved |-> State]
  OBVIOUS
<1> HIDE DEF frame
<1>4. FairMove(State', Append(stack, frame), callers \cup {call.by}, call.by)
  BY <1>1, <1>2, AwaitedMove DEF FairMove
<1>5. \A w \in Users : \/ Unmoved(State, State', w)
                       \/ FairMove(State', Append(stack, frame), callers \cup {call.by}, w)
  BY <1>1, <1>4, OthersUnmoved
<1> QED BY <1>2, <1>3, <1>5, PushFair

LEMMA EnterPullFair ==
  ASSUME StepsInv, StepsInv', FairInv, NEW u \in Users, NEW t \in Tokens,
         NEW amount \in Uint, NEW burn \in Uint,
         EnterPull(u, t, amount) \/ EnterPullAndBurn(u, t, amount, burn)
  PROVE  FairInv'
<1>1. CASE EnterPull(u, t, amount)
  <2> DEFINE call == NewCall("pull", u, t, amount)
  <2>1. call \in Call /\ call.fn = "pull" /\ call.by = u
    BY NewCallIs
  <2>2. /\ Push(call) /\ s_userCollateralDeposits' = Pulled(u, t, amount)
        /\ UNCHANGED <<priceFeed, s_BuscAmountMintedByUser>>
    BY <1>1 DEF EnterPull, world
  <2> HIDE DEF call
  <2> QED BY <2>1, <2>2, PullFair
<1>2. CASE EnterPullAndBurn(u, t, amount, burn)
  <2> DEFINE call == NewCall("pullAndBurn", u, t, amount)
  <2>1. call \in Call /\ call.fn = "pullAndBurn" /\ call.by = u
    BY NewCallIs
  <2>2. /\ Push(call) /\ s_userCollateralDeposits' = Pulled(u, t, amount)
        /\ UNCHANGED priceFeed /\ s_BuscAmountMintedByUser' = Repaid(u, burn)
    BY <1>2 DEF EnterPullAndBurn, world
  <2> HIDE DEF call
  <2> QED BY <2>1, <2>2, PullFair
<1> QED BY <1>1, <1>2

\* The lock keeps a second liquidation out while one waits.
LEMMA NoneSeizing ==
  ASSUME StepsInv, ~entered, NEW u
  PROVE  ~Seizing(stack, u)
BY Present DEF Seizing, Seizes, Locked, Locks

LEMMA EnterLiquidateFair ==
  ASSUME StepsInv, StepsInv', FairInv, NEW l \in Users, NEW t \in Tokens,
         NEW u \in Users, NEW debt \in Uint, EnterLiquidate(l, t, u, debt)
  PROVE  FairInv'
<1> DEFINE amount == Seized(t, debt)
           call == [NewCall("liquidate", l, t, amount) EXCEPT
                       !.user = u, !.debt = debt, !.health = HealthOf(u)]
           frame == [call |-> call, saved |-> State]
           before == HealthIn(priceFeed, Committed, u)
           health == HealthIn(priceFeed, State, u)
<1>1. /\ Push(call) /\ ~entered /\ debt > 0 /\ Liquidatable(u)
      /\ s_userCollateralDeposits' = Pulled(u, t, amount)
      /\ UNCHANGED <<s_BuscAmountMintedByUser, priceFeed>>
  BY DEF EnterLiquidate, world
<1>2. /\ call.fn = "liquidate" /\ call.by = l /\ call.user = u /\ call.debt = debt
      /\ call.health = HealthOf(u) /\ frame.call = call /\ frame.saved = State
  <2> HIDE DEF amount
  <2> QED BY DEF NewCall
<1>3. call \in Call
  <2>1. stack' = Append(stack, frame) /\ stack' \in Seq(Frames) /\ stack \in Seq(Frames)
    BY <1>1 DEF Push, StepsInv
  <2>2. Len(stack') = Len(stack) + 1 /\ stack'[Len(stack) + 1] = frame
    <3> HIDE DEF frame
    <3> QED BY <2>1, AppendProperties
  <2>3. Len(stack) + 1 \in 1..Len(stack')
    BY <2>1, <2>2, LenProperties
  <2>4. frame \in Frames
    <3> HIDE DEF frame
    <3> QED BY <2>1, <2>2, <2>3, ElementOfSeq
  <2>5. frame.call \in Call
    <3> HIDE DEF frame
    <3> QED BY <2>4 DEF Frames
  <2> QED BY <1>2, <2>5
<1>4. /\ HealthOf(u) = health /\ health < MINIMUM_HEALTH_FACTOR
      /\ health \in Nat /\ before \in Nat /\ MINIMUM_HEALTH_FACTOR \in Nat
  <2>1. HealthOf(u) = health
    BY HealthOfIs DEF HealthIn, State
  <2>2. HealthOf(u) < MINIMUM_HEALTH_FACTOR
    BY <1>1 DEF Liquidatable, HealthOf
  <2>3. State \in States /\ Committed \in States /\ priceFeed \in [Listed -> PriceFeed]
    BY CommittedState DEF StepsInv, StateOK, WorldOK
  <2> QED BY <2>1, <2>2, <2>3, StateNat, MathFacts DEF MINIMUM_HEALTH_FACTOR
<1>5. frame \in Frames /\ stack \in Seq(Frames) /\ frame = [call |-> call, saved |-> State]
  BY <1>3, Present DEF Frames, StepsInv
<1>6. State.callers = callers
  BY DEF State
<1> HIDE DEF call, frame, health, before, amount
<1>7. health >= before \/ Awaited(stack, u)
  BY <1>4, PresentFair DEF NoWorse, health, before
<1>8. ASSUME u \notin callers
      PROVE  /\ before < MINIMUM_HEALTH_FACTOR /\ health >= before
             /\ s_BuscAmountMintedByUser[u] <= Committed.debts[u]
  <2>1. Kept(priceFeed, State, stack, Committed, u) /\ ~Seizing(stack, u)
    BY <1>1, <1>8, PresentFair, NoneSeizing
  <2>2. /\ State.debts = s_BuscAmountMintedByUser
        /\ State.debts[u] \in Nat /\ Committed.debts[u] \in Nat
    BY CommittedState, Present, StateNat DEF State, StepsInv, WorldOK
  <2>3. CASE State.deposits[u] = Committed.deposits[u] /\ State.debts[u] = Committed.debts[u]
    <3>1. health = before
      BY <2>3 DEF health, before, HealthIn
    <3> QED BY <1>4, <2>2, <2>3, <3>1
  <2>4. CASE /\ HealthIn(priceFeed, Committed, u) < MINIMUM_HEALTH_FACTOR
             /\ State.debts[u] < Committed.debts[u]
             /\ HealthIn(priceFeed, State, u) > HealthIn(priceFeed, Committed, u)
    BY <1>4, <2>2, <2>4 DEF health, before
  <2> QED BY <2>1, <2>3, <2>4 DEF Kept
<1>9. FairStart(priceFeed, frame, stack, Committed)
  <2>1. call.debt > 0 /\ (call.health >= before \/ Awaited(stack, call.user))
    BY <1>1, <1>2, <1>4, <1>7
  <2>2. call.user \notin callers \cup {call.by} =>
           before < MINIMUM_HEALTH_FACTOR /\ call.health >= before
    BY <1>2, <1>4, <1>8
  <2> QED BY <1>2, <1>6, <2>1, <2>2 DEF FairStart, before
<1>10. FairMove(State', Append(stack, frame), callers \cup {call.by}, u)
  <2>1. Awaits(frame.call, u) /\ Seizes(frame.call, u)
    BY <1>2 DEF Awaits, Seizes
  <2>2. Seizing(Append(stack, frame), u)
    BY <1>5, <2>1, CallsAppend
  <2>3. State'.debts[u] = s_BuscAmountMintedByUser[u]
    BY <1>1 DEF State
  <2> QED BY <1>5, <1>8, <2>1, <2>2, <2>3, AwaitedMove DEF FairMove, Kept
<1>11. \A w \in Users : \/ Unmoved(State, State', w)
                        \/ FairMove(State', Append(stack, frame), callers \cup {call.by}, w)
  BY <1>1, <1>10, OthersUnmoved
<1> QED BY <1>1, <1>3, <1>5, <1>9, <1>11, PushFair

-----------------------------------------------------------------------------

LEMMA LeaveDepositFair ==
  ASSUME StepsInv, StepsInv', FairInv, LeaveDeposit
  PROVE  FairInv' /\ Settled
<1>1. /\ ~Idle /\ Waiting.fn = "deposit" /\ Pop /\ UNCHANGED <<positions, priceFeed>>
  BY DEF LeaveDeposit, world
<1>2. \A u \in Users : Unmoved(State, State', u) /\ ~Awaits(Waiting, u)
  BY <1>1, NobodyMoved DEF Awaits, Seizes
<1> QED BY <1>1, <1>2, PopFair

\* A caller whose health the call has read at its end.
LEMMA CheckedPopFair ==
  ASSUME StepsInv, StepsInv', FairInv, ~Idle, Pop, UNCHANGED priceFeed,
         HealthIn(priceFeed, State', Waiting.by) >= MINIMUM_HEALTH_FACTOR,
         \A u \in Users \ {Waiting.by} :
            Unmoved(State, State', u) /\ ~Awaits(Waiting, u)
  PROVE  FairInv' /\ Settled
<1>1. FairMove(State', Front(stack), callers, Waiting.by)
  BY BelowFair DEF FairMove, NoWorse
<1> QED BY <1>1, PopFair

LEMMA LeaveDepositAndMintFair ==
  ASSUME StepsInv, StepsInv', FairInv, LeaveDepositAndMint
  PROVE  FairInv' /\ Settled
<1> DEFINE u == Waiting.by
           debt == s_BuscAmountMintedByUser[u] + Waiting.mint
<1>1. /\ ~Idle /\ Waiting.fn = "deposit" /\ Pop
      /\ UNCHANGED <<s_userCollateralDeposits, priceFeed>>
      /\ HealthChecked(s_userCollateralDeposits[u], debt)
      /\ s_BuscAmountMintedByUser' =
            [s_BuscAmountMintedByUser EXCEPT ![u] = @ + Waiting.mint]
  BY DEF LeaveDepositAndMint, MintBUSCOK, world
<1>2. u \in Users /\ Waiting.token \in Tokens
  BY <1>1, BelowWaiting DEF Call
<1>3. s_BuscAmountMintedByUser'[u] = debt
  BY <1>1, <1>2, PresentFacts
<1> HIDE DEF debt
<1>4. HealthIn(priceFeed, State', u) >= MINIMUM_HEALTH_FACTOR
  BY <1>1, <1>3, CheckedIn
<1>5. \A w \in Users \ {u} : Unmoved(State, State', w) /\ ~Awaits(Waiting, w)
  BY <1>1, <1>2, OthersUnmoved DEF Awaits, Seizes
<1> QED BY <1>1, <1>4, <1>5, CheckedPopFair

LEMMA LeavePullFair ==
  ASSUME StepsInv, StepsInv', FairInv, LeavePull \/ LeavePullAndBurn
  PROVE  FairInv' /\ Settled
<1>1. /\ ~Idle /\ Waiting.fn \in {"pull", "pullAndBurn"} /\ Pop
      /\ UNCHANGED <<positions, priceFeed>>
      /\ HealthChecked(s_userCollateralDeposits[Waiting.by],
                       s_BuscAmountMintedByUser[Waiting.by])
  BY DEF LeavePull, LeavePullAndBurn, vars, world
<1>2. HealthIn(priceFeed, State', Waiting.by) >= MINIMUM_HEALTH_FACTOR
  BY <1>1, CheckedIn DEF positions
<1>3. \A w \in Users \ {Waiting.by} : Unmoved(State, State', w) /\ ~Awaits(Waiting, w)
  BY <1>1, NobodyMoved DEF Awaits, Seizes
<1> QED BY <1>1, <1>2, <1>3, CheckedPopFair

LEMMA LeaveLiquidateFair ==
  ASSUME StepsInv, StepsInv', FairInv, LeaveLiquidate
  PROVE  FairInv' /\ Settled
<1> DEFINE u == Waiting.user
           debt == Waiting.debt
           before == HealthIn(priceFeed, Committed, u)
           after == HealthIn(priceFeed, State', u)
           below == Front(stack)
<1>1. /\ ~Idle /\ Waiting.fn = "liquidate" /\ Pop
      /\ UNCHANGED <<s_userCollateralDeposits, priceFeed>>
      /\ s_BuscAmountMintedByUser' = Repaid(u, debt)
      /\ debt <= s_BuscAmountMintedByUser[u]
      /\ HealthWith(Repaid(u, debt), u) > Waiting.health
  BY DEF LeaveLiquidate, world, RepayOK
<1>2. u \in Users /\ Waiting.token \in Tokens /\ debt \in Nat /\ Waiting.health \in Nat
  BY <1>1, BelowWaiting, UintNat DEF Call
<1>3. after > Waiting.health
  BY <1>1, HealthFactorIs DEF HealthWith, HealthIn, State
<1>4. /\ before \in Nat /\ after \in Nat
      /\ State.debts[u] \in Nat /\ Committed.debts[u] \in Nat
  <2>1. /\ Committed \in States /\ State \in States /\ State' \in States
        /\ priceFeed \in [Listed -> PriceFeed]
    BY CommittedState DEF StepsInv, StateOK, WorldOK
  <2> QED BY <1>2, <2>1, StateNat
<1>5. State'.debts[u] = State.debts[u] - debt
  BY <1>1, <1>2, PresentFacts DEF State, Repaid
<1>6. /\ debt > 0
      /\ Waiting.health >= before \/ Awaited(below, u)
      /\ u \notin Last(stack).saved.callers \cup {Waiting.by} =>
            before < MINIMUM_HEALTH_FACTOR /\ Waiting.health >= before
  BY <1>1, BelowFair DEF FairStart, Waiting
<1> HIDE DEF u, debt, before, after, below
<1>7. NoWorse(priceFeed, State', below, Committed, u)
  <2>1. after >= before \/ Awaited(below, u)
    BY <1>2, <1>3, <1>4, <1>6
  <2> QED BY <2>1 DEF NoWorse, after, before
<1>8. ASSUME u \notin callers PROVE Kept(priceFeed, State', below, Committed, u)
  <2>1. u \notin Last(stack).saved.callers \cup {Waiting.by}
    BY <1>1, <1>8, BelowFair
  <2>2. before < MINIMUM_HEALTH_FACTOR /\ after > before
    BY <1>2, <1>3, <1>4, <1>6, <2>1
  <2>3. Kept(priceFeed, State, stack, Committed, u)
    BY <1>2, <1>8, PresentFair
  <2>4. State.debts[u] <= Committed.debts[u]
    BY <1>4, <2>3 DEF Kept
  <2>5. State'.debts[u] < Committed.debts[u]
    BY <1>2, <1>4, <1>5, <1>6, <2>4
  <2> QED BY <2>2, <2>5 DEF Kept, before, after
<1>9. FairMove(State', below, callers, u)
  BY <1>7, <1>8 DEF FairMove
<1>10. \A w \in Users \ {u} : Unmoved(State, State', w) /\ ~Awaits(Waiting, w)
  <2>1. \A w \in Users \ {u} : ~Awaits(Waiting, w)
    BY <1>1 DEF Awaits, Seizes, u
  <2> QED BY <1>1, <1>2, <2>1, OthersUnmoved
<1> QED BY <1>1, <1>9, <1>10, PopFair DEF below

-----------------------------------------------------------------------------

LEMMA DirectCallFair ==
  ASSUME StepsInv, StepsInv', FairInv, NEW u \in Users, DirectCall(u)
  PROVE  FairInv'
<1>1. ASSUME NEW b \in BuscAmounts, LockedMint(u, b)
      PROVE  FairInv'
  <2> DEFINE debt == s_BuscAmountMintedByUser[u] + b
  <2>1. /\ HealthChecked(s_userCollateralDeposits[u], debt) /\ Direct(u)
        /\ UNCHANGED <<priceFeed, s_userCollateralDeposits>>
        /\ s_BuscAmountMintedByUser' = [s_BuscAmountMintedByUser EXCEPT ![u] = @ + b]
    BY <1>1 DEF LockedMint, MintBUSC, MintBUSCOK, world
  <2>2. s_BuscAmountMintedByUser'[u] = debt
    BY <2>1, PresentFacts
  <2> HIDE DEF debt
  <2>3. HealthIn(priceFeed, State', u) >= MINIMUM_HEALTH_FACTOR
    BY <2>1, <2>2, CheckedIn
  <2>4. \A w \in Users \ {u} : Unmoved(State, State', w)
    BY <2>1, PresentFacts DEF Unmoved, State
  <2> QED BY <2>1, <2>3, <2>4, DirectFair
<1>2. ASSUME NEW b \in BuscAmounts, DirectBurn(u, b)
      PROVE  FairInv'
  <2>1. /\ HealthChecked(s_userCollateralDeposits[u], Repaid(u, b)[u]) /\ Direct(u)
        /\ UNCHANGED <<priceFeed, s_userCollateralDeposits>>
        /\ s_BuscAmountMintedByUser' = Repaid(u, b)
    BY <1>2 DEF DirectBurn, BurnBUSC, BurnBUSCOK, world
  <2>2. HealthIn(priceFeed, State', u) >= MINIMUM_HEALTH_FACTOR
    BY <2>1, CheckedIn
  <2>3. \A w \in Users \ {u} : Unmoved(State, State', w)
    BY <2>1, PresentFacts DEF Unmoved, State, Repaid
  <2> QED BY <2>1, <2>2, <2>3, DirectFair
<1>3. CASE DirectTokenCall(u)
  <2>1. Direct(u) /\ UNCHANGED <<positions, priceFeed>>
    BY <1>3, TokenCallKeeps DEF DirectTokenCall
  <2> QED BY <2>1, NobodyMoved, DirectFair
<1> QED BY <1>1, <1>2, <1>3 DEF DirectCall

LEMMA RevertFair ==
  ASSUME StepsInv, StepsInv', FairInv, Revert
  PROVE  FairInv' /\ Settled
<1> DEFINE saved == Last(stack).saved
           below == Front(stack)
<1>1. /\ ~Idle /\ stack' = below /\ UNCHANGED priceFeed
      /\ s_userCollateralDeposits' = saved.deposits
      /\ s_BuscAmountMintedByUser' = saved.debts
      /\ callers' = saved.callers
  BY DEF Revert, world
<1>2. /\ FairState(priceFeed, saved, below, Committed)
      /\ saved.callers \subseteq callers
  BY <1>1, BelowFair
<1> HIDE DEF saved, below
<1>3. ASSUME NEW u \in Users
      PROVE  /\ FairMove(State', stack', callers', u)
             /\ FairMove(State', stack', callers, u)
  <2>1. /\ NoWorse(priceFeed, saved, below, Committed, u)
        /\ u \in saved.callers \/ Kept(priceFeed, saved, below, Committed, u)
    BY <1>2 DEF FairState, FairTo
  <2>2. Unmoved(saved, State', u)
    BY <1>1 DEF Unmoved, State
  <2>3. HealthIn(priceFeed, State', u) = HealthIn(priceFeed, saved, u)
    BY <2>2, UnmovedHealth
  <2>4. /\ NoWorse(priceFeed, State', stack', Committed, u)
        /\ u \in saved.callers \/ Kept(priceFeed, State', stack', Committed, u)
    BY <1>1, <2>1, <2>2, <2>3 DEF NoWorse, Kept, Unmoved
  <2> QED BY <1>1, <1>2, <2>4 DEF FairMove
<1>4. Settled
  BY <1>1, <1>3 DEF Settled, below
<1>5. Named(below, callers')
  BY <1>1, <1>2 DEF FairState
<1> QED BY <1>1, <1>3, <1>4, <1>5, SettledFair DEF below

LEMMA WorldMovesFair ==
  ASSUME StepsInv, StepsInv', FairInv, WorldMoves \/ UNCHANGED allVars
  PROVE  FairInv'
<1>1. CASE WorldMoves
  <2>1. Committed' = State' /\ stack' = <<>>
    BY <1>1 DEF WorldMoves, Committed, Idle
  <2>2. State' \in States /\ priceFeed' \in [Listed -> PriceFeed]
    BY DEF StepsInv, StateOK, WorldOK
  <2>3. FairState(priceFeed', State', <<>>, State') /\ FairFrames(priceFeed', <<>>, State')
    BY <2>2, FairAtRest
  <2> QED BY <2>1, <2>3 DEF FairInv
<1>2. CASE UNCHANGED allVars
  <2>1. /\ State' = State /\ stack' = stack /\ Committed' = Committed
        /\ UNCHANGED priceFeed
    BY <1>2 DEF allVars, vars, positions, world, State, Committed, Idle
  <2> QED BY <2>1 DEF FairInv
<1> QED BY <1>1, <1>2

LEMMA StepFairly ==
  ASSUME StepsInv, FairInv, [StepsNext]_allVars
  PROVE  FairInv' /\ (LeaveCall \/ Revert => Settled)
<1>1. StepsInv'
  BY StepKeeps
<1>2. CollateralAmounts \subseteq Uint /\ BuscAmounts \subseteq Uint /\ 0 \in Uint
  BY MotorAssumption, UintNat
<1>3. ASSUME NEW u \in Users, EnterCall(u) PROVE FairInv'
  BY <1>1, <1>2, <1>3, EnterDepositFair, EnterPullFair, EnterLiquidateFair DEF EnterCall
<1>4. ASSUME NEW u \in Users, DirectCall(u) PROVE FairInv'
  BY <1>1, <1>4, DirectCallFair
<1>5. ASSUME LeaveCall PROVE FairInv' /\ Settled
  BY <1>1, <1>5, LeaveDepositFair, LeaveDepositAndMintFair, LeavePullFair,
     LeaveLiquidateFair DEF LeaveCall
<1>6. ASSUME Revert PROVE FairInv' /\ Settled
  BY <1>1, <1>6, RevertFair
<1>7. ASSUME WorldMoves \/ UNCHANGED allVars PROVE FairInv'
  BY <1>1, <1>7, WorldMovesFair
<1>8. FairInv'
  BY <1>3, <1>4, <1>5, <1>6, <1>7 DEF StepsNext
<1> QED BY <1>5, <1>6, <1>8

LEMMA FairInit ==
  ASSUME StepsInit
  PROVE  FairInv
<1>1. StepsInv
  BY StepsInitInvariant
<1>2. stack = <<>> /\ Committed = State
  BY DEF StepsInit, Committed, Idle
<1>3. State \in States /\ priceFeed \in [Listed -> PriceFeed]
  BY <1>1, Present DEF StepsInv, WorldOK
<1> QED BY <1>2, <1>3, FairAtRest DEF FairInv

\* Only a call that leaves, or reverts, takes the last frame off the stack.
LEMMA CommitLeaves ==
  ASSUME StepsInv, [StepsNext]_allVars, Commits
  PROVE  LeaveCall \/ Revert
<1>1. stack \in Seq(Frames) /\ Len(stack) = 1 /\ stack' = <<>> /\ stack # <<>>
  BY DEF StepsInv, Commits, Idle
<1>2. ASSUME NEW u \in Users PROVE ~EnterCall(u)
  <2>1. \A x : Append(stack, x) # <<>>
    BY <1>1
  <2> QED BY <1>1, <2>1 DEF EnterCall, EnterDeposit, EnterPull, EnterPullAndBurn,
                            EnterLiquidate, Push
<1>3. ASSUME NEW u \in Users PROVE ~DirectCall(u)
  BY <1>1 DEF DirectCall, LockedMint, DirectBurn, DirectTokenCall, Direct
<1>4. ~WorldMoves /\ ~UNCHANGED allVars
  BY <1>1 DEF WorldMoves, Idle, allVars
<1> QED BY <1>2, <1>3, <1>4 DEF StepsNext

\* What a transaction has left when it is over.
LEMMA CommitsFairly ==
  ASSUME StepsInv, FairInv, [StepsNext]_allVars, Commits, NEW u \in Users
  PROVE  LET before == HealthIn(priceFeed, Committed, u)
             after == HealthIn(priceFeed, State', u)
         IN  /\ UNCHANGED priceFeed
             /\ before \in Nat /\ after \in Nat
             /\ after >= MINIMUM_HEALTH_FACTOR \/ after >= before
             /\ \/ u \in callers
                \/ State'.deposits[u] = Committed.deposits[u]
                \/ /\ before < MINIMUM_HEALTH_FACTOR
                   /\ State'.debts[u] < Committed.debts[u]
                   /\ after > before
<1>1. StepsInv' /\ Settled
  BY CommitLeaves, StepFairly, StepKeeps
<1>2. stack' = <<>> /\ DOMAIN <<>> = {}
  BY DEF Commits, Idle
<1>3. ~Awaited(stack', u) /\ ~Seizing(stack', u)
  BY <1>2 DEF Awaited, Seizing
<1>4. FairMove(State', stack', callers, u) /\ UNCHANGED priceFeed
  BY <1>1 DEF Settled
<1>5. /\ HealthIn(priceFeed, Committed, u) \in Nat /\ HealthIn(priceFeed, State', u) \in Nat
  <2>1. Committed \in States /\ State' \in States /\ priceFeed \in [Listed -> PriceFeed]
    BY <1>1, CommittedState DEF StepsInv, StateOK, WorldOK
  <2> QED BY <2>1, StateNat
<1> QED BY <1>3, <1>4, <1>5 DEF FairMove, NoWorse, Kept

LEMMA AtomicSum ==
  ASSUME NEW f
  PROVE  Atomic!SumFunction(f) = SumFunction(f)
BY DEF Atomic!SumFunction, Atomic!SumFunctionOnSet, Atomic!FoldFunctionOnSet,
       Atomic!MapThenFoldSet, SumFunction, SumFunctionOnSet,
       FoldFunctionOnSet, MapThenFoldSet

\* The health factor that Atomic reads is that of the committed state.
LEMMA AtomicHealthIs ==
  ASSUME NEW u
  PROVE  /\ Atomic!HealthOf(u) = HealthIn(priceFeed, Committed, u)
         /\ Atomic!Healthy(u) <=>
               HealthIn(priceFeed, Committed, u) >= MINIMUM_HEALTH_FACTOR
         /\ UNCHANGED priceFeed => HealthOf(u)' = HealthIn(priceFeed, State', u)
<1>1. Atomic!HealthOf(u) = HealthIn(priceFeed, Committed, u)
  BY AtomicSum DEF Atomic!HealthOf, Atomic!HealthFactor, Atomic!CollateralValue, Atomic!ValueOf,
         Atomic!ValueInUSD, Atomic!Price, Atomic!Wrap, Atomic!CalculateHealthFactor,
         Atomic!AdjustedCollateralThreshold, Atomic!LIQUIDATION_THRESHOLD_PERCENT,
         Atomic!LIQUIDATION_PRECISION, HealthIn, HealthAt, ValueAt,
         ValueInUSD, Price, Wrap, CalculateHealthFactor, AdjustedCollateralThreshold,
         LIQUIDATION_THRESHOLD_PERCENT, LIQUIDATION_PRECISION
<1>2. Atomic!MINIMUM_HEALTH_FACTOR = MINIMUM_HEALTH_FACTOR
  BY DEF Atomic!MINIMUM_HEALTH_FACTOR, MINIMUM_HEALTH_FACTOR
<1>3. UNCHANGED priceFeed => HealthOf(u)' = HealthIn(priceFeed, State', u)
  BY HealthOfIs DEF HealthIn, State
<1> QED BY <1>1, <1>2, <1>3 DEF Atomic!Healthy

(***************************************************************************)
(* No transaction leaves anybody unhealthy and worse off than before,      *)
(* however deep its callbacks call the motor again and whatever they       *)
(* revert: whoever a waiting call has hurt is checked before it returns.   *)
(***************************************************************************)
THEOREM WorseForNobody == StepsSpec => NobodyLeftWorse
<1>1. StepsInit => StepsInv /\ FairInv
  BY StepsInitInvariant, FairInit
<1>2. StepsInv /\ FairInv /\ [StepsNext]_allVars => StepsInv' /\ FairInv'
  BY StepKeeps, StepFairly
<1>3. StepsInv /\ FairInv /\ [StepsNext]_allVars =>
         [Commits => \A u \in Users : \/ Healthy(u)'
                                      \/ HealthOf(u)' >= Atomic!HealthOf(u)]_allVars
  BY CommitsFairly, AtomicHealthIs DEF Healthy
<1> QED BY <1>1, <1>2, <1>3, PTL DEF StepsSpec, NobodyLeftWorse

(***************************************************************************)
(* Who takes no part in a transaction loses collateral in it only to       *)
(* liquidate, and then as liquidate promises: unhealthy before, with less  *)
(* debt and a better health factor after, although liquidate compares with *)
(* a health factor read before its callback.                               *)
(***************************************************************************)
THEOREM BystandersSafe == StepsSpec => BystandersKept
<1>1. StepsInit => StepsInv /\ FairInv
  BY StepsInitInvariant, FairInit
<1>2. StepsInv /\ FairInv /\ [StepsNext]_allVars => StepsInv' /\ FairInv'
  BY StepKeeps, StepFairly
<1>3. ASSUME StepsInv, FairInv, [StepsNext]_allVars, Commits,
             NEW u \in Users \ callers, NEW t \in Tokens,
             s_userCollateralDeposits'[u][t] < Committed.deposits[u][t]
      PROVE  /\ ~Atomic!Healthy(u)
             /\ s_BuscAmountMintedByUser'[u] < Committed.debts[u]
             /\ HealthOf(u)' > Atomic!HealthOf(u)
  <2> DEFINE before == HealthIn(priceFeed, Committed, u)
             after == HealthIn(priceFeed, State', u)
  <2>1. /\ UNCHANGED priceFeed /\ before \in Nat /\ after \in Nat
        /\ \/ State'.deposits[u] = Committed.deposits[u]
           \/ /\ before < MINIMUM_HEALTH_FACTOR
              /\ State'.debts[u] < Committed.debts[u]
              /\ after > before
    BY <1>3, CommitsFairly
  <2>2. /\ State'.deposits = s_userCollateralDeposits'
        /\ State'.debts = s_BuscAmountMintedByUser'
    BY DEF State
  <2>3. Committed.deposits[u][t] \in Nat
    <3>1. Committed \in States /\ priceFeed \in [Listed -> PriceFeed]
      BY <1>3, CommittedState DEF StepsInv, WorldOK
    <3> QED BY <3>1, StateNat
  <2>4. /\ before < MINIMUM_HEALTH_FACTOR
        /\ State'.debts[u] < Committed.debts[u]
        /\ after > before
    BY <1>3, <2>1, <2>2, <2>3
  <2>5. /\ Atomic!HealthOf(u) = before
        /\ Atomic!Healthy(u) <=> before >= MINIMUM_HEALTH_FACTOR
        /\ HealthOf(u)' = after
    BY <2>1, AtomicHealthIs
  <2> HIDE DEF before, after
  <2> QED BY <2>1, <2>2, <2>4, <2>5, MathFacts DEF MINIMUM_HEALTH_FACTOR
<1>4. StepsInv /\ FairInv /\ [StepsNext]_allVars =>
         [Commits =>
             \A u \in Users \ callers, t \in Tokens :
                s_userCollateralDeposits'[u][t] < Committed.deposits[u][t] =>
                   /\ ~Atomic!Healthy(u)
                   /\ s_BuscAmountMintedByUser'[u] < Committed.debts[u]
                   /\ HealthOf(u)' > Atomic!HealthOf(u)]_allVars
  BY <1>3
<1> QED BY <1>1, <1>2, <1>4, PTL DEF StepsSpec, BystandersKept

-----------------------------------------------------------------------------
(* Transactions without callbacks.  BUSCmotor is instantiated over the     *)
(* committed state; its operators are those of this module.                *)

LEMMA AtomicLedger ==
  ASSUME NEW token, NEW from, NEW to, NEW spender, NEW amount
  PROVE  /\ Atomic!TransferOK(token, from, amount) <=> TransferOK(token, from, amount)
         /\ Atomic!Transfer(token, from, to, amount) = Transfer(token, from, to, amount)
         /\ Atomic!SpendAllowanceOK(token, from, spender, amount)
               <=> SpendAllowanceOK(token, from, spender, amount)
         /\ Atomic!SpendAllowance(token, from, spender, amount)
               = SpendAllowance(token, from, spender, amount)
         /\ Atomic!Approve(token, from, spender, amount) = Approve(token, from, spender, amount)
         /\ Atomic!MintOK(token, amount) <=> MintOK(token, amount)
         /\ Atomic!Mint(token, to, amount) = Mint(token, to, amount)
         /\ Atomic!BurnOK(token, from, amount) <=> BurnOK(token, from, amount)
         /\ Atomic!Burn(token, from, amount) = Burn(token, from, amount)
BY DEF Atomic!TransferOK, TransferOK, Atomic!Transfer, Transfer,
       Atomic!SpendAllowanceOK, SpendAllowanceOK, Atomic!SpendAllowance, SpendAllowance,
       Atomic!Approve, Approve, Atomic!MintOK, MintOK, Atomic!Mint, Mint,
       Atomic!BurnOK, BurnOK, Atomic!Burn, Burn, Atomic!AddOK, AddOK, Atomic!Wrap, Wrap

LEMMA AtomicLedgerFrom ==
  ASSUME NEW token, NEW from, NEW to, NEW spender, NEW amount
  PROVE  /\ Atomic!TransferFromOK(token, spender, from, amount)
               <=> TransferFromOK(token, spender, from, amount)
         /\ Atomic!TransferFrom(token, spender, from, to, amount)
               = TransferFrom(token, spender, from, to, amount)
         /\ Atomic!BurnFromOK(token, spender, from, amount)
               <=> BurnFromOK(token, spender, from, amount)
         /\ Atomic!BurnFrom(token, spender, from, amount)
               = BurnFrom(token, spender, from, amount)
BY AtomicLedger DEF Atomic!TransferFromOK, TransferFromOK, Atomic!TransferFrom,
   TransferFrom, Atomic!BurnFromOK, BurnFromOK, Atomic!BurnFrom, BurnFrom

\* Whether the health factor of a position can be read from the given feeds.
ReadOK(feeds, time, deposits, debt) ==
    /\ \A t \in Listed :
          /\ StalePriceCheckOK(feeds[t], time)
          /\ ValueInUSDOK(feeds[t].answer, Scale[t], deposits[t])
    /\ SumFunction(ValueAt(feeds, deposits)) <= MaxUint
    /\ CalculateHealthFactorOK(debt, SumFunction(ValueAt(feeds, deposits)))

LEMMA ReadIs ==
  ASSUME NEW deposits, NEW debt
  PROVE  HealthFactorOK(deposits, debt) <=> ReadOK(priceFeed, now, deposits, debt)
BY DEF HealthFactorOK, CollateralValueOK, CollateralValue, ValueOf, ValueAt, ReadOK

LEMMA AtomicHealth ==
  ASSUME NEW deposits, NEW debt
  PROVE  /\ Atomic!HealthFactorOK(deposits, debt) <=> HealthFactorOK(deposits, debt)
         /\ Atomic!HealthFactor(deposits, debt) = HealthFactor(deposits, debt)
         /\ Atomic!HealthChecked(deposits, debt) <=> HealthChecked(deposits, debt)
<1>1. Atomic!CollateralValue(deposits) = CollateralValue(deposits)
  BY AtomicSum DEF Atomic!CollateralValue, Atomic!ValueOf, Atomic!ValueInUSD,
     Atomic!Price, Atomic!Wrap, CollateralValue, ValueOf, ValueInUSD, Price, Wrap
<1>2. Atomic!HealthFactor(deposits, debt) = HealthFactor(deposits, debt)
  BY <1>1 DEF Atomic!HealthFactor, Atomic!CalculateHealthFactor,
     Atomic!AdjustedCollateralThreshold, Atomic!LIQUIDATION_THRESHOLD_PERCENT,
     Atomic!LIQUIDATION_PRECISION, HealthFactor, CalculateHealthFactor,
     AdjustedCollateralThreshold, LIQUIDATION_THRESHOLD_PERCENT, LIQUIDATION_PRECISION
<1>3. Atomic!HealthFactorOK(deposits, debt) <=> HealthFactorOK(deposits, debt)
  <2>1. Atomic!CollateralValueOK(deposits) <=> CollateralValueOK(deposits)
    BY <1>1 DEF Atomic!CollateralValueOK, Atomic!StalePriceCheckOK, Atomic!ValueInUSDOK,
       Atomic!PriceOK, Atomic!Price, Atomic!Wrap, Atomic!MulOK, CollateralValueOK,
       StalePriceCheckOK, ValueInUSDOK, PriceOK, Price, Wrap, MulOK
  <2> QED BY <1>1, <2>1 DEF Atomic!HealthFactorOK, Atomic!CalculateHealthFactorOK,
     Atomic!AdjustedCollateralThreshold, Atomic!LIQUIDATION_THRESHOLD_PERCENT,
     Atomic!LIQUIDATION_PRECISION, Atomic!MulOK, HealthFactorOK, CalculateHealthFactorOK,
     AdjustedCollateralThreshold, LIQUIDATION_THRESHOLD_PERCENT, LIQUIDATION_PRECISION,
     MulOK
<1>4. Atomic!MINIMUM_HEALTH_FACTOR = MINIMUM_HEALTH_FACTOR
  BY DEF Atomic!MINIMUM_HEALTH_FACTOR, MINIMUM_HEALTH_FACTOR
<1> QED BY <1>2, <1>3, <1>4 DEF Atomic!HealthChecked, HealthChecked

LEMMA AtomicSeizure ==
  ASSUME NEW answer, NEW debt
  PROVE  /\ Atomic!SeizedCollateralOK(answer, debt) <=> SeizedCollateralOK(answer, debt)
         /\ Atomic!SeizedCollateral(answer, debt) = SeizedCollateral(answer, debt)
BY DEF Atomic!SeizedCollateralOK, Atomic!SeizedCollateral, Atomic!TokenAmountFromUSDweiOK,
       Atomic!TokenAmountFromUSDwei, Atomic!LiquidationBonus, Atomic!LIQUIDATION_BONUS,
       Atomic!LIQUIDATION_PRECISION, Atomic!MulOK, Atomic!AddOK, Atomic!Price,
       Atomic!PriceOK, Atomic!Wrap,
       SeizedCollateralOK, SeizedCollateral, TokenAmountFromUSDweiOK,
       TokenAmountFromUSDwei, LiquidationBonus, LIQUIDATION_BONUS,
       LIQUIDATION_PRECISION, MulOK, AddOK, Price, PriceOK, Wrap

\* How a call begins: what its first statements found in saved and made of
\* it before the callback.
PullsOut(saved, state, from, to, t, amount) ==
    /\ amount <= saved.deposits[from][t]
    /\ TransferOK(saved.collateral[t], Motor, amount)
    /\ state.deposits = [saved.deposits EXCEPT ![from][t] = @ - amount]
    /\ state.collateral =
          [saved.collateral EXCEPT ![t] = Transfer(@, Motor, to, amount)]

Repays(saved, after, debtor, payer, amount) ==
    LET paid == TransferFrom(saved.busc, Motor, payer, Motor, amount)
    IN  /\ amount <= saved.debts[debtor]
        /\ TransferFromOK(saved.busc, Motor, payer, amount)
        /\ BurnOK(paid, Motor, amount)
        /\ after.debts = [saved.debts EXCEPT ![debtor] = @ - amount]
        /\ after.busc = Burn(paid, Motor, amount)

NothingRepaid(saved, state) == state.debts = saved.debts /\ state.busc = saved.busc

BegunDeposit(call, saved, state) ==
    LET u == call.by
        t == call.token
    IN  /\ call.amount \in CollateralAmounts /\ call.mint \in BuscAmounts \cup {0}
        /\ call.amount > 0 /\ t \in Listed
        /\ AddOK(saved.deposits[u][t], call.amount)
        /\ SpendAllowanceOK(saved.collateral[t], u, Motor, call.amount)
        /\ state.deposits = [saved.deposits EXCEPT ![u][t] = @ + call.amount]
        /\ state.collateral = [saved.collateral EXCEPT
                                  ![t] = SpendAllowance(@, u, Motor, call.amount)]
        /\ NothingRepaid(saved, state)

BegunPull(call, saved, state) ==
    /\ call.amount \in CollateralAmounts /\ call.amount > 0
    /\ PullsOut(saved, state, call.by, call.by, call.token, call.amount)
    /\ NothingRepaid(saved, state)

BegunPullAndBurn(call, saved, state) ==
    /\ call.amount \in CollateralAmounts /\ call.amount > 0
    /\ call.token \in Listed
    /\ PullsOut(saved, state, call.by, call.by, call.token, call.amount)
    /\ \E burn \in BuscAmounts :
          burn > 0 /\ Repays(saved, state, call.by, call.by, burn)

BegunLiquidate(feeds, time, call, saved, state) ==
    LET u == call.user
        t == call.token
    IN  /\ call.debt \in BuscAmounts /\ call.debt > 0 /\ t \in Listed
        /\ ReadOK(feeds, time, saved.deposits[u], saved.debts[u])
        /\ call.health = HealthIn(feeds, saved, u)
        /\ call.health < MINIMUM_HEALTH_FACTOR
        /\ SeizedCollateralOK(feeds[t].answer, call.debt)
        /\ call.amount = SeizedCollateral(feeds[t].answer, call.debt)
        /\ PullsOut(saved, state, u, call.by, t, call.amount)
        /\ NothingRepaid(saved, state)

Begun(feeds, time, call, saved, state) ==
    /\ call.fn = "deposit" => BegunDeposit(call, saved, state)
    /\ call.fn = "pull" => BegunPull(call, saved, state)
    /\ call.fn = "pullAndBurn" => BegunPullAndBurn(call, saved, state)
    /\ call.fn = "liquidate" => BegunLiquidate(feeds, time, call, saved, state)

\* Until somebody calls from a callback one call waits, and state is what it
\* has made of the committed one.
BegunState(feeds, time, state, frames) ==
    ~state.reentered /\ frames # <<>> =>
        /\ Len(frames) = 1
        /\ Begun(feeds, time, frames[1].call, frames[1].saved, state)

BegunFrames(feeds, time, frames) ==
    \A i \in 1..Len(frames) :
        BegunState(feeds, time, frames[i].saved, SubSeq(frames, 1, i - 1))

BegunInv ==
    /\ BegunState(priceFeed, now, State, stack)
    /\ BegunFrames(priceFeed, now, stack)

LEMMA BegunAppend ==
  ASSUME NEW frames \in Seq(Frames), NEW frame \in Frames, NEW feeds, NEW time
  PROVE  BegunFrames(feeds, time, Append(frames, frame)) <=>
            /\ BegunFrames(feeds, time, frames)
            /\ BegunState(feeds, time, frame.saved, frames)
<1> DEFINE more == Append(frames, frame)
           n == Len(frames)
           OK(f, below) == BegunState(feeds, time, f.saved, below)
<1>1. /\ Len(more) = n + 1 /\ n \in Nat
      /\ \A i \in 1..n : more[i] = frames[i]
      /\ more[n + 1] = frame
      /\ \A i \in 1..(n + 1) : SubSeq(more, 1, i - 1) = SubSeq(frames, 1, i - 1)
      /\ SubSeq(frames, 1, n) = frames
  BY AppendFacts, LenProperties
<1>2. /\ BegunFrames(feeds, time, more) <=>
            \A i \in 1..Len(more) : OK(more[i], SubSeq(more, 1, i - 1))
      /\ BegunFrames(feeds, time, frames) <=>
            \A i \in 1..n : OK(frames[i], SubSeq(frames, 1, i - 1))
  BY DEF BegunFrames
<1> HIDE DEF more, n, OK
<1>3. /\ 1..(n + 1) = 1..n \cup {n + 1} /\ (n + 1) - 1 = n
  BY <1>1
<1>4. BegunFrames(feeds, time, more) <=>
         BegunFrames(feeds, time, frames) /\ OK(frame, frames)
  BY <1>1, <1>2, <1>3
<1> QED BY <1>4 DEF more, OK

LEMMA BegunAtRest ==
  ASSUME NEW feeds, NEW time, NEW state
  PROVE  BegunState(feeds, time, state, <<>>) /\ BegunFrames(feeds, time, <<>>)
<1>1. 1..Len(<<>>) = {}
  OBVIOUS
<1> QED BY <1>1 DEF BegunState, BegunFrames

LEMMA PushBegun ==
  ASSUME StepsInv, BegunInv, NEW call \in Call, Push(call), UNCHANGED world,
         Begun(priceFeed, now, call, State, State')
  PROVE  BegunInv'
<1> DEFINE frame == [call |-> call, saved |-> State]
<1>1. /\ frame \in Frames /\ frame.call = call /\ frame.saved = State
      /\ stack \in Seq(Frames)
  BY Present DEF Frames, StepsInv
<1>2. /\ stack' = Append(stack, frame) /\ reentered' = (reentered \/ ~Idle)
      /\ State'.reentered = reentered'
      /\ UNCHANGED <<priceFeed, now>>
  BY DEF Push, Called, State, world
<1> HIDE DEF frame
<1>3. BegunFrames(priceFeed, now, stack')
  BY <1>1, <1>2, BegunAppend DEF BegunInv
<1>4. BegunState(priceFeed, now, State', stack')
  <2>1. CASE Idle
    <3>1. /\ Len(<<>>) = 0 /\ Len(stack') = Len(stack) + 1
          /\ stack'[Len(stack) + 1] = frame
      BY <1>1, <1>2, AppendFacts
    <3>2. Len(stack') = 1 /\ stack'[1] = frame
      BY <2>1, <3>1 DEF Idle
    <3> QED BY <1>1, <3>2 DEF BegunState
  <2>2. CASE ~Idle
    BY <1>2, <2>2 DEF BegunState
  <2> QED BY <2>1, <2>2
<1> QED BY <1>2, <1>3, <1>4 DEF BegunInv

\* A call that is over, or reverts: the frames below it are left.
LEMMA BelowBegun ==
  ASSUME StepsInv, BegunInv, ~Idle
  PROVE  /\ Front(stack) \in Seq(Frames) /\ Last(stack) \in Frames
         /\ BegunFrames(priceFeed, now, Front(stack))
         /\ BegunState(priceFeed, now, Last(stack).saved, Front(stack))
         /\ ~reentered => /\ Len(stack) = 1 /\ Front(stack) = <<>>
                          /\ Waiting = stack[1].call /\ Committed = stack[1].saved
                          /\ Begun(priceFeed, now, Waiting, Committed, State)
<1> DEFINE below == Front(stack)
           frame == Last(stack)
<1>1. /\ below \in Seq(Frames) /\ frame \in Frames
      /\ Len(below) = Len(stack) - 1 /\ Len(stack) \in Nat \ {0}
      /\ stack = Append(below, frame)
  BY FrontFacts DEF StepsInv, Idle
<1>2. Waiting = frame.call /\ State.reentered = reentered
  BY DEF Waiting, State
<1> HIDE DEF below, frame
<1>3. /\ BegunFrames(priceFeed, now, below)
      /\ BegunState(priceFeed, now, frame.saved, below)
  <2>1. BegunFrames(priceFeed, now, Append(below, frame))
    BY <1>1 DEF BegunInv
  <2> QED BY <1>1, <2>1, BegunAppend
<1>4. ASSUME ~reentered
      PROVE  /\ Len(stack) = 1 /\ below = <<>> /\ frame = stack[1]
             /\ Committed = stack[1].saved
             /\ Begun(priceFeed, now, stack[1].call, stack[1].saved, State)
  <2>1. /\ Len(stack) = 1
        /\ Begun(priceFeed, now, stack[1].call, stack[1].saved, State)
    BY <1>2, <1>4 DEF BegunInv, BegunState, Idle
  <2>2. below = <<>>
    BY <1>1, <2>1, EmptySeq
  <2>3. Append(below, frame)[Len(below) + 1] = frame
    BY <1>1, AppendFacts
  <2>4. stack[1] = frame
    BY <1>1, <2>1, <2>3
  <2> QED BY <2>1, <2>2, <2>4 DEF Committed
<1> QED BY <1>1, <1>2, <1>3, <1>4 DEF below, frame

LEMMA PopBegun ==
  ASSUME StepsInv, BegunInv, ~Idle, Pop, UNCHANGED world
  PROVE  BegunInv'
<1>1. stack' = Front(stack) /\ UNCHANGED <<priceFeed, now>>
  BY DEF Pop, world
<1>2. CASE Front(stack) = <<>>
  BY <1>1, <1>2, BegunAtRest DEF BegunInv
<1>3. CASE Front(stack) # <<>>
  <2>1. reentered
    BY <1>3, BelowBegun
  <2>2. Len(stack) # 1
    <3>1. /\ Front(stack) \in Seq(Frames) /\ Len(stack) \in Nat
          /\ Len(Front(stack)) = Len(stack) - 1
      BY FrontFacts DEF StepsInv, Idle
    <3>2. Len(Front(stack)) # 0
      BY <1>3, <3>1, EmptySeq
    <3> QED BY <3>1, <3>2
  <2>3. reentered' /\ State'.reentered = reentered'
    BY <2>1, <2>2 DEF Pop, State
  <2> QED BY <1>1, <2>3, BelowBegun DEF BegunInv, BegunState
<1> QED BY <1>2, <1>3

LEMMA RevertBegun ==
  ASSUME StepsInv, BegunInv, Revert
  PROVE  BegunInv'
<1> DEFINE saved == Last(stack).saved
<1>1. /\ ~Idle /\ stack' = Front(stack) /\ UNCHANGED <<priceFeed, now>>
      /\ s_userCollateralDeposits' = saved.deposits
      /\ s_BuscAmountMintedByUser' = saved.debts
      /\ busc' = saved.busc /\ collateral' = saved.collateral
      /\ entered' = saved.entered /\ callers' = saved.callers
      /\ reentered' = saved.reentered
  BY DEF Revert, world
<1>2. saved \in States
  BY <1>1, BelowBegun DEF Frames
<1> HIDE DEF saved
<1>3. State' = saved
  BY <1>1, <1>2 DEF State, States
<1> QED BY <1>1, <1>3, BelowBegun DEF BegunInv, saved

LEMMA DirectBegun ==
  ASSUME StepsInv, BegunInv, NEW u, Direct(u), UNCHANGED world
  PROVE  BegunInv'
<1>1. UNCHANGED <<priceFeed, now, stack>> /\ State'.reentered = reentered'
  BY DEF Direct, world, State
<1>2. CASE Idle
  BY <1>1, <1>2, BegunAtRest DEF BegunInv, Idle
<1>3. CASE ~Idle
  <2>1. reentered'
    BY <1>3 DEF Direct, Called
  <2> QED BY <1>1, <2>1 DEF BegunInv, BegunState
<1> QED BY <1>2, <1>3

-----------------------------------------------------------------------------
(* The calls begin.                                                        *)

LEMMA EnterDepositBegun ==
  ASSUME StepsInv, BegunInv, NEW u \in Users, NEW t \in Tokens,
         NEW amount \in CollateralAmounts, NEW mint \in BuscAmounts \cup {0},
         EnterDeposit(u, t, amount, mint)
  PROVE  BegunInv'
<1> DEFINE call == [NewCall("deposit", u, t, amount) EXCEPT !.mint = mint]
<1>1. /\ Push(call) /\ UNCHANGED <<s_BuscAmountMintedByUser, busc, world>>
      /\ amount > 0 /\ t \in Listed
      /\ AddOK(s_userCollateralDeposits[u][t], amount)
      /\ SpendAllowanceOK(collateral[t], u, Motor, amount)
      /\ s_userCollateralDeposits' = Deposited(u, t, amount)
      /\ collateral' = [collateral EXCEPT ![t] = SpendAllowance(@, u, Motor, amount)]
  BY DEF EnterDeposit
<1>2. /\ call \in Call /\ call.by = u /\ call.fn = "deposit" /\ call.token = t
      /\ call.amount = amount /\ call.mint = mint
  <2>1. amount \in Uint /\ mint \in Uint /\ 0 \in Uint /\ 0 \in Nat
    BY MotorAssumption, UintNat
  <2> QED BY <2>1 DEF NewCall, Call
<1> HIDE DEF call
<1>3. BegunDeposit(call, State, State')
  BY <1>1, <1>2 DEF BegunDeposit, NothingRepaid, State, Deposited
<1> QED BY <1>1, <1>2, <1>3, PushBegun DEF Begun

LEMMA EnterPullBegun ==
  ASSUME StepsInv, BegunInv, NEW u \in Users, NEW t \in Tokens,
         NEW amount \in CollateralAmounts, EnterPull(u, t, amount)
  PROVE  BegunInv'
<1> DEFINE call == NewCall("pull", u, t, amount)
<1>1. /\ Push(call) /\ UNCHANGED <<s_BuscAmountMintedByUser, busc, world>>
      /\ amount > 0 /\ PullOK(u, t, amount)
      /\ s_userCollateralDeposits' = Pulled(u, t, amount)
      /\ collateral' = CollateralPaidOut(u, t, amount)
  BY DEF EnterPull
<1>2. /\ call \in Call /\ call.by = u /\ call.fn = "pull" /\ call.token = t
      /\ call.amount = amount
  BY MotorAssumption, NewCallIs DEF NewCall
<1> HIDE DEF call
<1>3. BegunPull(call, State, State')
  BY <1>1, <1>2 DEF BegunPull, PullsOut, NothingRepaid, State, PullOK, Pulled,
                    CollateralPaidOut
<1> QED BY <1>1, <1>2, <1>3, PushBegun DEF Begun

LEMMA EnterPullAndBurnBegun ==
  ASSUME StepsInv, BegunInv, NEW u \in Users, NEW t \in Tokens,
         NEW amount \in CollateralAmounts, NEW burn \in BuscAmounts,
         EnterPullAndBurn(u, t, amount, burn)
  PROVE  BegunInv'
<1> DEFINE call == NewCall("pullAndBurn", u, t, amount)
<1>1. /\ Push(call) /\ UNCHANGED world
      /\ burn > 0 /\ amount > 0 /\ t \in Listed
      /\ RepayOK(u, u, burn) /\ PullOK(u, t, amount)
      /\ s_BuscAmountMintedByUser' = Repaid(u, burn)
      /\ busc' = BUSCBurned(u, burn)
      /\ s_userCollateralDeposits' = Pulled(u, t, amount)
      /\ collateral' = CollateralPaidOut(u, t, amount)
  BY DEF EnterPullAndBurn
<1>2. /\ call \in Call /\ call.by = u /\ call.fn = "pullAndBurn" /\ call.token = t
      /\ call.amount = amount
  BY MotorAssumption, NewCallIs DEF NewCall
<1> HIDE DEF call
<1>3. PullsOut(State, State', u, u, t, amount) /\ Repays(State, State', u, u, burn)
  BY <1>1 DEF PullsOut, Repays, State, PullOK, Pulled, CollateralPaidOut, RepayOK,
              Repaid, BUSCBurned
<1>4. BegunPullAndBurn(call, State, State')
  BY <1>1, <1>2, <1>3 DEF BegunPullAndBurn
<1> QED BY <1>1, <1>2, <1>4, PushBegun DEF Begun

LEMMA EnterLiquidateBegun ==
  ASSUME StepsInv, StepsInv', BegunInv, NEW l \in Users, NEW t \in Tokens,
         NEW u \in Users, NEW debt \in BuscAmounts, EnterLiquidate(l, t, u, debt)
  PROVE  BegunInv'
<1> DEFINE amount == Seized(t, debt)
           call == [NewCall("liquidate", l, t, amount) EXCEPT
                       !.user = u, !.debt = debt, !.health = HealthOf(u)]
           frame == [call |-> call, saved |-> State]
<1>1. /\ Push(call) /\ UNCHANGED <<s_BuscAmountMintedByUser, busc, world>>
      /\ debt > 0 /\ t \in Listed /\ Liquidatable(u)
      /\ SeizedCollateralOK(priceFeed[t].answer, debt)
      /\ PullOK(u, t, amount)
      /\ s_userCollateralDeposits' = Pulled(u, t, amount)
      /\ collateral' = CollateralPaidOut(l, t, amount)
  BY DEF EnterLiquidate
<1>2. /\ call.fn = "liquidate" /\ call.by = l /\ call.user = u /\ call.debt = debt
      /\ call.health = HealthOf(u) /\ call.token = t /\ call.amount = amount
      /\ frame.call = call
  <2> HIDE DEF amount
  <2> QED BY DEF NewCall
<1>3. call \in Call
  <2>1. stack' = Append(stack, frame) /\ stack' \in Seq(Frames) /\ stack \in Seq(Frames)
    BY <1>1 DEF Push, StepsInv
  <2> HIDE DEF frame, call
  <2>2. Len(stack') = Len(stack) + 1 /\ stack'[Len(stack) + 1] = frame
    BY <2>1, AppendProperties
  <2>3. Len(stack) + 1 \in 1..Len(stack')
    BY <2>1, <2>2, LenProperties
  <2>4. frame \in Frames
    BY <2>1, <2>2, <2>3, ElementOfSeq
  <2> QED BY <1>2, <2>4 DEF Frames
<1>4. /\ ReadOK(priceFeed, now, State.deposits[u], State.debts[u])
      /\ HealthOf(u) = HealthIn(priceFeed, State, u)
      /\ HealthOf(u) < MINIMUM_HEALTH_FACTOR
  <2>1. HealthOf(u) = HealthIn(priceFeed, State, u)
    BY HealthOfIs DEF HealthIn, State
  <2> QED BY <1>1, <2>1, ReadIs DEF Liquidatable, HealthOf, State
<1>5. amount = SeizedCollateral(priceFeed[t].answer, debt)
  BY DEF Seized
<1> HIDE DEF amount, call, frame
<1>6. PullsOut(State, State', u, l, t, amount) /\ NothingRepaid(State, State')
  BY <1>1 DEF PullsOut, NothingRepaid, State, PullOK, Pulled, CollateralPaidOut
<1>7. BegunLiquidate(priceFeed, now, call, State, State')
  BY <1>1, <1>2, <1>4, <1>5, <1>6 DEF BegunLiquidate
<1> QED BY <1>1, <1>2, <1>3, <1>7, PushBegun DEF Begun

LEMMA DirectKeepsWorld ==
  ASSUME NEW u, DirectCall(u)
  PROVE  UNCHANGED world
BY DEF DirectCall, LockedMint, DirectBurn, DirectTokenCall, MintBUSC, BurnBUSC,
       TokenCall, BUSCTransfer, BUSCApprove, BUSCTransferFrom, BUSCBurnFrom,
       CollateralTransfer, CollateralApprove

LEMMA StepBegun ==
  ASSUME StepsInv, BegunInv, [StepsNext]_allVars
  PROVE  BegunInv'
<1>1. StepsInv'
  BY StepKeeps
<1>2. ASSUME NEW u \in Users, EnterCall(u) PROVE BegunInv'
  BY <1>1, <1>2, EnterDepositBegun, EnterPullBegun, EnterPullAndBurnBegun,
     EnterLiquidateBegun DEF EnterCall
<1>3. ASSUME NEW u \in Users, DirectCall(u) PROVE BegunInv'
  <2>1. Direct(u)
    BY <1>3 DEF DirectCall, LockedMint, DirectBurn, DirectTokenCall
  <2>2. UNCHANGED world
    BY <1>3, DirectKeepsWorld
  <2> QED BY <2>1, <2>2, DirectBegun
<1>4. CASE LeaveCall
  <2>1. ~Idle /\ Pop /\ UNCHANGED world
    BY <1>4 DEF LeaveCall, LeaveDeposit, LeaveDepositAndMint, LeavePull,
                LeavePullAndBurn, LeaveLiquidate, vars, world
  <2> QED BY <2>1, PopBegun
<1>5. CASE Revert
  BY <1>5, RevertBegun
<1>6. CASE WorldMoves
  <2>1. stack' = <<>>
    BY <1>6 DEF WorldMoves, Idle
  <2> QED BY <2>1, BegunAtRest DEF BegunInv
<1>7. CASE UNCHANGED allVars
  BY <1>7 DEF allVars, vars, positions, world, State, BegunInv
<1> QED BY <1>2, <1>3, <1>4, <1>5, <1>6, <1>7 DEF StepsNext

-----------------------------------------------------------------------------
(* The calls of Atomic, over the committed state.                          *)

LEMMA LedgerAllowances ==
  ASSUME NEW token \in ERC20Ledger, NEW u, NEW spender, NEW amount
  PROVE  SpendAllowance(token, u, spender, amount).balances = token.balances
BY DEF ERC20Ledger, SpendAllowance, Approve

LEMMA DepositWhole ==
  ASSUME StepsInv, NEW call \in Call, NEW after \in States,
         BegunDeposit(call, Committed, State), TokensArrive(call),
         after.deposits = s_userCollateralDeposits, after.collateral = collateral'
  PROVE  /\ Atomic!DepositOK(call.by, call.token, call.amount)
         /\ after.deposits = Atomic!Deposited(call.by, call.token, call.amount)
         /\ after.collateral = Atomic!CollateralTakenIn(call.by, call.token, call.amount)
<1> DEFINE u == call.by
           t == call.token
           amount == call.amount
           first == Committed.collateral
           spent == SpendAllowance(first[t], u, Motor, amount)
<1>1. /\ amount > 0 /\ t \in Listed
      /\ AddOK(Committed.deposits[u][t], amount)
      /\ SpendAllowanceOK(first[t], u, Motor, amount)
      /\ s_userCollateralDeposits = [Committed.deposits EXCEPT ![u][t] = @ + amount]
      /\ collateral = [first EXCEPT ![t] = spent]
  BY DEF BegunDeposit, State
<1>2. /\ TransferOK(collateral[t], u, amount)
      /\ collateral' = [collateral EXCEPT ![t] = Transfer(@, u, Motor, amount)]
  BY DEF TokensArrive
<1>3. u \in Users /\ t \in Tokens /\ first \in [Tokens -> ERC20Ledger]
  BY CommittedState DEF Call, States
<1> HIDE DEF u, t, amount, first
<1>4. collateral[t] = spent /\ spent.balances = first[t].balances
  BY <1>1, <1>3, LedgerAllowances
<1>5. TransferFromOK(first[t], Motor, u, amount)
  BY <1>1, <1>2, <1>4 DEF TransferFromOK, TransferOK
<1>6. collateral' = [first EXCEPT ![t] = TransferFrom(@, Motor, u, Motor, amount)]
  <2>1. Transfer(spent, u, Motor, amount) = TransferFrom(first[t], Motor, u, Motor, amount)
    BY DEF TransferFrom
  <2> DEFINE new == Transfer(spent, u, Motor, amount)
  <2>2. collateral' = [collateral EXCEPT ![t] = new]
    BY <1>2, <1>4
  <2> HIDE DEF new, spent
  <2>3. [[first EXCEPT ![t] = spent] EXCEPT ![t] = new] = [first EXCEPT ![t] = new]
    BY <1>3
  <2> QED BY <1>1, <2>1, <2>2, <2>3 DEF new
<1>7. Atomic!DepositOK(u, t, amount)
  BY <1>1, <1>5, AtomicLedgerFrom DEF Atomic!DepositOK, Atomic!AddOK, AddOK, first
<1>8. after.deposits = Atomic!Deposited(u, t, amount)
  BY <1>1 DEF Atomic!Deposited
<1>9. after.collateral = Atomic!CollateralTakenIn(u, t, amount)
  BY <1>6, AtomicLedgerFrom DEF Atomic!CollateralTakenIn, first
<1> QED BY <1>7, <1>8, <1>9 DEF u, t, amount

LEMMA PullWhole ==
  ASSUME NEW from, NEW to, NEW t, NEW amount,
         PullsOut(Committed, State, from, to, t, amount)
  PROVE  /\ Atomic!PullOK(from, t, amount)
         /\ s_userCollateralDeposits = Atomic!Pulled(from, t, amount)
         /\ collateral = Atomic!CollateralPaidOut(to, t, amount)
BY AtomicLedger DEF PullsOut, State, Atomic!PullOK, Atomic!Pulled, Atomic!CollateralPaidOut

LEMMA RepayWhole ==
  ASSUME NEW debtor, NEW payer, NEW amount,
         NEW after, Repays(Committed, after, debtor, payer, amount)
  PROVE  /\ Atomic!RepayOK(debtor, payer, amount)
         /\ after.debts = Atomic!Repaid(debtor, amount)
         /\ after.busc = Atomic!BUSCBurned(payer, amount)
BY AtomicLedger, AtomicLedgerFrom DEF Repays, Atomic!RepayOK, Atomic!Repaid,
   Atomic!BUSCBurned

\* What the callbacks of a transaction without calls leave.
Whole(after) ==
    /\ after.deposits = s_userCollateralDeposits'
    /\ after.debts = s_BuscAmountMintedByUser'
    /\ after.busc = busc' /\ after.collateral = collateral'
    /\ Committed' = after /\ after \in States
    /\ UNCHANGED world

LEMMA LeaveDepositAtomic ==
  ASSUME StepsInv, NEW after, Whole(after), LeaveDeposit,
         BegunDeposit(Waiting, Committed, State), Waiting \in Call
  PROVE  Atomic!DepositCollateral(Waiting.by, Waiting.token, Waiting.amount)
<1>1. TokensArrive(Waiting) /\ UNCHANGED <<positions, busc, world>>
  BY DEF LeaveDeposit
<1>2. /\ after.deposits = s_userCollateralDeposits /\ after.collateral = collateral'
      /\ after.debts = Committed.debts /\ after.busc = Committed.busc
      /\ after \in States /\ Committed' = after
  BY <1>1 DEF Whole, positions, BegunDeposit, NothingRepaid, State
<1>3. /\ Atomic!DepositOK(Waiting.by, Waiting.token, Waiting.amount)
      /\ after.deposits = Atomic!Deposited(Waiting.by, Waiting.token, Waiting.amount)
      /\ after.collateral =
            Atomic!CollateralTakenIn(Waiting.by, Waiting.token, Waiting.amount)
  BY <1>1, <1>2, DepositWhole
<1> QED BY <1>1, <1>2, <1>3 DEF Atomic!DepositCollateral, Atomic!world, world

LEMMA LeaveDepositAndMintAtomic ==
  ASSUME StepsInv, NEW after, Whole(after), LeaveDepositAndMint,
         BegunDeposit(Waiting, Committed, State), Waiting \in Call
  PROVE  Atomic!DepositCollateralAndMintBUSC(Waiting.by, Waiting.token, Waiting.amount,
                                             Waiting.mint)
<1> DEFINE u == Waiting.by
           t == Waiting.token
           amount == Waiting.amount
           mint == Waiting.mint
           debts == [Committed.debts EXCEPT ![u] = @ + mint]
<1>1. /\ TokensArrive(Waiting) /\ UNCHANGED <<s_userCollateralDeposits, world>>
      /\ MintBUSCOK(u, s_userCollateralDeposits[u], mint)
      /\ s_BuscAmountMintedByUser' = [s_BuscAmountMintedByUser EXCEPT ![u] = @ + mint]
      /\ busc' = Mint(busc, u, mint)
  BY DEF LeaveDepositAndMint
<1>2. s_BuscAmountMintedByUser = Committed.debts /\ busc = Committed.busc
  BY DEF BegunDeposit, NothingRepaid, State
<1>3. /\ after.deposits = s_userCollateralDeposits /\ after.collateral = collateral'
      /\ after.debts = debts /\ after.busc = Mint(Committed.busc, u, mint)
      /\ after \in States /\ Committed' = after
  BY <1>1, <1>2 DEF Whole
<1>4. /\ Atomic!DepositOK(u, t, amount)
      /\ after.deposits = Atomic!Deposited(u, t, amount)
      /\ after.collateral = Atomic!CollateralTakenIn(u, t, amount)
  BY <1>1, <1>3, DepositWhole
<1> HIDE DEF u, t, amount, mint, debts
<1>5. Atomic!MintBUSCOK(u, Atomic!Deposited(u, t, amount)[u], mint)
  BY <1>1, <1>2, <1>3, <1>4, AtomicHealth, AtomicLedger
     DEF Atomic!MintBUSCOK, MintBUSCOK, Atomic!AddOK, AddOK
<1>6. after.busc = Atomic!Mint(Committed.busc, u, mint)
  BY <1>3, AtomicLedger
<1>7. Atomic!DepositCollateralAndMintBUSC(u, t, amount, mint)
  BY <1>1, <1>3, <1>4, <1>5, <1>6
     DEF Atomic!DepositCollateralAndMintBUSC, Atomic!world, world, debts
<1> QED BY <1>7 DEF u, t, amount, mint

LEMMA LeavePullAtomic ==
  ASSUME NEW after, Whole(after), LeavePull, BegunPull(Waiting, Committed, State)
  PROVE  Atomic!PullCollateral(Waiting.by, Waiting.token, Waiting.amount)
<1> DEFINE u == Waiting.by
           t == Waiting.token
           amount == Waiting.amount
<1>1. /\ HealthChecked(s_userCollateralDeposits[u], s_BuscAmountMintedByUser[u])
      /\ UNCHANGED vars
  BY DEF LeavePull
<1>2. /\ amount > 0 /\ PullsOut(Committed, State, u, u, t, amount)
      /\ s_BuscAmountMintedByUser = Committed.debts /\ busc = Committed.busc
  BY DEF BegunPull, NothingRepaid, State
<1>3. /\ after.deposits = s_userCollateralDeposits /\ after.collateral = collateral
      /\ after.debts = Committed.debts /\ after.busc = Committed.busc
      /\ Committed' = after /\ UNCHANGED world
  BY <1>1, <1>2 DEF Whole, vars, positions
<1> HIDE DEF u, t, amount
<1>4. /\ Atomic!PullOK(u, t, amount)
      /\ s_userCollateralDeposits = Atomic!Pulled(u, t, amount)
      /\ collateral = Atomic!CollateralPaidOut(u, t, amount)
  BY <1>2, PullWhole
<1>5. Atomic!HealthChecked(Atomic!Pulled(u, t, amount)[u], Committed.debts[u])
  BY <1>1, <1>2, <1>4, AtomicHealth
<1>6. Atomic!PullCollateral(u, t, amount)
  BY <1>2, <1>3, <1>4, <1>5
     DEF Atomic!PullCollateral, Atomic!PullCollateralOK, Atomic!world, world
<1> QED BY <1>6 DEF u, t, amount

LEMMA LeavePullAndBurnAtomic ==
  ASSUME NEW after, Whole(after), LeavePullAndBurn,
         BegunPullAndBurn(Waiting, Committed, State)
  PROVE  \E burn \in BuscAmounts :
            Atomic!PullCollateralAndBurnBUSC(Waiting.by, Waiting.token, Waiting.amount, burn)
<1> DEFINE u == Waiting.by
           t == Waiting.token
           amount == Waiting.amount
<1>1. /\ HealthChecked(s_userCollateralDeposits[u], s_BuscAmountMintedByUser[u])
      /\ UNCHANGED vars
  BY DEF LeavePullAndBurn
<1>2. /\ amount > 0 /\ t \in Listed /\ PullsOut(Committed, State, u, u, t, amount)
  BY DEF BegunPullAndBurn
<1>3. PICK burn \in BuscAmounts : burn > 0 /\ Repays(Committed, State, u, u, burn)
  BY DEF BegunPullAndBurn
<1>4. /\ after.deposits = s_userCollateralDeposits /\ after.collateral = collateral
      /\ after.debts = s_BuscAmountMintedByUser /\ after.busc = busc
      /\ State.debts = s_BuscAmountMintedByUser /\ State.busc = busc
      /\ Committed' = after /\ UNCHANGED world
  BY <1>1 DEF Whole, vars, positions, State
<1> HIDE DEF u, t, amount
<1>5. /\ Atomic!PullOK(u, t, amount)
      /\ s_userCollateralDeposits = Atomic!Pulled(u, t, amount)
      /\ collateral = Atomic!CollateralPaidOut(u, t, amount)
  BY <1>2, PullWhole
<1>6. /\ Atomic!RepayOK(u, u, burn)
      /\ s_BuscAmountMintedByUser = Atomic!Repaid(u, burn)
      /\ busc = Atomic!BUSCBurned(u, burn)
  BY <1>3, <1>4, RepayWhole
<1>7. Atomic!HealthChecked(Atomic!Pulled(u, t, amount)[u], Atomic!Repaid(u, burn)[u])
  BY <1>1, <1>5, <1>6, AtomicHealth
<1>8. Atomic!PullCollateralAndBurnBUSC(u, t, amount, burn)
  BY <1>2, <1>3, <1>4, <1>5, <1>6, <1>7
     DEF Atomic!PullCollateralAndBurnBUSC, Atomic!world, world
<1> QED BY <1>8 DEF u, t, amount

LEMMA LeaveLiquidateAtomic ==
  ASSUME NEW after, Whole(after), LeaveLiquidate,
         BegunLiquidate(priceFeed, now, Waiting, Committed, State)
  PROVE  Atomic!Liquidate(Waiting.by, Waiting.token, Waiting.user, Waiting.debt)
<1> DEFINE l == Waiting.by
           t == Waiting.token
           u == Waiting.user
           debt == Waiting.debt
           amount == Waiting.amount
           debts == Repaid(u, debt)
           answer == priceFeed[t].answer
<1>1. /\ RepayOK(u, l, debt) /\ s_BuscAmountMintedByUser' = debts
      /\ busc' = BUSCBurned(l, debt)
      /\ HealthFactorOK(s_userCollateralDeposits[u], debts[u])
      /\ HealthFactor(s_userCollateralDeposits[u], debts[u]) > Waiting.health
      /\ HealthChecked(s_userCollateralDeposits[l], debts[l])
      /\ UNCHANGED <<s_userCollateralDeposits, collateral, world>>
  BY DEF LeaveLiquidate, HealthWith
<1>2. /\ debt > 0 /\ t \in Listed
      /\ ReadOK(priceFeed, now, Committed.deposits[u], Committed.debts[u])
      /\ Waiting.health = HealthIn(priceFeed, Committed, u)
      /\ Waiting.health < MINIMUM_HEALTH_FACTOR
      /\ SeizedCollateralOK(answer, debt) /\ amount = SeizedCollateral(answer, debt)
      /\ PullsOut(Committed, State, u, l, t, amount)
      /\ s_BuscAmountMintedByUser = Committed.debts /\ busc = Committed.busc
  BY DEF BegunLiquidate, NothingRepaid, State
<1>3. /\ after.deposits = s_userCollateralDeposits /\ after.collateral = collateral
      /\ after.debts = debts /\ after.busc = BUSCBurned(l, debt)
      /\ Committed' = after /\ UNCHANGED world
  BY <1>1 DEF Whole
<1> HIDE DEF l, t, u, debt, amount, debts, answer
<1>4. Atomic!SeizedCollateralOK(answer, debt) /\ Atomic!Seized(t, debt) = amount
  BY <1>2, AtomicSeizure DEF Atomic!Seized, answer
<1>5. /\ Atomic!PullOK(u, t, amount)
      /\ s_userCollateralDeposits = Atomic!Pulled(u, t, amount)
      /\ collateral = Atomic!CollateralPaidOut(l, t, amount)
  BY <1>2, PullWhole
<1>6. /\ Atomic!RepayOK(u, l, debt)
      /\ debts = Atomic!Repaid(u, debt)
      /\ BUSCBurned(l, debt) = Atomic!BUSCBurned(l, debt)
  <2> DEFINE end == [debts |-> debts, busc |-> BUSCBurned(l, debt)]
  <2>1. Repays(Committed, end, u, l, debt)
    BY <1>1, <1>2 DEF Repays, RepayOK, Repaid, BUSCBurned, debts
  <2>2. end.debts = debts /\ end.busc = BUSCBurned(l, debt)
    OBVIOUS
  <2> HIDE DEF end
  <2> QED BY <2>1, <2>2, RepayWhole
<1>7. /\ HealthFactorOK(Committed.deposits[u], Committed.debts[u])
      /\ HealthFactor(Committed.deposits[u], Committed.debts[u]) = Waiting.health
  BY <1>2, ReadIs, HealthFactorIs DEF HealthIn
<1>8. Atomic!MINIMUM_HEALTH_FACTOR = MINIMUM_HEALTH_FACTOR
  BY DEF Atomic!MINIMUM_HEALTH_FACTOR, MINIMUM_HEALTH_FACTOR
<1>9. Atomic!Liquidatable(u)
  BY <1>2, <1>7, <1>8, AtomicHealth DEF Atomic!Liquidatable
<1>10. Atomic!LiquidationHelped(l, u, s_userCollateralDeposits, debts)
  BY <1>1, <1>7, AtomicHealth DEF Atomic!LiquidationHelped
<1>11. Atomic!LiquidateOK(l, t, u, debt)
  BY <1>2, <1>4, <1>5, <1>6, <1>9, <1>10
     DEF Atomic!LiquidateOK, Atomic!SeizureOK, answer
<1>12. Atomic!Liquidate(l, t, u, debt)
  BY <1>3, <1>4, <1>5, <1>6, <1>11 DEF Atomic!Liquidate, Atomic!world, world
<1> QED BY <1>12 DEF l, t, u, debt

\* The call that leaves is a call of BUSCmotor.
LEMMA LeaveAtomic ==
  ASSUME StepsInv, StepsInv', BegunInv, LeaveCall, ~reentered
  PROVE  Atomic!Next
<1> DEFINE after == State'
<1>1. ~Idle /\ Pop /\ UNCHANGED world
  BY DEF LeaveCall, LeaveDeposit, LeaveDepositAndMint, LeavePull, LeavePullAndBurn,
         LeaveLiquidate, vars, world
<1>2. /\ Front(stack) = <<>> /\ Waiting \in Call
      /\ Begun(priceFeed, now, Waiting, Committed, State)
  BY <1>1, BelowBegun, BelowWaiting
<1>3. Committed' = State' /\ State' \in States
  BY <1>1, <1>2 DEF Pop, Committed, Idle, StepsInv, StateOK
<1>4. Whole(after)
  BY <1>1, <1>3 DEF Whole, State
<1> HIDE DEF after
<1>5. /\ Waiting.by \in Users /\ Waiting.token \in Tokens /\ Waiting.user \in Users
      /\ Waiting.mint \in Nat
  BY <1>2, UintNat DEF Call
<1>6. CASE LeaveDeposit
  <2>1. BegunDeposit(Waiting, Committed, State)
    BY <1>2, <1>6 DEF Begun, LeaveDeposit
  <2>2. Atomic!DepositCollateral(Waiting.by, Waiting.token, Waiting.amount)
    BY <1>2, <1>4, <1>6, <2>1, LeaveDepositAtomic
  <2>3. Waiting.amount \in CollateralAmounts
    BY <2>1 DEF BegunDeposit
  <2> QED BY <1>5, <2>2, <2>3 DEF Atomic!Next, Atomic!MotorCall
<1>7. CASE LeaveDepositAndMint
  <2>1. BegunDeposit(Waiting, Committed, State) /\ Waiting.mint > 0
    BY <1>2, <1>7 DEF Begun, LeaveDepositAndMint
  <2>2. Atomic!DepositCollateralAndMintBUSC(Waiting.by, Waiting.token, Waiting.amount,
                                            Waiting.mint)
    BY <1>2, <1>4, <1>7, <2>1, LeaveDepositAndMintAtomic
  <2>3. Waiting.amount \in CollateralAmounts /\ Waiting.mint \in BuscAmounts
    BY <1>5, <2>1 DEF BegunDeposit
  <2> QED BY <1>5, <2>2, <2>3 DEF Atomic!Next, Atomic!MotorCall
<1>8. CASE LeavePull
  <2>1. BegunPull(Waiting, Committed, State)
    BY <1>2, <1>8 DEF Begun, LeavePull
  <2>2. Atomic!PullCollateral(Waiting.by, Waiting.token, Waiting.amount)
    BY <1>4, <1>8, <2>1, LeavePullAtomic
  <2>3. Waiting.amount \in CollateralAmounts
    BY <2>1 DEF BegunPull
  <2> QED BY <1>5, <2>2, <2>3 DEF Atomic!Next, Atomic!MotorCall
<1>9. CASE LeavePullAndBurn
  <2>1. BegunPullAndBurn(Waiting, Committed, State)
    BY <1>2, <1>9 DEF Begun, LeavePullAndBurn
  <2>2. \E burn \in BuscAmounts :
           Atomic!PullCollateralAndBurnBUSC(Waiting.by, Waiting.token, Waiting.amount, burn)
    BY <1>4, <1>9, <2>1, LeavePullAndBurnAtomic
  <2>3. Waiting.amount \in CollateralAmounts
    BY <2>1 DEF BegunPullAndBurn
  <2> QED BY <1>5, <2>2, <2>3 DEF Atomic!Next, Atomic!MotorCall
<1>10. CASE LeaveLiquidate
  <2>1. BegunLiquidate(priceFeed, now, Waiting, Committed, State)
    BY <1>2, <1>10 DEF Begun, LeaveLiquidate
  <2>2. Atomic!Liquidate(Waiting.by, Waiting.token, Waiting.user, Waiting.debt)
    BY <1>4, <1>10, <2>1, LeaveLiquidateAtomic
  <2>3. Waiting.debt \in BuscAmounts
    BY <2>1 DEF BegunLiquidate
  <2> QED BY <1>5, <2>2, <2>3 DEF Atomic!Next, Atomic!MotorCall
<1> QED BY <1>6, <1>7, <1>8, <1>9, <1>10 DEF LeaveCall

\* A call without a callback, outside of any other.
LEMMA DirectAtomic ==
  ASSUME NEW u \in Users, DirectCall(u), Idle
  PROVE  Atomic!Next
<1>1. /\ Committed.deposits = s_userCollateralDeposits
      /\ Committed.debts = s_BuscAmountMintedByUser
      /\ Committed.busc = busc /\ Committed.collateral = collateral
  BY DEF Committed, State
<1>2. stack' = stack
  BY DEF DirectCall, LockedMint, DirectBurn, DirectTokenCall, Direct
<1>3. /\ Committed'.deposits = s_userCollateralDeposits'
      /\ Committed'.debts = s_BuscAmountMintedByUser'
      /\ Committed'.busc = busc' /\ Committed'.collateral = collateral'
  BY <1>2 DEF Committed, State, Idle
<1>4. ASSUME NEW b \in BuscAmounts, LockedMint(u, b) PROVE Atomic!MintBUSC(u, b)
  <2>1. MintBUSC(u, b)
    BY <1>4 DEF LockedMint
  <2>2. Atomic!MintBUSCOK(u, Committed.deposits[u], b)
    BY <1>1, <2>1, AtomicHealth, AtomicLedger
       DEF MintBUSC, MintBUSCOK, Atomic!MintBUSCOK, Atomic!AddOK, AddOK
  <2>3. Atomic!Mint(busc, u, b) = Mint(busc, u, b)
    BY AtomicLedger
  <2> QED BY <1>1, <1>3, <2>1, <2>2, <2>3
     DEF MintBUSC, Atomic!MintBUSC, Atomic!world, world
<1>5. ASSUME NEW b \in BuscAmounts, DirectBurn(u, b) PROVE Atomic!BurnBUSC(u, b)
  <2>1. BurnBUSC(u, b)
    BY <1>5 DEF DirectBurn
  <2>2. /\ Atomic!RepayOK(u, u, b) <=> RepayOK(u, u, b)
        /\ Atomic!Repaid(u, b) = Repaid(u, b)
        /\ Atomic!BUSCBurned(u, b) = BUSCBurned(u, b)
    BY <1>1, AtomicLedger, AtomicLedgerFrom
       DEF Atomic!RepayOK, Atomic!Repaid, Atomic!BUSCBurned, RepayOK, Repaid, BUSCBurned
  <2>3. Atomic!BurnBUSCOK(u, b)
    BY <1>1, <2>1, <2>2, AtomicHealth DEF BurnBUSC, BurnBUSCOK, Atomic!BurnBUSCOK
  <2> QED BY <1>1, <1>3, <2>1, <2>2, <2>3
     DEF BurnBUSC, Atomic!BurnBUSC, Atomic!world, world
<1>6. CASE DirectTokenCall(u)
  <2>1. TokenCall(u)
    BY <1>6 DEF DirectTokenCall
  <2>2. UNCHANGED positions => UNCHANGED Atomic!positions
    BY <1>1, <1>3 DEF positions, Atomic!positions
  <2>3. Atomic!TokenCall(u)
    <3>1. ASSUME NEW to, NEW a, BUSCTransfer(u, to, a) PROVE Atomic!BUSCTransfer(u, to, a)
      BY <1>1, <1>3, <2>2, <3>1, AtomicLedger
         DEF BUSCTransfer, Atomic!BUSCTransfer, Atomic!world, world
    <3>2. ASSUME NEW from, NEW to, NEW a, BUSCTransferFrom(u, from, to, a)
          PROVE  Atomic!BUSCTransferFrom(u, from, to, a)
      BY <1>1, <1>3, <2>2, <3>2, AtomicLedgerFrom
         DEF BUSCTransferFrom, Atomic!BUSCTransferFrom, Atomic!world, world
    <3>3. ASSUME NEW t, NEW to, NEW a, CollateralTransfer(u, t, to, a)
          PROVE  Atomic!CollateralTransfer(u, t, to, a)
      <4> DEFINE token == Transfer(collateral[t], u, to, a)
      <4>1. /\ Atomic!Transfer(collateral[t], u, to, a) = token
            /\ Atomic!TransferOK(collateral[t], u, a) <=> TransferOK(collateral[t], u, a)
        BY AtomicLedger
      <4>2. /\ TransferOK(collateral[t], u, a)
            /\ collateral' = [collateral EXCEPT ![t] = token]
            /\ UNCHANGED <<positions, busc, world>>
        BY <3>3 DEF CollateralTransfer
      <4> HIDE DEF token
      <4> QED BY <1>1, <1>3, <2>2, <4>1, <4>2
         DEF Atomic!CollateralTransfer, Atomic!world, world
    <3>4. ASSUME NEW from, NEW a, BUSCBurnFrom(u, from, a)
          PROVE  Atomic!BUSCBurnFrom(u, from, a)
      BY <1>1, <1>3, <2>2, <3>4, AtomicLedgerFrom
         DEF BUSCBurnFrom, Atomic!BUSCBurnFrom, Atomic!world, world
    <3>5. ASSUME NEW spender, NEW a, BUSCApprove(u, spender, a)
          PROVE  Atomic!BUSCApprove(u, spender, a)
      BY <1>1, <1>3, <2>2, <3>5, AtomicLedger
         DEF BUSCApprove, Atomic!BUSCApprove, Atomic!world, world
    <3>6. ASSUME NEW t, NEW a, CollateralApprove(u, t, a)
          PROVE  Atomic!CollateralApprove(u, t, a)
      <4> DEFINE token == Approve(collateral[t], u, Motor, a)
      <4>1. Atomic!Approve(collateral[t], u, Motor, a) = token
        BY AtomicLedger
      <4>2. /\ collateral' = [collateral EXCEPT ![t] = token]
            /\ UNCHANGED <<positions, busc, world>>
        BY <3>6 DEF CollateralApprove
      <4> HIDE DEF token
      <4> QED BY <1>1, <1>3, <2>2, <4>1, <4>2
         DEF Atomic!CollateralApprove, Atomic!world, world
    <3> QED BY <2>1, <3>1, <3>2, <3>3, <3>4, <3>5, <3>6 DEF TokenCall, Atomic!TokenCall
  <2> QED BY <2>3 DEF Atomic!Next
<1> QED BY <1>4, <1>5, <1>6 DEF DirectCall, Atomic!Next, Atomic!MotorCall

LEMMA WorldAtomic ==
  ASSUME WorldMoves
  PROVE  Atomic!Next
<1>1. Idle /\ WorldStep /\ stack' = stack
  BY DEF WorldMoves
<1>2. UNCHANGED <<positions, busc, collateral>>
  BY <1>1 DEF WorldStep, UpdateAnswer, UpdateRoundData, Tick
<1>3. UNCHANGED <<Committed.deposits, Committed.debts, Committed.busc, Committed.collateral>>
  BY <1>1, <1>2 DEF Committed, State, Idle, positions
<1>4. Atomic!WorldStep
  BY <1>1, <1>3 DEF WorldStep, UpdateAnswer, UpdateRoundData, Tick, NewRound,
     Atomic!WorldStep, Atomic!UpdateAnswer, Atomic!UpdateRoundData, Atomic!Tick,
     Atomic!NewRound, Atomic!positions
<1> QED BY <1>4 DEF Atomic!Next

\* Statements before a callback, calls from one and reverts commit nothing.
LEMMA PushCommitsNothing ==
  ASSUME StepsInv, StepsInv', NEW call, Push(call)
  PROVE  Committed' = Committed
<1> DEFINE frame == [call |-> call, saved |-> State]
<1>1. stack' = Append(stack, frame) /\ stack' \in Seq(Frames) /\ stack \in Seq(Frames)
  BY DEF Push, StepsInv
<1>2. frame.saved = State
  OBVIOUS
<1> HIDE DEF frame
<1>3. /\ Len(stack) \in Nat /\ Len(stack') = Len(stack) + 1 /\ Len(<<>>) = 0
      /\ stack'[Len(stack) + 1] = frame
      /\ \A i \in 1..Len(stack) : stack'[i] = stack[i]
  BY <1>1, LenProperties, AppendProperties
<1>4. ~Idle'
  BY <1>3 DEF Idle
<1>5. CASE Idle
  <2>1. stack'[1] = frame
    BY <1>3, <1>5 DEF Idle
  <2> QED BY <1>2, <1>4, <1>5, <2>1 DEF Committed
<1>6. CASE ~Idle
  <2>1. Len(stack) \in Nat \ {0}
    BY <1>1, <1>3, <1>6, EmptySeq DEF Idle
  <2>2. stack'[1] = stack[1]
    BY <1>3, <2>1
  <2> QED BY <1>4, <1>6, <2>2 DEF Committed
<1> QED BY <1>5, <1>6

LEMMA RevertCommitsNothing ==
  ASSUME StepsInv, BegunInv, ~reentered, Revert
  PROVE  Committed' = Committed
<1> DEFINE saved == Last(stack).saved
<1>1. /\ ~Idle /\ stack' = Front(stack)
      /\ s_userCollateralDeposits' = saved.deposits
      /\ s_BuscAmountMintedByUser' = saved.debts
      /\ busc' = saved.busc /\ collateral' = saved.collateral
      /\ entered' = saved.entered /\ callers' = saved.callers
      /\ reentered' = saved.reentered
  BY DEF Revert
<1>2. /\ Front(stack) = <<>> /\ Len(stack) = 1 /\ Committed = stack[1].saved
      /\ saved \in States
  BY <1>1, BelowBegun DEF Frames
<1>3. Committed = saved
  BY <1>2 DEF Last
<1> HIDE DEF saved
<1>4. State' = saved
  BY <1>1, <1>2 DEF State, States
<1> QED BY <1>1, <1>2, <1>3, <1>4 DEF Committed, Idle

LEMMA StepAtomic ==
  ASSUME StepsInv, BegunInv, [StepsNext]_allVars
  PROVE  [reentered \/ Atomic!Next]_(Atomic!vars)
<1>1. StepsInv'
  BY StepKeeps
<1>2. SUFFICES ASSUME ~reentered
               PROVE  Atomic!Next \/ UNCHANGED Atomic!vars
  OBVIOUS
<1>3. Committed' = Committed /\ UNCHANGED world => UNCHANGED Atomic!vars
  BY DEF Atomic!vars, Atomic!positions, Atomic!world, world
<1>4. ASSUME NEW u \in Users, EnterCall(u) PROVE UNCHANGED Atomic!vars
  <2>1. \E call : Push(call)
    BY <1>4 DEF EnterCall, EnterDeposit, EnterPull, EnterPullAndBurn, EnterLiquidate
  <2>2. UNCHANGED world
    BY <1>4 DEF EnterCall, EnterDeposit, EnterPull, EnterPullAndBurn, EnterLiquidate
  <2> QED BY <1>1, <1>3, <2>1, <2>2, PushCommitsNothing
<1>5. ASSUME NEW u \in Users, DirectCall(u) PROVE Atomic!Next \/ UNCHANGED Atomic!vars
  <2>1. CASE Idle
    BY <1>5, <2>1, DirectAtomic
  <2>2. CASE ~Idle
    <3>1. stack' = stack
      BY <1>5 DEF DirectCall, LockedMint, DirectBurn, DirectTokenCall, Direct
    <3>2. UNCHANGED world
      BY <1>5, DirectKeepsWorld
    <3> QED BY <1>3, <2>2, <3>1, <3>2 DEF Committed, Idle
  <2> QED BY <2>1, <2>2
<1>6. CASE LeaveCall
  BY <1>1, <1>2, <1>6, LeaveAtomic
<1>7. CASE Revert
  BY <1>2, <1>3, <1>7, RevertCommitsNothing DEF Revert
<1>8. CASE WorldMoves
  BY <1>8, WorldAtomic
<1>9. CASE UNCHANGED allVars
  <2>1. Committed' = Committed /\ UNCHANGED world
    BY <1>9 DEF allVars, vars, positions, world, State, Committed, Idle
  <2> QED BY <1>3, <2>1
<1> QED BY <1>4, <1>5, <1>6, <1>7, <1>8, <1>9 DEF StepsNext

LEMMA BegunInit ==
  ASSUME StepsInit
  PROVE  BegunInv
BY BegunAtRest DEF StepsInit, BegunInv

(***************************************************************************)
(* A transaction in which nobody calls from a callback is one step of      *)
(* BUSCmotor or none: the cut at the callback loses nothing, whatever the  *)
(* tokens and amounts, so that what is proved of BUSCmotor holds for       *)
(* tokens that make no callbacks.                                          *)
(***************************************************************************)
THEOREM AtomicWithoutReentry == StepsSpec => UnreenteredAtomic
<1>1. StepsInit => StepsInv /\ BegunInv
  BY StepsInitInvariant, BegunInit
<1>2. StepsInv /\ BegunInv /\ [StepsNext]_allVars => StepsInv' /\ BegunInv'
  BY StepKeeps, StepBegun
<1>3. StepsInv /\ BegunInv /\ [StepsNext]_allVars =>
         [reentered \/ Atomic!Next]_(Atomic!vars)
  BY StepAtomic
<1> QED BY <1>1, <1>2, <1>3, PTL DEF StepsSpec, UnreenteredAtomic

-----------------------------------------------------------------------------
(* Stale feeds.  As long as only deposits wait, nothing has left since the *)
(* committed state.  Every other waiting call will ask for a health factor *)
(* that cannot be computed, so it can but revert.                          *)

OnlyDeposits(frames) == \A i \in DOMAIN frames : frames[i].call.fn = "deposit"

\* NothingLeaves, between any two states.
FrozenSince(base, state) ==
    /\ state.debts = base.debts
    /\ state.busc.totalSupply <= base.busc.totalSupply
    /\ \A t \in Tokens :
          /\ \A u \in Users : state.deposits[u][t] >= base.deposits[u][t]
          /\ state.collateral[t].balances[Motor] >= base.collateral[t].balances[Motor]

FrozenState(state, frames, base) == OnlyDeposits(frames) => FrozenSince(base, state)

FrozenFrames(frames, base) ==
    \A i \in 1..Len(frames) :
        FrozenState(frames[i].saved, SubSeq(frames, 1, i - 1), base)

FrozenInv ==
    ~FeedsFresh => FrozenState(State, stack, Committed) /\ FrozenFrames(stack, Committed)

\* What a step leaves, against the state committed before it.
FrozenStep ==
    ~FeedsFresh => FrozenState(State', stack', Committed) /\ FrozenFrames(stack', Committed)

LEMMA FrozenAppend ==
  ASSUME NEW frames \in Seq(Frames), NEW frame \in Frames, NEW base
  PROVE  /\ FrozenFrames(Append(frames, frame), base) <=>
               FrozenFrames(frames, base) /\ FrozenState(frame.saved, frames, base)
         /\ OnlyDeposits(Append(frames, frame)) <=>
               OnlyDeposits(frames) /\ frame.call.fn = "deposit"
<1> DEFINE more == Append(frames, frame)
           n == Len(frames)
           OK(f, below) == FrozenState(f.saved, below, base)
<1>1. /\ Len(more) = n + 1 /\ n \in Nat
      /\ DOMAIN frames = 1..n /\ DOMAIN more = 1..(n + 1)
      /\ \A i \in 1..n : more[i] = frames[i]
      /\ more[n + 1] = frame
      /\ \A i \in 1..(n + 1) : SubSeq(more, 1, i - 1) = SubSeq(frames, 1, i - 1)
      /\ SubSeq(frames, 1, n) = frames
  BY AppendFacts, LenProperties
<1>2. /\ FrozenFrames(more, base) <=>
            \A i \in 1..Len(more) : OK(more[i], SubSeq(more, 1, i - 1))
      /\ FrozenFrames(frames, base) <=>
            \A i \in 1..n : OK(frames[i], SubSeq(frames, 1, i - 1))
  BY DEF FrozenFrames
<1> HIDE DEF more, n, OK
<1>3. /\ 1..(n + 1) = 1..n \cup {n + 1} /\ (n + 1) - 1 = n
  BY <1>1
<1>4. FrozenFrames(more, base) <=> FrozenFrames(frames, base) /\ OK(frame, frames)
  BY <1>1, <1>2, <1>3
<1>5. OnlyDeposits(more) <=> OnlyDeposits(frames) /\ frame.call.fn = "deposit"
  BY <1>1, <1>3 DEF OnlyDeposits
<1> QED BY <1>4, <1>5 DEF more, OK

LEMMA FrozenNat ==
  ASSUME NEW state \in States
  PROVE  /\ state.busc.totalSupply \in Nat
         /\ \A t \in Tokens :
               /\ \A u \in Users : state.deposits[u][t] \in Nat
               /\ state.collateral[t].balances[Motor] \in Nat
<1>1. /\ state.busc \in ERC20Ledger /\ state.collateral \in [Tokens -> ERC20Ledger]
      /\ state.deposits \in [Users -> [Tokens -> Uint]]
  BY DEF States
<1>2. \A token \in ERC20Ledger :
         token.totalSupply \in Nat /\ token.balances[Motor] \in Nat
  BY UintNat, MotorFacts DEF ERC20Ledger
<1>3. \A t \in Tokens, u \in Users : state.deposits[u][t] \in Nat
  BY <1>1, UintNat
<1> QED BY <1>1, <1>2, <1>3

\* The committed state is frozen since itself.
LEMMA FrozenAtRest ==
  ASSUME NEW state \in States, NEW base
  PROVE  FrozenSince(state, state) /\ FrozenFrames(<<>>, base)
<1>1. 1..Len(<<>>) = {}
  OBVIOUS
<1> QED BY <1>1, FrozenNat DEF FrozenSince, FrozenFrames

\* A step that lets nothing leave.
LEMMA FrozenOn ==
  ASSUME StepsInv, StepsInv', FrozenSince(Committed, State), NothingLeaves
  PROVE  FrozenSince(Committed, State')
<1>1. Committed \in States /\ State \in States /\ State' \in States
  BY CommittedState DEF StepsInv, StateOK
<1>2. /\ State.debts = s_BuscAmountMintedByUser /\ State.busc = busc
      /\ State.deposits = s_userCollateralDeposits /\ State.collateral = collateral
      /\ State'.debts = s_BuscAmountMintedByUser' /\ State'.busc = busc'
      /\ State'.deposits = s_userCollateralDeposits' /\ State'.collateral = collateral'
  BY DEF State
<1>3. /\ State'.debts = State.debts
      /\ State'.busc.totalSupply <= State.busc.totalSupply
      /\ \A t \in Tokens :
            /\ \A u \in Users : State'.deposits[u][t] >= State.deposits[u][t]
            /\ State'.collateral[t].balances[Motor] >= State.collateral[t].balances[Motor]
  BY <1>2 DEF NothingLeaves
<1>4. State'.busc.totalSupply <= Committed.busc.totalSupply
  BY <1>1, <1>3, FrozenNat DEF FrozenSince
<1>5. ASSUME NEW t \in Tokens
      PROVE  /\ \A u \in Users : State'.deposits[u][t] >= Committed.deposits[u][t]
             /\ State'.collateral[t].balances[Motor]
                   >= Committed.collateral[t].balances[Motor]
  <2>1. ASSUME NEW u \in Users
        PROVE  State'.deposits[u][t] >= Committed.deposits[u][t]
    <3>1. /\ State'.deposits[u][t] >= State.deposits[u][t]
          /\ State.deposits[u][t] >= Committed.deposits[u][t]
      BY <1>3 DEF FrozenSince
    <3>2. /\ State'.deposits[u][t] \in Nat /\ State.deposits[u][t] \in Nat
          /\ Committed.deposits[u][t] \in Nat
      BY <1>1, FrozenNat
    <3> QED BY <3>1, <3>2
  <2>2. State'.collateral[t].balances[Motor] >= Committed.collateral[t].balances[Motor]
    <3>1. /\ State'.collateral[t].balances[Motor] >= State.collateral[t].balances[Motor]
          /\ State.collateral[t].balances[Motor]
                >= Committed.collateral[t].balances[Motor]
      BY <1>3 DEF FrozenSince
    <3>2. /\ State'.collateral[t].balances[Motor] \in Nat
          /\ State.collateral[t].balances[Motor] \in Nat
          /\ Committed.collateral[t].balances[Motor] \in Nat
      BY <1>1, FrozenNat
    <3> QED BY <3>1, <3>2
  <2> QED BY <2>1, <2>2
<1> QED BY <1>3, <1>4, <1>5 DEF FrozenSince

LEMMA PushFrozen ==
  ASSUME StepsInv, StepsInv', FrozenInv, ~FeedsFresh, NEW call \in Call, Push(call),
         call.fn = "deposit" => NothingLeaves
  PROVE  FrozenStep
<1> DEFINE frame == [call |-> call, saved |-> State]
<1>1. /\ frame \in Frames /\ frame.call = call /\ frame.saved = State
      /\ stack \in Seq(Frames)
  BY Present DEF Frames, StepsInv
<1>2. stack' = Append(stack, frame)
  BY DEF Push
<1> HIDE DEF frame
<1>3. FrozenState(State, stack, Committed) /\ FrozenFrames(stack, Committed)
  BY DEF FrozenInv
<1>4. FrozenFrames(stack', Committed)
  BY <1>1, <1>2, <1>3, FrozenAppend
<1>5. FrozenState(State', stack', Committed)
  <2> SUFFICES ASSUME OnlyDeposits(stack')
               PROVE  FrozenSince(Committed, State')
    BY DEF FrozenState
  <2>1. OnlyDeposits(stack) /\ call.fn = "deposit"
    BY <1>1, <1>2, FrozenAppend
  <2>2. FrozenSince(Committed, State)
    BY <1>3, <2>1 DEF FrozenState
  <2> QED BY <2>1, <2>2, FrozenOn
<1> QED BY <1>4, <1>5 DEF FrozenStep

\* The waiting call: what its end and its revert find below it.
LEMMA BelowFrozen ==
  ASSUME StepsInv, FrozenInv, ~FeedsFresh, ~Idle
  PROVE  /\ FrozenFrames(Front(stack), Committed)
         /\ FrozenState(Last(stack).saved, Front(stack), Committed)
         /\ OnlyDeposits(Front(stack)) /\ Waiting.fn = "deposit"
               => FrozenSince(Committed, State)
<1> DEFINE below == Front(stack)
           frame == Last(stack)
<1>1. below \in Seq(Frames) /\ frame \in Frames /\ stack = Append(below, frame)
  BY FrontFacts DEF StepsInv, Idle
<1>2. Waiting = frame.call
  BY DEF Waiting
<1> HIDE DEF below, frame
<1>3. /\ FrozenState(State, Append(below, frame), Committed)
      /\ FrozenFrames(Append(below, frame), Committed)
  BY <1>1 DEF FrozenInv
<1> QED BY <1>1, <1>2, <1>3, FrozenAppend DEF FrozenState, below, frame

LEMMA PopFrozen ==
  ASSUME StepsInv, StepsInv', FrozenInv, ~FeedsFresh, ~Idle, Pop,
         Waiting.fn = "deposit", NothingLeaves
  PROVE  FrozenStep
<1>1. stack' = Front(stack)
  BY DEF Pop
<1> QED BY <1>1, BelowFrozen, FrozenOn DEF FrozenStep, FrozenState

LEMMA StayFrozen ==
  ASSUME StepsInv, StepsInv', FrozenInv, UNCHANGED stack,
         ~FeedsFresh => NothingLeaves
  PROVE  FrozenStep
BY FrozenOn DEF FrozenInv, FrozenStep, FrozenState

LEMMA EnterDepositFrozen ==
  ASSUME StepsInv, NEW u \in Users, NEW t \in Tokens, NEW amount \in Uint,
         NEW mint, EnterDeposit(u, t, amount, mint)
  PROVE  NothingLeaves
<1>1. /\ s_userCollateralDeposits' = Deposited(u, t, amount)
      /\ collateral' = [collateral EXCEPT
                           ![t] = SpendAllowance(collateral[t], u, Motor, amount)]
      /\ UNCHANGED <<s_BuscAmountMintedByUser, busc>>
  BY DEF EnterDeposit
<1>2. amount \in Nat
  BY UintNat
<1>3. ASSUME NEW v \in Users, NEW s \in Tokens
      PROVE  s_userCollateralDeposits'[v][s] >= s_userCollateralDeposits[v][s]
  <2>1. /\ s_userCollateralDeposits[v][s] \in Nat
        /\ s_userCollateralDeposits'[v][s] = s_userCollateralDeposits[v][s]
              + (IF v = u /\ s = t THEN amount ELSE 0)
    BY <1>1, <1>2, PresentFacts, PresentNat DEF Deposited
  <2> QED BY <1>2, <2>1
<1>4. ASSUME NEW s \in Tokens
      PROVE  collateral'[s].balances[Motor] >= collateral[s].balances[Motor]
  <2> DEFINE spent == SpendAllowance(collateral[t], u, Motor, amount)
  <2>1. spent.balances = collateral[t].balances
    BY PresentFacts, LedgerAllowances
  <2> HIDE DEF spent
  <2>2. collateral'[s].balances = collateral[s].balances
    BY <1>1, <2>1, PresentFacts DEF spent
  <2> QED BY <2>2, PresentNat
<1> QED BY <1>1, <1>3, <1>4, PresentNat DEF NothingLeaves

LEMMA LeaveDepositFrozen ==
  ASSUME StepsInv, LeaveDeposit
  PROVE  NothingLeaves
BY ArrivalCovered, PresentNat DEF LeaveDeposit, positions, NothingLeaves

\* Calls that wait for no callback, other than on the tokens, read a health
\* factor.
LEMMA DirectFrozen ==
  ASSUME StepsInv, ~FeedsFresh, NEW u \in Users, DirectCall(u)
  PROVE  NothingLeaves
<1>1. \A b \in BuscAmounts : ~LockedMint(u, b)
  BY HealthNeedsFreshFeeds DEF LockedMint, MintBUSC, MintBUSCOK, HealthChecked
<1>2. \A b \in BuscAmounts : ~DirectBurn(u, b)
  BY HealthNeedsFreshFeeds DEF DirectBurn, BurnBUSC, BurnBUSCOK, HealthChecked
<1> QED BY <1>1, <1>2, DirectTokenCallKeeps DEF DirectCall

\* So does the end of every call but a plain deposit.
LEMMA OnlyDepositsLeave ==
  ASSUME ~FeedsFresh, LeaveCall
  PROVE  LeaveDeposit
<1>1. ~LeaveDepositAndMint
  BY HealthNeedsFreshFeeds DEF LeaveDepositAndMint, MintBUSCOK, HealthChecked
<1>2. ~LeavePull /\ ~LeavePullAndBurn /\ ~LeaveLiquidate
  BY HealthNeedsFreshFeeds DEF LeavePull, LeavePullAndBurn, LeaveLiquidate, HealthChecked
<1> QED BY <1>1, <1>2 DEF LeaveCall

LEMMA EnterFrozen ==
  ASSUME StepsInv, StepsInv', FrozenInv, ~FeedsFresh, NEW u \in Users, EnterCall(u)
  PROVE  FrozenStep
<1>1. CollateralAmounts \subseteq Uint /\ BuscAmounts \subseteq Uint /\ 0 \in Uint
  BY MotorAssumption, UintNat
<1>2. ASSUME NEW t \in Tokens, NEW a \in CollateralAmounts,
             NEW b \in BuscAmounts \cup {0}, EnterDeposit(u, t, a, b)
      PROVE  FrozenStep
  <2> DEFINE call == [NewCall("deposit", u, t, a) EXCEPT !.mint = b]
  <2>1. call \in Call
    BY <1>1, UintNat DEF NewCall, Call
  <2>2. Push(call)
    BY <1>2 DEF EnterDeposit
  <2> HIDE DEF call
  <2> QED BY <1>1, <1>2, <2>1, <2>2, EnterDepositFrozen, PushFrozen
<1>3. ASSUME NEW t \in Tokens, NEW a \in CollateralAmounts,
             \/ EnterPull(u, t, a)
             \/ \E b \in BuscAmounts : EnterPullAndBurn(u, t, a, b)
      PROVE  FrozenStep
  <2>1. PICK fn \in {"pull", "pullAndBurn"} : Push(NewCall(fn, u, t, a))
    BY <1>3 DEF EnterPull, EnterPullAndBurn
  <2>2. NewCall(fn, u, t, a) \in Call /\ NewCall(fn, u, t, a).fn # "deposit"
    BY <1>1, NewCallIs
  <2> QED BY <2>1, <2>2, PushFrozen
<1>4. ASSUME NEW t \in Tokens, NEW v \in Users, NEW b \in BuscAmounts,
             EnterLiquidate(u, t, v, b)
      PROVE  FrozenStep
  <2>1. HealthFactorOK(s_userCollateralDeposits[v], s_BuscAmountMintedByUser[v])
    BY <1>4 DEF EnterLiquidate, Liquidatable
  <2> QED BY <2>1, HealthNeedsFreshFeeds
<1> QED BY <1>2, <1>3, <1>4 DEF EnterCall

LEMMA RevertFrozen ==
  ASSUME StepsInv, FrozenInv, ~FeedsFresh, Revert
  PROVE  FrozenStep
<1> DEFINE saved == Last(stack).saved
<1>1. /\ ~Idle /\ stack' = Front(stack)
      /\ s_userCollateralDeposits' = saved.deposits
      /\ s_BuscAmountMintedByUser' = saved.debts
      /\ busc' = saved.busc /\ collateral' = saved.collateral
  BY DEF Revert
<1>2. FrozenState(saved, stack', Committed) /\ FrozenFrames(stack', Committed)
  BY <1>1, BelowFrozen
<1> HIDE DEF saved
<1>3. FrozenState(State', stack', Committed)
  BY <1>1, <1>2 DEF State, FrozenState, FrozenSince
<1> QED BY <1>2, <1>3 DEF FrozenStep

LEMMA StepFrozen ==
  ASSUME StepsInv, FrozenInv, [StepsNext]_allVars
  PROVE  FrozenStep
<1>1. StepsInv'
  BY StepKeeps
<1> SUFFICES ASSUME ~FeedsFresh PROVE FrozenStep
  BY DEF FrozenStep
<1>2. ASSUME NEW u \in Users, EnterCall(u) PROVE FrozenStep
  BY <1>1, <1>2, EnterFrozen
<1>3. ASSUME NEW u \in Users, DirectCall(u) PROVE FrozenStep
  <2>1. stack' = stack
    BY <1>3 DEF DirectCall, LockedMint, DirectBurn, DirectTokenCall, Direct
  <2> QED BY <1>1, <1>3, <2>1, DirectFrozen, StayFrozen
<1>4. CASE LeaveCall
  <2>1. ~Idle /\ Waiting.fn = "deposit" /\ Pop /\ LeaveDeposit
    BY <1>4, OnlyDepositsLeave DEF LeaveDeposit
  <2> QED BY <1>1, <2>1, LeaveDepositFrozen, PopFrozen
<1>5. CASE Revert
  BY <1>5, RevertFrozen
<1>6. CASE WorldMoves \/ UNCHANGED allVars
  <2>1. UNCHANGED <<positions, busc, collateral, stack>>
    BY <1>6 DEF WorldMoves, WorldStep, UpdateAnswer, UpdateRoundData, Tick, allVars, vars
  <2>2. NothingLeaves
    BY <2>1, PresentNat DEF NothingLeaves, positions
  <2> QED BY <1>1, <2>1, <2>2, StayFrozen
<1> QED BY <1>2, <1>3, <1>4, <1>5, <1>6 DEF StepsNext

\* Within a transaction neither the committed state nor the world changes.
LEMMA WithinTransaction ==
  ASSUME StepsInv, [StepsNext]_allVars, ~Idle'
  PROVE  UNCHANGED <<Committed, world>>
<1>1. StepsInv'
  BY StepKeeps
<1>2. ASSUME NEW u \in Users, EnterCall(u) PROVE UNCHANGED <<Committed, world>>
  <2>1. \E call : Push(call)
    BY <1>2 DEF EnterCall, EnterDeposit, EnterPull, EnterPullAndBurn, EnterLiquidate
  <2>2. UNCHANGED world
    BY <1>2 DEF EnterCall, EnterDeposit, EnterPull, EnterPullAndBurn, EnterLiquidate
  <2> QED BY <1>1, <2>1, <2>2, PushCommitsNothing
<1>3. ASSUME NEW u \in Users, DirectCall(u) PROVE UNCHANGED <<Committed, world>>
  <2>1. stack' = stack
    BY <1>3 DEF DirectCall, LockedMint, DirectBurn, DirectTokenCall, Direct
  <2> QED BY <1>3, <2>1, DirectKeepsWorld DEF Committed, Idle
<1>4. CASE LeaveCall \/ Revert
  <2>1. ~Idle /\ stack' = Front(stack) /\ UNCHANGED world
    BY <1>4 DEF LeaveCall, LeaveDeposit, LeaveDepositAndMint, LeavePull,
                LeavePullAndBurn, LeaveLiquidate, Pop, Revert, vars, world
  <2>2. Front(stack) # <<>>
    BY <2>1 DEF Idle
  <2> QED BY <2>1, <2>2, CommittedKept
<1>5. ~WorldMoves
  BY DEF WorldMoves, Idle
<1>6. CASE UNCHANGED allVars
  BY <1>6 DEF allVars, vars, positions, world, State, Committed, Idle
<1> QED BY <1>2, <1>3, <1>4, <1>5, <1>6 DEF StepsNext

LEMMA StaysFrozen ==
  ASSUME StepsInv, FrozenInv, [StepsNext]_allVars
  PROVE  FrozenInv'
<1>1. StepsInv' /\ FrozenStep
  BY StepKeeps, StepFrozen
<1>2. CASE Idle'
  <2>1. State' \in States /\ Committed' = State' /\ stack' = <<>>
    BY <1>1, <1>2 DEF StepsInv, StateOK, Committed, Idle
  <2>2. FrozenSince(State', State') /\ FrozenFrames(<<>>, State')
    BY <2>1, FrozenAtRest
  <2> QED BY <2>1, <2>2 DEF FrozenInv, FrozenState
<1>3. CASE ~Idle'
  <2>1. UNCHANGED <<Committed, priceFeed, now>>
    BY <1>3, WithinTransaction DEF world
  <2> QED BY <1>1, <2>1 DEF FrozenStep, FrozenInv, FeedsFresh
<1> QED BY <1>2, <1>3

LEMMA FrozenInit ==
  ASSUME StepsInit
  PROVE  FrozenInv
<1>1. stack = <<>> /\ Committed = State
  BY DEF StepsInit, Committed, Idle
<1>2. State \in States
  BY StepsInitInvariant, Present
<1> QED BY <1>1, <1>2, FrozenAtRest DEF FrozenInv, FrozenState

(***************************************************************************)
(* The freeze holds through callbacks: a transaction that ends while a     *)
(* feed is stale has changed no debt, minted nothing, and taken no deposit *)
(* and no collateral, although callbacks may call depositCollateral and    *)
(* the tokens, which read no feed, in the middle of calls that do.         *)
(***************************************************************************)
THEOREM FrozenThroughCallbacks == StepsSpec => FrozenTransactions
<1>1. StepsInit => StepsInv /\ FrozenInv
  BY StepsInitInvariant, FrozenInit
<1>2. StepsInv /\ FrozenInv /\ [StepsNext]_allVars => StepsInv' /\ FrozenInv'
  BY StepKeeps, StaysFrozen
<1>3. ASSUME StepsInv, FrozenInv, [StepsNext]_allVars, Idle', ~FeedsFresh
      PROVE  FrozenSince(Committed, State')
  <2>1. DOMAIN stack' = {}
    BY <1>3 DEF Idle
  <2> QED BY <1>3, <2>1, StepFrozen DEF FrozenStep, FrozenState, OnlyDeposits
<1>4. StepsInv /\ FrozenInv /\ [StepsNext]_allVars =>
         [Idle' /\ ~FeedsFresh =>
            /\ s_BuscAmountMintedByUser' = Committed.debts
            /\ busc'.totalSupply <= Committed.busc.totalSupply
            /\ \A t \in Tokens :
                  /\ \A u \in Users :
                        s_userCollateralDeposits'[u][t] >= Committed.deposits[u][t]
                  /\ collateral'[t].balances[Motor] >=
                        Committed.collateral[t].balances[Motor]]_allVars
  BY <1>3 DEF FrozenSince, State
<1> QED BY <1>1, <1>2, <1>4, PTL DEF StepsSpec, FrozenTransactions

=============================================================================
