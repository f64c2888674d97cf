---------------------------- MODULE ComfortLedger ----------------------------
(***************************************************************************)
(* evaluate_rollout (Module 13): one plan's predicted timesteps become     *)
(* burden and credit, these the debt of the comfort ledger, and credit and *)
(* debt the movements of the thermal bank.  The sums that the code takes   *)
(* after its loop are kept here as the loop goes, in tally.                *)
(*                                                                         *)
(* Numbers are integers, as fine as the code's six decimals: temperatures  *)
(* in steps for which a timestep's burden is one millionth, amounts of the *)
(* ledger in millionths, and amounts of the bank in twentieths of one, in  *)
(* which half of a credit and a tenth of that are whole.  The code's       *)
(* numbers are binary fractions, off by far less than any of these units:  *)
(* that decides something only where a number is rounded from a tie or     *)
(* compared with one that it equals, and there either outcome is possible. *)
(* Scores, and the equity they contain, do not come back into the accounts *)
(* and are left out.                                                       *)
(***************************************************************************)
EXTENDS Integers, FiniteSets

CONSTANTS
  Points,              \* what a rollout may predict of a timestep
  RolloutSteps,        \* timesteps of a rollout
  Openings,            \* opening debts, in millionths
  BankOpenings,        \* opening balances of the bank
  OccupiedLower, OccupiedUpper,         \* 22, 26 degrees
  UnoccupiedLower, UnoccupiedUpper,     \* 18, 30
  ProtectedLower, ProtectedUpper,       \* 22, 25.5
  CreditPerTimestep, CreditPerHorizon,  \* 1, 8
  MaximumDebt,                          \* 50
  MaximumBurden,                        \* maximum_horizon_burden: 20
  ConsecutiveLimit,                     \* consecutive_burden_limit: 3
  Windows,                              \* fairness_windows: 4
  MaximumDeposit,                       \* maximum_deposit_per_horizon: 5
  WithdrawalLimit,                      \* withdrawal_limit_per_event: 3
  ProtectedReserve,                     \* protected_event_reserve: 0.5
  MaximumBalance                        \* 10

\* A rollout's point: the predicted temperature and its bounds.
ASSUME PointsAssumption ==
  Points \subseteq [lower : Int, predicted : Int, upper : Int,
                    occupied : BOOLEAN, protected : BOOLEAN]

\* ComfortLedgerSettings and ThermalBankSettings.
ASSUME SettingsAssumption ==
  /\ RolloutSteps \in Nat /\ Windows \in Nat \ {0}
  /\ OccupiedLower \in Int /\ OccupiedUpper \in Int
  /\ UnoccupiedLower \in Int /\ UnoccupiedUpper \in Int
  /\ ProtectedLower \in Int /\ ProtectedUpper \in Int
  /\ Openings \subseteq Nat /\ BankOpenings \subseteq Nat
  /\ CreditPerTimestep \in Nat /\ CreditPerHorizon \in Nat
  /\ MaximumDebt \in Nat \ {0} /\ MaximumBurden \in Nat /\ ConsecutiveLimit \in Nat
  /\ MaximumDeposit \in Nat /\ WithdrawalLimit \in Nat
  /\ ProtectedReserve \in Nat /\ MaximumBalance \in Nat

Strategies == {"PRECONDITION_BEFORE_PEAK", "VACANCY_RELAXATION", "NATIVE"}

VARIABLES
  stage,      \* "entries", "totalled", "closed" or "refused"
  tally,      \* of the entries so far
  account,    \* the ledger's totals
  bank        \* the bank's movements

ledgerVars == <<stage, tally, account, bank>>

-----------------------------------------------------------------------------
(* Numbers.                                                                *)

Least(a, b) == IF a <= b THEN a ELSE b

Greatest(a, b) == IF a >= b THEN a ELSE b

\* round(n / d, 6) in millionths; of a tie, binary fractions go either way.
Rounded(n, d) ==
  {m \in (n \div d) .. (n \div d + 1) : 2 * (n - m * d) <= d /\ 2 * (m * d - n) <= d}

\* Whether a number computed as a is beyond b: of equals, either may be found.
Exceeds(a, b) == IF a = b THEN BOOLEAN ELSE {a > b}

Million == 20          \* a millionth, in the bank's units

-----------------------------------------------------------------------------
(* One entry.                                                              *)

Lower(p) ==
  IF ~p.occupied THEN UnoccupiedLower
  ELSE IF p.protected THEN ProtectedLower ELSE OccupiedLower

Upper(p) ==
  IF ~p.occupied THEN UnoccupiedUpper
  ELSE IF p.protected THEN ProtectedUpper ELSE OccupiedUpper

\* How far low or high are beyond the boundaries.
Exceedance(p, low, high) == Greatest(0, high - Upper(p)) + Greatest(0, Lower(p) - low)

Central(p) == IF p.occupied THEN Exceedance(p, p.predicted, p.predicted) ELSE 0

Uncertain(p) == IF p.occupied THEN Exceedance(p, p.lower, p.upper) ELSE 0

\* The weight of a protected event is five quarters.
Burdens(p) ==
  LET exceedance == Greatest(Central(p), Uncertain(p))
  IN  IF p.protected THEN Rounded(5 * exceedance, 4) ELSE {exceedance}

Margin(p) == Greatest(0, Least(p.predicted - Lower(p), Upper(p) - p.predicted))

\* Half the margin where the bounds are not within, up to the limit.
Credits(p) ==
  IF Central(p) > 0 \/ ~p.occupied THEN {0}
  ELSE IF Uncertain(p) > 0
    THEN Rounded(Least(2 * CreditPerTimestep, Margin(p)), 2)
    ELSE {Least(CreditPerTimestep, Margin(p))}

\* The boundaries of protected events are not looked at.
AtRisk(p) == p.occupied /\ (p.upper > OccupiedUpper \/ p.lower < OccupiedLower)

NoEntries ==
  [steps |-> 0, burden |-> 0, credit |-> 0, protected |-> 0,
   windows |-> [w \in 0 .. Windows - 1 |-> 0], consecutive |-> 0, maximum |-> 0]

AddEntry(p) ==
  /\ stage = "entries"
  /\ tally.steps < RolloutSteps
  /\ \E burden \in Burdens(p), credit \in Credits(p) :
       LET consecutive == IF AtRisk(p) THEN tally.consecutive + 1 ELSE 0
       IN  /\ tally' =
                [steps |-> tally.steps + 1,
                 burden |-> tally.burden + burden,
                 credit |-> tally.credit + credit,
                 protected |-> tally.protected
                                 + IF p.occupied /\ p.protected THEN burden ELSE 0,
                 windows |-> [tally.windows EXCEPT ![tally.steps % Windows] = @ + burden],
                 consecutive |-> consecutive,
                 maximum |-> Greatest(tally.maximum, consecutive)]
  /\ UNCHANGED <<stage, account, bank>>

-----------------------------------------------------------------------------
(* The ledger.                                                             *)

NoAccount ==
  [opening |-> 0, burden |-> 0, credit |-> 0, repayment |-> 0, debt |-> 0,
   blocking |-> {}, unfair |-> {}]

\* Mutant: repayment is half of the credit, whatever is owed.
RepaidBlindly(opening, credit) == Rounded(credit, 2)

\* A repayment is at most half of the credit.
Repaid(opening, credit) == Rounded(Least(2 * opening, credit), 2)

Debt(opening, burden, repayment) ==
  Least(MaximumDebt, Greatest(0, opening + burden - repayment))

\* _debt_status is BLOCKING, by a ratio; below that nothing looks at it.
Heavy(debt) == Exceeds(5 * debt, 4 * MaximumDebt)

\* Three quarters of the burden are in one window; a ratio, too.
Concentrated(t) ==
  IF t.burden = 0 THEN {FALSE}
  ELSE IF \E w \in 0 .. Windows - 1 : 4 * t.windows[w] > 3 * t.burden THEN {TRUE}
  ELSE UNION {Exceeds(4 * t.windows[w], 3 * t.burden) : w \in 0 .. Windows - 1}

\* The reasons of a fairness warning.
Unfair(t, concentrated) ==
  {r \in {"temporal_burden_concentration", "consecutive_burden_limit_exceeded",
          "protected_event_burden"} :
     CASE r = "temporal_burden_concentration" -> concentrated
       [] r = "consecutive_burden_limit_exceeded" -> t.maximum > ConsecutiveLimit
       [] r = "protected_event_burden" -> t.protected > 0}

Blocking(t, heavy, qualified) ==
  {r \in {"blocking_comfort_debt", "protected_event_burden_limit_exceeded",
          "strong_ood_rejected"} :
     CASE r = "blocking_comfort_debt" -> heavy /\ t.burden > 0
       [] r = "protected_event_burden_limit_exceeded" -> t.protected > MaximumBurden
       [] r = "strong_ood_rejected" -> ~qualified}

\* The rollout has been gone through; opening is opening_debt, and qualified
\* says that the rollout is fit for ranking.
Total(opening, qualified) ==
  /\ stage = "entries"
  /\ tally.steps = RolloutSteps
  /\ LET credit == Least(CreditPerHorizon, tally.credit)
     IN  \E repayment \in Repaid(opening, credit) :
           LET debt == Debt(opening, tally.burden, repayment)
           IN  \E heavy \in Heavy(debt), concentrated \in Concentrated(tally) :
                 account' = [opening |-> opening, burden |-> tally.burden, credit |-> credit,
                             repayment |-> repayment, debt |-> debt,
                             blocking |-> Blocking(tally, heavy, qualified),
                             unfair |-> Unfair(tally, concentrated)]
  /\ stage' = "totalled"
  /\ UNCHANGED <<tally, bank>>

-----------------------------------------------------------------------------
(* The bank.                                                               *)

NoMovements ==
  [opening |-> 0, deposit |-> 0, uncertainty |-> 0, reserve |-> 0, available |-> 0,
   withdrawal |-> 0, penalty |-> 0, closing |-> 0]

\* Half of the credit, for a plan that preconditions.
Deposit(strategy) ==
  IF strategy = "PRECONDITION_BEFORE_PEAK" /\ account.blocking = {}
    THEN Least(MaximumDeposit, 10 * account.credit)
    ELSE 0

\* A tenth of the deposit, rounded.
UncertaintyReserves(available, deposit) ==
  {Million * m : m \in Rounded(Least(10 * available, deposit), 10 * Million)}

Reserves(remaining, events) ==
  {Million * m : m \in Rounded(Least(remaining, IF events THEN ProtectedReserve ELSE 0), Million)}

\* Mutant: what is withdrawn is not kept within what the reserves leave.
WithdrawalUnreserved(strategy, available) ==
  IF strategy = "VACANCY_RELAXATION" /\ account.blocking = {} THEN WithdrawalLimit ELSE 0

\* BALANCED plans withdraw as VACANCY_RELAXATION does.
Withdrawal(strategy, available) ==
  IF strategy = "VACANCY_RELAXATION" /\ account.blocking = {}
    THEN Least(available, WithdrawalLimit)
    ELSE 0

\* A quarter of the debt, of what is left.
Penalty(available, withdrawal) == Least(Greatest(0, available - withdrawal), 5 * account.debt)

\* What closing_balance computes before it refuses or rounds.
Result(b) ==
  b.opening + b.deposit - b.withdrawal - b.penalty - b.uncertainty - b.reserve

\* The amounts that the sum is made of.
Terms(b) ==
  {a \in {"opening", "deposit", "withdrawal", "penalty", "uncertainty", "reserve"} : b[a] > 0}

\* Two equal amounts cancel out; a sum of more that is nothing may be found below
\* zero: 0.3 less 0.03 + 0.27 is.
MayOverdraw(b) == Result(b) < 0 \/ (Result(b) = 0 /\ Cardinality(Terms(b)) > 2)

MayOverfill(b) ==
  Result(b) > MaximumBalance \/ (Result(b) = MaximumBalance /\ Cardinality(Terms(b)) > 1)

\* Mutant: closing_balance checks for an overdraft only.
CloseUnlimited(b) ==
  /\ \E m \in Rounded(Result(b), Million) : bank' = [b EXCEPT !.closing = Million * m]
  /\ \/ MayOverdraw(b) /\ stage' = "refused"
     \/ Result(b) >= 0 /\ stage' = "closed"

\* closing_balance: an overdraft, or a balance above the maximum, raises.
Close(b) ==
  /\ \E m \in Rounded(Result(b), Million) : bank' = [b EXCEPT !.closing = Million * m]
  /\ \/ (MayOverdraw(b) \/ MayOverfill(b)) /\ stage' = "refused"
     \/ Result(b) \in 0 .. MaximumBalance /\ stage' = "closed"

\* events says that the context has events, whether they protect comfort or not.
Settle(strategy, opening, events) ==
  /\ stage = "totalled"
  /\ LET deposit == Deposit(strategy)
         before == opening + deposit
     IN  \E uncertainty \in UncertaintyReserves(before, deposit) :
           LET remaining == Greatest(0, before - uncertainty)
           IN  \E reserve \in Reserves(remaining, events) :
                 LET available == Greatest(0, remaining - reserve)
                     withdrawal == Withdrawal(strategy, available)
                 IN  Close([opening |-> opening, deposit |-> deposit,
                            uncertainty |-> uncertainty, reserve |-> reserve,
                            available |-> available, withdrawal |-> withdrawal,
                            penalty |-> Penalty(available, withdrawal), closing |-> 0])
  /\ UNCHANGED <<tally, account>>

-----------------------------------------------------------------------------

LedgerInit ==
  /\ stage = "entries"
  /\ tally = NoEntries
  /\ account = NoAccount
  /\ bank = NoMovements

LedgerNext ==
  \/ \E p \in Points : AddEntry(p)
  \/ \E opening \in Openings, qualified \in BOOLEAN : Total(opening, qualified)
  \/ \E strategy \in Strategies, opening \in BankOpenings, events \in BOOLEAN :
       Settle(strategy, opening, events)

LedgerSpec == LedgerInit /\ [][LedgerNext]_ledgerVars

-----------------------------------------------------------------------------

\* Debt is opening debt and burden less what was repaid, unless it has reached
\* the maximum; a repayment never exceeds the debt or half of the credit by more
\* than its rounding; so an evaluation with burden and no credit never owes less
\* afterwards (evaluation.py, 171-176).
DebtIsAccounted ==
  stage # "entries" =>
    /\ 2 * account.repayment <= account.credit + 1
    /\ account.repayment <= account.opening
    /\ \/ account.debt = account.opening + account.burden - account.repayment
       \/ account.debt = MaximumDebt /\ account.opening + account.burden > MaximumDebt

\* Of a bank that is closed, the closing balance is within its limits, accounts
\* for every movement up to its rounding, and withdrawal and penalty have left
\* the reserves alone; a blocked plan moves nothing in or out (evaluation.py,
\* 224-258; accounting.py).
BankIsBalanced ==
  stage = "closed" =>
    /\ bank.closing \in 0 .. MaximumBalance + Million
    /\ 2 * (Result(bank) - bank.closing) <= Million
    /\ 2 * (bank.closing - Result(bank)) <= Million
    /\ bank.withdrawal + bank.penalty <= bank.available
    /\ account.blocking # {} => bank.deposit = 0 /\ bank.withdrawal = 0

\* An evaluation from a legal balance is never refused for what it withdraws or
\* charges.  It is refused for an overdraft only where the movements leave nothing,
\* by the last bit of their sum, or where the rounding of a reserve leaves up to
\* half a millionth less than nothing, with nothing available; and otherwise only
\* where opening and deposit reach the maximum (evaluation.py, 231-258;
\* accounting.py, 37-42).
RefusalIsRounding ==
  stage = "refused" =>
    \/ Result(bank) = 0
    \/ -Million <= 2 * Result(bank) /\ Result(bank) < 0 /\ bank.available = 0
    \/ bank.opening + bank.deposit >= MaximumBalance

=============================================================================
