--------------------------- MODULE FinancialEngine ---------------------------
(***************************************************************************)
(* The Financial Engine and the options of the candidate generator against *)
(* the life of a customer: days pass, the salary comes, purchases are made *)
(* and recurring events are debited, while scans forecast the balance,     *)
(* look for anomalies of spending, offer funds for the next event and      *)
(* scenarios for a goal that drifts, which the customer may accept.        *)
(*                                                                         *)
(* Amounts are whole units, as money() rounds them.  On each day the       *)
(* salary and the purchases come first and the debits last; a scan may run *)
(* before or after the debits.  Funds that were offered by one scan are    *)
(* drawn at any later time, after other draws and debits: a selected       *)
(* option does not expire.  A scenario for the goal is accepted on the day *)
(* it is offered.  The balance is what remains if every event is met, so   *)
(* it may be below zero.                                                   *)
(***************************************************************************)
EXTENDS Calendar, Sequences, FiniteSets, FiniteSetsExt

CONSTANTS
    Customers,      \* the customers, of whom one is looked at
    ContextLimit,   \* transaction_limit of the financial context
    Lookback,       \* cashflow_spending_lookback_days
    Horizon,        \* days a forecast and the recurring events look ahead
    BaselineMonths, \* spending_baseline_months
    MaxUpdates      \* bound on the goal's updates and the offers selected

Dates == [year : Nat \ {0}, month : 1..12, day : 1..31]

InCalendar(d) == d \in Dates /\ d.day <= MonthLength(d.year, d.month)

\* A date that Python has.
Representable(d) == InCalendar(d) /\ d.year <= MaxYear

Debits == {"RENT", "UTILITY", "HEALTH", "SHOPPING"}

Events == [day : 1..31, amount : Nat \ {0}, category : Debits]

Facilities == {f \in [limit : Nat, used : Nat, expires : Dates] : f.used <= f.limit}

Goals == [due : Dates, target : Nat, current : Nat, monthly : Nat]

NoGoal == [due |-> Date(1, 1, 1), target |-> 0, current |-> 0, monthly |-> 0]

\* A goal that create_goal accepts, which starts on the day first.
Acceptable(g, first) ==
    /\ g \in Goals /\ Representable(g.due)
    /\ Ordinal(g.due) > Ordinal(first)
    /\ g.current <= g.target
    /\ g.monthly > 0

\* The bounds of the fields in Core Banking's schemas and of the tool's window;
\* nobody is looked at in the last year that Python has.
ASSUME ConstantsAssumption ==
    /\ {ContextLimit, Lookback, Horizon, BaselineMonths} \subseteq Nat \ {0}
    /\ Horizon <= 90
    /\ MaxUpdates \in Nat
    /\ \A c \in Customers :
          /\ InCalendar(c.first) /\ InCalendar(c.last)
          /\ Ordinal(c.first) <= Ordinal(c.last) /\ c.last.year < MaxYear
          /\ c.income \in Nat /\ c.salaryDay \in 1..31 /\ c.balance \in Int
          /\ c.rates \subseteq Nat /\ c.every \in Nat \ {0}
          /\ c.events \in Seq(Events) /\ c.facilities \in Seq(Facilities)
          /\ \A g \in c.goals : g = NoGoal \/ Acceptable(g, c.first)

VARIABLES
    customer,      \* the customer: income, salary day, recurring events, habits, and the
                   \* days from the first to the last that are looked at
    today,         \* as_of
    settled,       \* whether the events of today have been debited
    balance,       \* available_balance of all accounts
    transactions,  \* the transactions in the order of their dates
    rate,          \* what the customer spends on a shopping day of this month
    facilities,    \* overdraft facilities
    goal,          \* the goal, if the customer has one
    drafts,        \* the funds selected and not yet confirmed
    checked,       \* the funds confirmed that the tool is about to draw
    updates,       \* updates and selections so far
    promised,      \* history: the forecasts whose day has not passed
    assured,       \* history: the last day up to which no shortfall was seen
    funded         \* history: the day of the event that was last drawn for

vars == <<customer, today, settled, balance, transactions, rate, facilities,
          goal, drafts, checked, updates, promised, assured, funded>>

Amount(events, chosen) == MapThenSumSet(LAMBDA i : events[i].amount, chosen)

-----------------------------------------------------------------------------
(* The cashflow forecast *)

\* What Core Banking returns of the transactions: the last ones.
Context(log) ==
    IF Len(log) <= ContextLimit THEN log
    ELSE SubSeq(log, Len(log) - ContextLimit + 1, Len(log))

\* detect_upcoming_recurring
Upcoming(d) ==
    {i \in DOMAIN customer.events :
        Days(d, NextOccurrence(d, customer.events[i].day)) <= Horizon}

\* The debits that make up historical_spend.
Discretionary(log, d) ==
    {i \in DOMAIN log :
        /\ log[i].category \notin {"SALARY", "RENT", "UTILITY", "TRANSFER"}
        /\ log[i].on < Ordinal(d)
        /\ log[i].on >= Ordinal(d) - Lookback}

\* money(amount / parts), ROUND_HALF_UP.
Rounded(amount, parts) == (2 * amount + parts) \div (2 * parts)

\* forecast_balance of forecast_cashflow.
Forecast(d, funds, log) ==
    LET recent == Context(log)
    IN funds
       + customer.income * Cardinality(SalaryDates(d, Plus(d, Horizon), customer.salaryDay))
       - Amount(customer.events, Upcoming(d))
       - Rounded(Amount(recent, Discretionary(recent, d)) * Horizon, Lookback)

\* risk_level is not LOW.
CashflowRisk == Forecast(today, balance, transactions) < customer.safe

\* Mutant: obligations due on the day of the salary's month only.
BeforeIncome_ThisMonth(d) ==
    {i \in Upcoming(d) : customer.events[i].day >= d.day}

\* events_before_income
BeforeIncome(d) ==
    {i \in Upcoming(d) : Ordinal(NextOccurrence(d, customer.events[i].day))
                         < Ordinal(NextSalaryDate(d, customer.salaryDay))}

\* liquidity_gap of _liquidity_context.
LiquidityGap(d, funds) == Most(Amount(customer.events, BeforeIncome(d)) - funds, 0)

-----------------------------------------------------------------------------
(* Anomalies of spending *)

Period(d) == 12 * d.year + d.month

Spending(log, category, period) ==
    {i \in DOMAIN log : log[i].category = category /\ log[i].period = period}

\* Mutant: a month without spending is left out of the baseline.
Evaluated_AnyMonth(log, category, d) ==
    \E month \in 1..BaselineMonths : Spending(log, category, Period(d) - month) # {}

\* A category is looked at if it has spending in every month of the baseline.
Evaluated(log, category, d) ==
    \A month \in 1..BaselineMonths : Spending(log, category, Period(d) - month) # {}

Spent(log, category, period) == Amount(log, Spending(log, category, period))

\* The months of the baseline together.
SpentBefore(log, category, d) ==
    MapThenSumSet(LAMBDA month : Spent(log, category, Period(d) - month), 1..BaselineMonths)

\* is_anomaly: ratio((current - baseline) / baseline) is a fifth at least.
Anomalous(log, category, d) ==
    LET before == SpentBefore(log, category, d)
    IN /\ category \notin {"RENT", "TRANSFER", "SALARY"}
       /\ Evaluated(log, category, d)
       /\ Rounded(10000 * (BaselineMonths * Spent(log, category, Period(d)) - before), before)
          >= 2000

\* detect_spending_anomaly
Anomalies(d) == {c \in Debits : Anomalous(Context(transactions), c, d)}

-----------------------------------------------------------------------------
(* The goal *)

\* (amount / parts).to_integral_value(rounding=ROUND_CEILING)
Ceiling(amount, parts) == (amount + parts - 1) \div parts

Remaining(g) == Most(g.target - g.current, 0)

\* calculate_goal_gap: what should have been saved by now, of a goal whose
\* start_date is the first day.
Expected(g, asOf) ==
    LET total == Most(Days(customer.first, g.due), 1)
        elapsed == Least(Most(Days(customer.first, asOf), 0), total)
    IN Rounded(g.target * elapsed, total)

Drifting(g, asOf) == g.current < Expected(g, asOf)

\* monthly_contribution of the scenario INCREASE_CONTRIBUTION.
Required(g, asOf) == Rounded(Remaining(g), MonthsBetween(asOf, g.due))

\* Mutant: the last, incomplete contribution gets no month.
ExtensionMonths_Floor(g) == Remaining(g) \div g.monthly

ExtensionMonths(g) == Ceiling(Remaining(g), g.monthly)

\* target_date of the scenario EXTEND_DEADLINE.
ExtendedDate(g, asOf) == AddMonths(asOf, ExtensionMonths(g))

-----------------------------------------------------------------------------
(* What a scan recommends *)

\* simulate_goal_scenarios has a result: the ValueError of a deadline that
\* would be extended beyond the last year is taken for the lack of a goal.
Simulated(g, asOf) == g.monthly > 0 => Representable(ExtendedDate(g, asOf))

\* The order in which LocalAgentRuntime.run looks at the risks.
Primary ==
    CASE CashflowRisk -> "CASHFLOW_RISK"
      [] Anomalies(today) # {} -> "SPENDING_ANOMALY"
      [] Simulated(goal, today) /\ Drifting(goal, today) -> "GOAL_DRIFT"
      [] Upcoming(today) # {} -> "UPCOMING_RECURRING"
      [] OTHER -> "NONE"

\* events[0]: the next one, of several on one day the one with the least id.
First ==
    LET due(i) == Ordinal(NextOccurrence(today, customer.events[i].day))
    IN CHOOSE i \in Upcoming(today) :
          \A j \in Upcoming(today) : due(i) < due(j) \/ (due(i) = due(j) /\ i <= j)

\* required
Missing == Most(customer.events[First].amount - balance, 0)

\* next(...): the first row of a table that suits, or none.
FirstOf(rows) == {i \in rows : \A j \in rows : i <= j}

Sources ==
    [OVERDRAFT |->
        {i \in DOMAIN facilities : facilities[i].limit - facilities[i].used >= Missing},
     PARTIAL_SAVING_WITHDRAWAL |->
        {i \in DOMAIN customer.deposits :
            customer.deposits[i].partial /\ customer.deposits[i].available >= Missing},
     SHORT_TERM_LOAN |->
        {i \in DOMAIN customer.loans :
            /\ customer.loans[i].eligible
            /\ customer.loans[i].least <= Missing
            /\ customer.loans[i].limit >= Missing}]

\* candidate_options for an upcoming event; a reminder if there are none.
Offers ==
    IF Primary # "UPCOMING_RECURRING" \/ Missing = 0 THEN {}
    ELSE UNION {[type : {type}, ref : FirstOf(Sources[type]), amount : {Missing}] :
                   type \in DOMAIN Sources}

\* The check of PrepareFundingOptionTool.
Available(o) ==
    CASE o.type = "OVERDRAFT" ->
            o.amount <= facilities[o.ref].limit - facilities[o.ref].used
      [] o.type = "PARTIAL_SAVING_WITHDRAWAL" ->
            customer.deposits[o.ref].partial /\ o.amount <= customer.deposits[o.ref].available
      [] o.type = "SHORT_TERM_LOAN" ->
            customer.loans[o.ref].eligible /\ o.amount <= customer.loans[o.ref].limit

Expired(facility) == Ordinal(facility.expires) < Ordinal(today)

\* Mutant: the limit is left to the check of the tool.
Drawable_Unlimited(o) == ~Expired(facilities[o.ref])

\* The check of Core Banking's draw_overdraft.
Drawable(o) ==
    /\ ~Expired(facilities[o.ref])
    /\ o.amount <= facilities[o.ref].limit - facilities[o.ref].used

-----------------------------------------------------------------------------
(* The life of the customer *)

\* Every date that a scan computes is one that Python has, today's or of the
\* window, the events and the salary, so that none of its tools ends with an
\* error; a deadline that was extended is one as well, and the goal one that
\* create_goal would accept.
TypeOK ==
    /\ customer \in Customers
    /\ Representable(today) /\ Representable(Plus(today, Horizon))
    /\ \A i \in DOMAIN customer.events :
          Representable(NextOccurrence(today, customer.events[i].day))
    /\ Representable(NextSalaryDate(today, customer.salaryDay))
    /\ settled \in BOOLEAN
    /\ balance \in Int
    /\ \A i \in DOMAIN transactions :
          transactions[i].amount > 0 /\ transactions[i].on <= Ordinal(today)
    /\ rate \in customer.rates
    /\ \A i \in DOMAIN facilities : facilities[i].used \in Nat
    /\ \A o \in drafts \cup checked : o.amount > 0
    /\ goal # NoGoal => Acceptable(goal, customer.first)
    /\ updates \in 0..MaxUpdates

\* The context has all transactions of the lookback days, and the customer has
\* been one for so long.
Known(log, d) ==
    LET dropped == Len(log) - ContextLimit
    IN /\ Ordinal(d) - Lookback > Ordinal(customer.first)
       /\ dropped <= 0 \/ log[dropped].on < Ordinal(d) - Lookback

\* What a scan would answer: the forecast, and how far no shortfall is seen.
Promise(d, late, funds, log) ==
    [until |-> Ordinal(d) + Horizon, amount |-> Forecast(d, funds, log), late |-> late,
     known |-> Known(log, d)]

Assurance(d, funds) ==
    IF LiquidityGap(d, funds) > 0 THEN assured
    ELSE Most(assured, Least(Ordinal(NextSalaryDate(d, customer.salaryDay)) - 1,
                             Ordinal(d) + Horizon))

Row(d, category, amount) ==
    [on |-> Ordinal(d), period |-> Period(d), category |-> category, amount |-> amount]

Rows(d, category, amount, happens) ==
    IF happens /\ amount > 0 THEN <<Row(d, category, amount)>> ELSE <<>>

Init ==
    /\ customer \in Customers
    /\ today = customer.first
    /\ settled = TRUE
    /\ balance = customer.balance
    /\ transactions = <<>>
    /\ rate \in customer.rates
    /\ facilities = customer.facilities
    /\ goal \in customer.goals
    /\ drafts = {} /\ checked = {}
    /\ updates = 0
    /\ promised = {}
    /\ assured = 0
    /\ funded = 0

\* The next day: its salary, and its purchases at this month's rate.
NextDay ==
    LET d == Tomorrow(today)
        paid == d = OnDay(d, customer.salaryDay)
        shops == d.day % customer.every = 0
        income == IF paid THEN customer.income ELSE 0
    IN /\ settled
       /\ Ordinal(today) < Ordinal(customer.last)
       /\ today' = d
       /\ settled' = FALSE
       /\ rate' \in IF d.day = 1 THEN customer.rates ELSE {rate}
       /\ balance' = balance + income - (IF shops THEN rate' ELSE 0)
       /\ transactions' = transactions \o Rows(d, "SALARY", income, paid)
                                       \o Rows(d, "SHOPPING", rate', shops)
       /\ promised' = {p \in promised : p.until >= Ordinal(d)}
                       \cup {Promise(d, FALSE, balance', transactions')}
       /\ assured' = Assurance(d, balance')
       /\ UNCHANGED <<customer, facilities, goal, drafts, checked, updates, funded>>

\* An event of a day of the month is due on that day, or on the last one of a
\* month without it.
Due(d) == {i \in DOMAIN customer.events :
              d.day = Least(customer.events[i].day, MonthLength(d.year, d.month))}

\* The events of the day are debited.
Settle ==
    LET due == Due(today)
        debited == [i \in 1..Cardinality(due) |->
                      LET e == customer.events[CHOOSE j \in due :
                                  Cardinality({k \in due : k <= j}) = i]
                      IN Row(today, e.category, e.amount)]
    IN /\ ~settled
       /\ settled' = TRUE
       /\ balance' = balance - Amount(customer.events, due)
       /\ transactions' = transactions \o debited
       /\ promised' = promised \cup {Promise(today, due # {}, balance', transactions')}
       /\ assured' = Assurance(today, balance')
       /\ UNCHANGED <<customer, today, rate, facilities, goal, drafts, checked, updates,
                      funded>>

\* The customer selects funds that a scan has just offered.  Their type, place
\* and amount are those of the scan from now on; what the facility has been
\* used for and the day of the event are remembered for the properties.
Choose ==
    /\ updates < MaxUpdates
    /\ \E o \in Offers :
          drafts' = drafts \cup
             {[id |-> updates + 1, type |-> o.type, ref |-> o.ref, amount |-> o.amount,
               due |-> Ordinal(NextOccurrence(today, customer.events[First].day)),
               seen |-> IF o.type = "OVERDRAFT" THEN facilities[o.ref].used ELSE 0]}
    /\ updates' = updates + 1
    /\ UNCHANGED <<customer, today, settled, balance, transactions, rate, facilities,
                   goal, checked, promised, assured, funded>>

\* The customer confirms: the tool reads Core Banking once more, and draws on
\* a facility that suffices; other funds are only prepared, or refused.
Check(o) ==
    /\ drafts' = drafts \ {o}
    /\ checked' = IF o.type = "OVERDRAFT" /\ Available(o) THEN checked \cup {o} ELSE checked
    /\ UNCHANGED <<customer, today, settled, balance, transactions, rate, facilities,
                   goal, updates, promised, assured, funded>>

\* draw_overdraft; the forecasts made before did not reckon with it.
Draw(o) ==
    /\ Drawable(o)
    /\ facilities' = [facilities EXCEPT ![o.ref].used = @ + o.amount]
    /\ balance' = balance + o.amount
    /\ transactions' = Append(transactions, Row(today, "TRANSFER", o.amount))
    /\ checked' = checked \ {o}
    /\ funded' = IF o.due >= Ordinal(today) THEN o.due ELSE funded
    /\ promised' = {}
    /\ UNCHANGED <<customer, today, settled, rate, goal, drafts, updates, assured>>

\* draw_overdraft answers 409.
RefuseDraw(o) ==
    /\ ~Drawable(o)
    /\ checked' = checked \ {o}
    /\ UNCHANGED <<customer, today, settled, balance, transactions, rate, facilities,
                   goal, drafts, updates, promised, assured, funded>>

\* update_goal: what it writes, unless it answers 422.  The debits of a day do
\* not concern the goal: it is updated after them.
Update(g) ==
    /\ updates < MaxUpdates
    /\ settled
    /\ goal # NoGoal
    /\ g.monthly > 0
    /\ Ordinal(g.due) > Ordinal(customer.first)
    /\ g.current <= g.target
    /\ goal' = g
    /\ updates' = updates + 1
    /\ UNCHANGED <<customer, today, settled, balance, transactions, rate,
                   facilities, drafts, checked, promised, assured, funded>>

\* The customer saves a month's contribution.
Save == Update([goal EXCEPT !.current = @ + goal.monthly])

AcceptIncrease ==
    /\ Primary = "GOAL_DRIFT"
    /\ Update([goal EXCEPT !.monthly = Required(goal, today)])

\* Offered to customers who contribute.
AcceptExtend ==
    /\ Primary = "GOAL_DRIFT"
    /\ goal.monthly > 0
    /\ Update([goal EXCEPT !.due = ExtendedDate(goal, today)])

Next ==
    \/ NextDay \/ Settle
    \/ Choose \/ (\E o \in drafts : Check(o))
    \/ \E o \in checked : Draw(o) \/ RefuseDraw(o)
    \/ Save \/ AcceptIncrease \/ AcceptExtend

Spec == Init /\ [][Next]_vars

-----------------------------------------------------------------------------
(* Properties *)

\* The customer buys something every day, for the same amount.
Steady == customer.every = 1 /\ \E r \in customer.rates : customer.rates = {r}

\* No forecast of forecast_cashflow promises a customer of steady habits, whose
\* transactions of the lookback days it has seen, more than the accounts hold
\* when its day has come, and it is exact if the events of the day it was made
\* had not been debited and none of them is of a category that the history of
\* spending has as well: no due date or salary is missed or counted twice, at
\* the ends of months of every length.
ForecastComesTrue ==
    Steady /\ settled =>
        \A p \in promised : p.until = Ordinal(today) /\ p.known =>
            /\ p.amount <= balance
            /\ ~p.late /\ (\A i \in DOMAIN customer.events :
                              customer.events[i].category \in {"RENT", "UTILITY"})
               => p.amount = balance

\* A customer who buys nothing can meet every event up to the day before the
\* next salary, within the window, once the liquidity analysis has seen no
\* shortfall.
ShortfallsForeseen ==
    customer.rates = {0} /\ Ordinal(today) <= assured => balance >= 0

\* The transactions the context drops are older than the baseline.
ReachesBack ==
    LET dropped == Len(transactions) - ContextLimit
    IN dropped <= 0 \/ transactions[dropped].period < Period(today) - BaselineMonths

\* As long as the last transactions reach back to the first month of the
\* baseline, detect_spending_anomaly reports the categories whose spending this
\* month is a fifth above the average of the months before, to within half of
\* the hundredth of a percent that ratio() rounds to, and no other.
AnomaliesAreReal ==
    ReachesBack =>
        \A c \in Debits \ {"RENT"} :
            c \in Anomalies(today) <=>
               /\ \A month \in 1..BaselineMonths :
                     Spent(transactions, c, Period(today) - month) > 0
               /\ 20000 * BaselineMonths * Spent(transactions, c, Period(today))
                  >= 23999 * SpentBefore(transactions, c, today)

\* However old the reading of Core Banking is that funds were offered by, no
\* facility is drawn beyond its limit; they pass the checks of the tool and of
\* draw_overdraft whenever they are made, unless the facility has been used
\* since or has expired; and the event they were drawn for is met by a customer
\* who buys nothing, if it is the only one of its day and not over by then.
OffersAreSound ==
    /\ \A i \in DOMAIN facilities : facilities[i].used <= facilities[i].limit
    /\ \A o \in drafts \cup checked :
          (o.type = "OVERDRAFT" => facilities[o.ref].used = o.seen) =>
             /\ Available(o)
             /\ o.type = "OVERDRAFT" /\ ~Expired(facilities[o.ref]) => Drawable(o)
    /\ customer.rates = {0} /\ funded = Ordinal(today) /\ Cardinality(Due(today)) = 1
       => balance >= 0

\* The plan a customer has accepted reaches the target by the deadline, up to
\* the rounding of a contribution, by half a unit a month; and an extension
\* goes no further than needed.
PlansReachTarget ==
    /\ [][AcceptIncrease =>
            LET months == MonthsBetween(today, goal'.due)
            IN 2 * months * goal'.monthly >= 2 * Remaining(goal') - months]_vars
    /\ [][AcceptExtend =>
            LET months == MonthsBetween(today, goal'.due)
            IN /\ months * goal'.monthly >= Remaining(goal')
               /\ (months - 1) * goal'.monthly < Remaining(goal')]_vars
=============================================================================
