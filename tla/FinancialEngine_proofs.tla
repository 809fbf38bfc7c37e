----------------------- MODULE FinancialEngine_proofs -----------------------
(***************************************************************************)
(* Proofs about the Financial Engine, for every customer whose fields are  *)
(* in the bounds of Core Banking's schemas: dates are ones that Python has *)
(* and goals acceptable, anomalies are those of the whole history, no event *)
(* is missed by the liquidity analysis, the forecasts of a customer of     *)
(* steady habits come true, funds pass the checks made after they were     *)
(* offered unless they have been used or have expired, and the plan a      *)
(* customer accepts reaches its target.                                    *)
(***************************************************************************)
EXTENDS FinancialEngine_lemmas

-----------------------------------------------------------------------------
(* Division *)

\* money(amount / parts) is off by half a unit at most.
LEMMA RoundedFacts ==
    ASSUME NEW amount \in Nat, NEW parts \in Nat \ {0}
    PROVE  /\ Rounded(amount, parts) \in Nat
           /\ 2 * parts * Rounded(amount, parts) >= 2 * amount - parts
           /\ 2 * parts * Rounded(amount, parts) <= 2 * amount + parts
<1> DEFINE n == 2 * amount + parts
           q == n \div (2 * parts)
<1>1. n \in Int /\ 2 * parts \in Nat \ {0}
  OBVIOUS
<1>2. /\ q \in Int
      /\ n % (2 * parts) \in 0..(2 * parts - 1)
      /\ n = (2 * parts) * q + (n % (2 * parts))
  BY <1>1, Euclid
<1>3. q \in Nat
  BY <1>2
<1> QED
  BY <1>2, <1>3 DEF Rounded

\* A part of an amount is not rounded to more than the amount.
LEMMA RoundedPart ==
    ASSUME NEW amount \in Nat, NEW parts \in Nat \ {0}, NEW part \in 0..parts
    PROVE  Rounded(amount * part, parts) <= amount
<1> DEFINE q == Rounded(amount * part, parts)
<1>1. amount * part \in Nat /\ amount * part <= amount * parts
  OBVIOUS
<1>2. q \in Nat /\ (2 * parts) * q <= 2 * (amount * part) + parts
  BY <1>1, RoundedFacts
<1>3. (2 * parts) * q <= (2 * parts) * amount + parts
  BY <1>1, <1>2
<1> HIDE DEF q
<1>4. ASSUME NEW d \in Nat \ {0}, q = amount + d PROVE FALSE
  <2>1. (2 * parts) * q = (2 * parts) * amount + (2 * parts) * d
    BY <1>4
  <2>2. (2 * parts) * d <= parts
    BY <1>2, <1>3, <2>1
  <2>3. (2 * parts) * d >= 2 * parts
    OBVIOUS
  <2> QED
    BY <2>2, <2>3
<1>5. CASE q > amount
  <2>1. q - amount \in Nat \ {0} /\ q = amount + (q - amount)
    BY <1>2, <1>5
  <2> QED
    BY <1>4, <2>1
<1> QED
  BY <1>2, <1>5 DEF q

\* As many contributions as needed, and not one more.
LEMMA CeilingFacts ==
    ASSUME NEW amount \in Nat \ {0}, NEW parts \in Nat \ {0}
    PROVE  /\ Ceiling(amount, parts) \in Nat \ {0}
           /\ Ceiling(amount, parts) * parts >= amount
           /\ (Ceiling(amount, parts) - 1) * parts < amount
<1> DEFINE n == amount + parts - 1
           q == n \div parts
<1>1. n \in Int
  OBVIOUS
<1>2. /\ q \in Int
      /\ n % parts \in 0..(parts - 1)
      /\ n = parts * q + (n % parts)
  BY <1>1, Euclid
<1>3. q * parts >= amount /\ (q - 1) * parts < amount
  BY <1>2
<1>4. q \in Nat \ {0}
  BY <1>2, <1>3
<1> QED
  BY <1>3, <1>4 DEF Ceiling

-----------------------------------------------------------------------------
(* Dates *)

LEMMA MonthsBetweenType ==
    ASSUME NEW d \in Dates, NEW e \in Dates
    PROVE  MonthsBetween(d, e) \in Nat \ {0}
BY DEF MonthsBetween, Most, Dates

\* months_between_ceiling undoes add_months: a day that a month is too short
\* for is cut, which never makes the count one more.
LEMMA MonthsAdded ==
    ASSUME NEW d \in Dates, NEW months \in Nat \ {0}
    PROVE  /\ AddMonths(d, months) \in Dates /\ InCalendar(AddMonths(d, months))
           /\ MonthsBetween(d, AddMonths(d, months)) = months
<1> DEFINE index == d.month - 1 + months
           year == d.year + index \div 12
           month == (index % 12) + 1
           length == MonthLength(year, month)
<1>1. d.year \in Nat \ {0} /\ d.month \in 1..12 /\ d.day \in 1..31
  BY DEF Dates
<1>2. /\ index \div 12 \in Nat
      /\ index % 12 \in 0..11
      /\ index = 12 * (index \div 12) + (index % 12)
  BY <1>1
<1>3. length \in {28, 29, 30, 31}
  BY MonthLengthFacts
<1>4. AddMonths(d, months) = [year |-> year, month |-> month, day |-> Least(d.day, length)]
  BY DEF AddMonths, OnDay, Date
<1>5. year \in Nat \ {0} /\ month \in 1..12 /\ (year - d.year) * 12 + month - d.month = months
  <2> HIDE DEF index
  <2>1. year \in Nat \ {0} /\ month \in 1..12
    BY <1>1, <1>2
  <2>2. index = d.month - 1 + months
    BY DEF index
  <2>3. ASSUME NEW q \in Nat, NEW r \in 0..11, index = 12 * q + r,
               NEW y, y = d.year + q, NEW m, m = r + 1
        PROVE  (y - d.year) * 12 + m - d.month = months
    BY <1>1, <2>2, <2>3
  <2>4. year = d.year + (index \div 12) /\ month = (index % 12) + 1
    OBVIOUS
  <2> HIDE DEF year, month
  <2> QED
    BY <1>2, <2>1, <2>3, <2>4
<1>l. length = MonthLength(year, month)
  OBVIOUS
<1> HIDE DEF index, year, month, length
<1>6. /\ Least(d.day, length) \in 1..31 /\ Least(d.day, length) <= d.day
      /\ Least(d.day, length) <= length
  BY <1>1, <1>3 DEF Least
<1>7. AddMonths(d, months) \in Dates /\ InCalendar(AddMonths(d, months))
  <2>1. AddMonths(d, months) \in Dates
    BY <1>4, <1>5, <1>6 DEF Dates
  <2> QED
    BY <1>4, <1>6, <1>l, <2>1 DEF InCalendar
<1>8. MonthsBetween(d, AddMonths(d, months)) = months
  BY <1>1, <1>4, <1>5, <1>6 DEF MonthsBetween, Most
<1> QED
  BY <1>7, <1>8

-----------------------------------------------------------------------------
(* Goals *)

LEMMA RemainingType ==
    ASSUME NEW g \in Goals
    PROVE  Remaining(g) \in Nat
BY DEF Remaining, Most, Goals

\* A goal that drifts is one that something remains of.
LEMMA DriftingRemains ==
    ASSUME NEW g \in Goals, NEW d \in Dates, customer.first \in Dates, Drifting(g, d)
    PROVE  Remaining(g) \in Nat \ {0}
<1> DEFINE total == Most(Days(customer.first, g.due), 1)
           elapsed == Least(Most(Days(customer.first, d), 0), total)
<1>1. g.target \in Nat /\ g.current \in Nat /\ g.due \in Dates
  BY DEF Goals
<1>2. Days(customer.first, g.due) \in Int /\ Days(customer.first, d) \in Int
  BY <1>1, OrdinalType DEF Days
<1>3. total \in Nat \ {0} /\ elapsed \in 0..total
  BY <1>2 DEF Most, Least
<1>4. g.current < Rounded(g.target * elapsed, total)
  BY DEF Drifting, Expected
<1> HIDE DEF total, elapsed
<1>5. /\ Rounded(g.target * elapsed, total) <= g.target
      /\ Rounded(g.target * elapsed, total) \in Nat
  <2>1. g.target * elapsed \in Nat
    BY <1>1, <1>3
  <2> QED
    BY <1>1, <1>3, <2>1, RoundedPart, RoundedFacts
<1>6. g.current < g.target
  BY <1>1, <1>4, <1>5
<1> QED
  BY <1>1, <1>6 DEF Remaining, Most

LEMMA PrimaryDrift ==
    Primary = "GOAL_DRIFT" => Simulated(goal, today) /\ Drifting(goal, today)
BY DEF Primary

-----------------------------------------------------------------------------
(* Types *)

Kinds == {"OVERDRAFT", "PARTIAL_SAVING_WITHDRAWAL", "SHORT_TERM_LOAN"}

\* The facility of a selected overdraft had room for it when it was offered;
\* deposits and loans do not change.
Drafted(o) ==
    /\ o.type \in Kinds /\ o.amount \in Nat \ {0} /\ o.due \in Int
    /\ o.type = "OVERDRAFT" => /\ o.ref \in DOMAIN facilities
                               /\ o.seen \in Nat
                               /\ o.seen + o.amount <= facilities[o.ref].limit
    /\ o.type # "OVERDRAFT" => Available(o)

Inv ==
    /\ customer \in Customers /\ InCalendar(today)
    /\ Ordinal(today) <= Ordinal(customer.last)
    /\ settled \in BOOLEAN /\ balance \in Int
    /\ Ordered(transactions, today)
    /\ rate \in customer.rates /\ facilities \in Seq(Facilities)
    /\ goal = NoGoal \/ Acceptable(goal, customer.first)
    /\ \A o \in drafts : Drafted(o)
    /\ \A o \in checked : Drafted(o) /\ o.type = "OVERDRAFT"
    /\ updates \in 0..MaxUpdates

LEMMA InvFacts ==
    ASSUME Inv
    PROVE  /\ today \in Dates /\ customer.first \in Dates /\ goal \in Goals
           /\ customer.events \in Seq(Events) /\ customer.income \in Nat
           /\ customer.salaryDay \in 1..31 /\ customer.rates \subseteq Nat
           /\ customer.every \in Nat \ {0}
           /\ transactions \in Seq(Entries)
           /\ MaxUpdates \in Nat
<1>1. NoGoal \in Goals
  BY DEF NoGoal, Goals, Dates, Date
<1> QED
  BY <1>1, CustomerFacts, ConstantsAssumption
     DEF Inv, InCalendar, Representable, Acceptable, Ordered

\* As the last day is not in Python's last year, the dates that a scan computes
\* from today are ones that Python has.
LEMMA InvDates ==
    ASSUME Inv
    PROVE  /\ Representable(today) /\ Representable(Plus(today, Horizon))
           /\ \A i \in DOMAIN customer.events :
                 Representable(NextOccurrence(today, customer.events[i].day))
           /\ Representable(NextSalaryDate(today, customer.salaryDay))
<1>1. today \in Dates /\ InCalendar(today)
  BY InvFacts DEF Inv
<1>2. today.year < MaxYear
  <2>1. customer.last \in Dates /\ InCalendar(customer.last) /\ customer.last.year < MaxYear
        /\ Ordinal(today) <= Ordinal(customer.last)
    BY CustomerFacts DEF Inv
  <2>2. today.year <= customer.last.year /\ today.year \in Nat /\ customer.last.year \in Nat
    BY <1>1, <2>1, YearOrder DEF Dates
  <2> QED
    BY <2>1, <2>2 DEF MaxYear
<1>3. ASSUME NEW d \in Dates, InCalendar(d), d.year <= today.year + 1 PROVE Representable(d)
  <2>1. d.year \in Nat /\ today.year \in Nat
    BY <1>1 DEF Dates
  <2> QED
    BY <1>2, <1>3, <2>1 DEF Representable, MaxYear
<1>4. ASSUME NEW day \in 1..31
      PROVE  Representable(OnDay(today, day)) /\ Representable(OnDay(NextMonth(today), day))
  <2>1. NextMonth(today) \in Dates /\ Period(NextMonth(today)) = Period(today) + 1
    BY <1>1, NextMonthFacts
  <2>2. /\ OnDay(today, day) \in Dates /\ InCalendar(OnDay(today, day))
        /\ OnDay(today, day).year = today.year
    BY <1>1, OnDayFacts
  <2>3. PICK e \in Dates : /\ e = OnDay(NextMonth(today), day) /\ InCalendar(e)
                           /\ Period(e) = Period(today) + 1
    BY <2>1, OnDayFacts
  <2>4. e.year <= today.year + 1
    BY <1>1, <2>3, NextMonthYear, PeriodType
  <2>5. today.year \in Nat
    BY <1>1 DEF Dates
  <2> QED
    BY <1>3, <2>2, <2>3, <2>4, <2>5
<1>5. Representable(Plus(today, Horizon))
  <2>1. Horizon \in 0..90
    <3>1. Horizon \in Nat
      BY ConstantsAssumption
    <3>2. Horizon <= 90
      BY ConstantsAssumption
    <3> QED
      BY <3>1, <3>2
  <2> QED
    BY <1>1, <1>3, <2>1, HorizonYear
<1>6. ASSUME NEW i \in DOMAIN customer.events
      PROVE  Representable(NextOccurrence(today, customer.events[i].day))
  <2>1. customer.events[i].day \in 1..31
    BY InvFacts, EventFacts
  <2> QED
    BY <1>4, <2>1 DEF NextOccurrence
<1>7. Representable(NextSalaryDate(today, customer.salaryDay))
  BY <1>4, InvFacts DEF NextSalaryDate
<1>8. Representable(today)
  BY <1>1, <1>2 DEF Representable, MaxYear, Dates
<1> QED
  BY <1>5, <1>6, <1>7, <1>8

LEMMA FacilityFacts ==
    ASSUME facilities \in Seq(Facilities), NEW i \in DOMAIN facilities
    PROVE  /\ facilities[i] \in Facilities
           /\ facilities[i].limit \in Nat /\ facilities[i].used \in Nat
           /\ facilities[i].used <= facilities[i].limit
<1>1. facilities[i] \in Facilities
  BY LenProperties, ElementOfSeq
<1> QED
  BY <1>1 DEF Facilities

LEMMA InvTypes == Inv => TypeOK
<1> SUFFICES ASSUME Inv PROVE TypeOK
  OBVIOUS
<1>1. transactions \in Seq(Entries) /\ DOMAIN transactions = 1..Len(transactions)
  BY InvFacts, LenProperties
<1>2. \A i \in DOMAIN transactions :
         transactions[i].amount > 0 /\ transactions[i].on <= Ordinal(today)
  <2> SUFFICES ASSUME NEW i \in 1..Len(transactions)
               PROVE  transactions[i].amount > 0 /\ transactions[i].on <= Ordinal(today)
    BY <1>1
  <2>1. transactions[i].amount \in Nat \ {0}
    BY <1>1, EntryFacts
  <2> QED
    BY <2>1 DEF Inv, Ordered
<1>3. \A i \in DOMAIN facilities : facilities[i].used \in Nat
  BY FacilityFacts DEF Inv
<1>4. \A o \in drafts \cup checked : o.amount > 0
  <2> SUFFICES ASSUME NEW o \in drafts \cup checked PROVE o.amount > 0
    OBVIOUS
  <2>1. o.amount \in Nat \ {0}
    BY DEF Inv, Drafted
  <2> QED
    BY <2>1
<1> QED
  BY <1>2, <1>3, <1>4, InvDates DEF Inv, TypeOK

LEMMA InitInv == Init => Inv
<1> SUFFICES ASSUME Init PROVE Inv
  OBVIOUS
<1>1. /\ customer \in Customers /\ today = customer.first /\ goal \in customer.goals
      /\ transactions = <<>> /\ settled = TRUE /\ balance = customer.balance
      /\ rate \in customer.rates /\ facilities = customer.facilities /\ updates = 0
      /\ drafts = {} /\ checked = {}
  BY DEF Init
<1>2. InCalendar(today) /\ Ordinal(today) <= Ordinal(customer.last)
      /\ balance \in Int /\ facilities \in Seq(Facilities)
      /\ (goal = NoGoal \/ Acceptable(goal, customer.first))
  BY <1>1, CustomerFacts
<1>3. Ordered(transactions, today)
  <2>1. transactions \in Seq(Entries) /\ Len(transactions) = 0
    BY <1>1, EmptySeq
  <2> QED
    BY <2>1 DEF Ordered
<1>4. updates \in 0..MaxUpdates
  BY <1>1, ConstantsAssumption
<1> QED
  BY <1>1, <1>2, <1>3, <1>4 DEF Inv

\* What is recorded of a day.
LEMMA RowType ==
    ASSUME NEW d \in Dates, NEW category \in Debits \cup {"SALARY", "TRANSFER"},
           NEW amount \in Nat \ {0}
    PROVE  /\ Row(d, category, amount) \in Entries
           /\ Row(d, category, amount).on = Ordinal(d)
           /\ Row(d, category, amount).period = Period(d)
           /\ Row(d, category, amount).category = category
           /\ Row(d, category, amount).amount = amount
BY OrdinalType, PeriodType DEF Row, Entries

LEMMA RowsFacts ==
    ASSUME NEW d \in Dates, NEW category \in Debits \cup {"SALARY", "TRANSFER"},
           NEW amount \in Nat, NEW happens
    PROVE  LET rows == Rows(d, category, amount, happens)
           IN /\ rows \in Seq(Entries)
              /\ \A i \in 1..Len(rows) : rows[i].on = Ordinal(d) /\ rows[i].period = Period(d)
<1>1. CASE happens /\ amount > 0
  <2>1. PICK r \in Entries : /\ r = Row(d, category, amount)
                             /\ r.on = Ordinal(d) /\ r.period = Period(d)
    BY <1>1, RowType
  <2>2. Rows(d, category, amount, happens) = <<r>>
    BY <1>1, <2>1 DEF Rows
  <2>3. <<r>> \in Seq(Entries) /\ Len(<<r>>) = 1 /\ <<r>>[1] = r
    OBVIOUS
  <2> QED
    BY <2>1, <2>2, <2>3
<1>2. CASE ~(happens /\ amount > 0)
  <2>1. Rows(d, category, amount, happens) = <<>>
    BY <1>2 DEF Rows
  <2>2. <<>> \in Seq(Entries) /\ Len(<<>>) = 0
    BY EmptySeq
  <2> QED
    BY <2>1, <2>2
<1> QED
  BY <1>1, <1>2

Shown(rows, d, category, amount) ==
    /\ rows \in Seq(Entries)
    /\ \A i \in 1..Len(rows) : /\ rows[i].on = Ordinal(d)
                                /\ rows[i].category = category
                                /\ rows[i].amount = amount

LEMMA RowsShown ==
    ASSUME NEW d \in Dates, NEW category \in Debits \cup {"SALARY", "TRANSFER"},
           NEW amount \in Nat, NEW happens
    PROVE  Shown(Rows(d, category, amount, happens), d, category, amount)
<1>1. CASE happens /\ amount > 0
  <2>1. PICK r \in Entries : /\ r = Row(d, category, amount)
                             /\ r.on = Ordinal(d)
                             /\ r.category = category /\ r.amount = amount
    BY <1>1, RowType
  <2>2. Rows(d, category, amount, happens) = <<r>>
    BY <1>1, <2>1 DEF Rows
  <2>3. <<r>> \in Seq(Entries) /\ Len(<<r>>) = 1 /\ <<r>>[1] = r
    OBVIOUS
  <2> QED
    BY <2>1, <2>2, <2>3 DEF Shown
<1>2. CASE ~(happens /\ amount > 0)
  <2>1. Rows(d, category, amount, happens) = <<>>
    BY <1>2 DEF Rows
  <2>2. <<>> \in Seq(Entries) /\ Len(<<>>) = 0
    BY EmptySeq
  <2> QED
    BY <2>1, <2>2 DEF Shown
<1> QED
  BY <1>1, <1>2

LEMMA RowsCount ==
    ASSUME NEW d, NEW category, NEW amount \in Nat
    PROVE  Len(Rows(d, category, amount, TRUE)) = IF amount > 0 THEN 1 ELSE 0
<1>1. CASE amount > 0
  <2>1. Rows(d, category, amount, TRUE) = <<Row(d, category, amount)>>
    BY <1>1 DEF Rows
  <2> QED
    BY <1>1, <2>1
<1>2. CASE ~(amount > 0)
  <2>1. Rows(d, category, amount, TRUE) = <<>>
    BY <1>2 DEF Rows
  <2> QED
    BY <1>2, <2>1
<1> QED
  BY <1>1, <1>2

\* The next day's salary and purchases.
LEMMA NextDayFacts ==
    ASSUME Inv, NextDay
    PROVE  /\ today' = Tomorrow(today) /\ InCalendar(today') /\ today' \in Dates
           /\ Ordinal(today') = Ordinal(today) + 1
           /\ rate' \in customer.rates /\ rate' \in Nat
           /\ balance' \in Int
           /\ customer.rates = {0} => balance' >= balance
           /\ Ordered(transactions', today')
<1> DEFINE d == Tomorrow(today)
           paid == d = OnDay(d, customer.salaryDay)
           shops == d.day % customer.every = 0
           income == IF paid THEN customer.income ELSE 0
<1>1. /\ today' = d
      /\ rate' \in IF d.day = 1 THEN customer.rates ELSE {rate}
      /\ balance' = balance + income - (IF shops THEN rate' ELSE 0)
      /\ transactions' = transactions \o Rows(d, "SALARY", income, paid)
                                      \o Rows(d, "SHOPPING", rate', shops)
  BY DEF NextDay
<1>2. /\ InCalendar(d) /\ d \in Dates /\ Ordinal(d) = Ordinal(today) + 1
      /\ Period(today) <= Period(d) /\ Ordinal(today) \in Int
      /\ today \in Dates
  BY InvFacts, TomorrowFacts, OrdinalType DEF Inv, InCalendar
<1>3. rate' \in customer.rates /\ rate' \in Nat
  BY <1>1, InvFacts DEF Inv
<1>4. income \in Nat
  BY InvFacts
<1>5. balance' \in Int /\ (customer.rates = {0} => balance' >= balance)
  <2>1. balance \in Int
    BY DEF Inv
  <2>2. PICK spent \in Nat : spent = IF shops THEN rate' ELSE 0
    BY <1>3
  <2>3. customer.rates = {0} => spent = 0
    BY <1>3, <2>2
  <2>4. PICK earned \in Nat : earned = income
    BY <1>4
  <2>5. balance' = balance + earned - spent
    BY <1>1, <2>2, <2>4
  <2> QED
    BY <2>1, <2>3, <2>5
<1>6. Ordered(transactions', today')
  <2> DEFINE salary == Rows(d, "SALARY", income, paid)
             purchase == Rows(d, "SHOPPING", rate', shops)
  <2> HIDE DEF income, paid, shops
  <2>1. /\ salary \in Seq(Entries) /\ purchase \in Seq(Entries)
        /\ \A i \in 1..Len(salary) : salary[i].on = Ordinal(d) /\ salary[i].period = Period(d)
        /\ \A i \in 1..Len(purchase) :
              purchase[i].on = Ordinal(d) /\ purchase[i].period = Period(d)
    <3>1. "SALARY" \in Debits \cup {"SALARY", "TRANSFER"}
          /\ "SHOPPING" \in Debits \cup {"SALARY", "TRANSFER"}
      BY DEF Debits
    <3>2. ASSUME NEW category \in Debits \cup {"SALARY", "TRANSFER"}, NEW amount \in Nat,
                 NEW happens, NEW rows, rows = Rows(d, category, amount, happens)
          PROVE  /\ rows \in Seq(Entries)
                 /\ \A i \in 1..Len(rows) : rows[i].on = Ordinal(d) /\ rows[i].period = Period(d)
      BY <1>2, <3>2, RowsFacts
    <3>3. salary = Rows(d, "SALARY", income, paid) /\ purchase = Rows(d, "SHOPPING", rate', shops)
      OBVIOUS
    <3> HIDE DEF d, salary, purchase
    <3>4. /\ salary \in Seq(Entries)
          /\ \A i \in 1..Len(salary) : salary[i].on = Ordinal(d) /\ salary[i].period = Period(d)
      <4>1. income \in Nat
        BY <1>4
      <4>2. salary = Rows(d, "SALARY", income, paid)
        BY <3>3
      <4>3. "SALARY" \in Debits \cup {"SALARY", "TRANSFER"}
        BY <3>1
      <4>4. \A h, rows : rows = Rows(d, "SALARY", income, h) =>
               /\ rows \in Seq(Entries)
               /\ \A i \in 1..Len(rows) :
                     rows[i].on = Ordinal(d) /\ rows[i].period = Period(d)
        BY <4>1, <4>3, <3>2
      <4> QED
        BY ONLY <4>2, <4>4
    <3>5. /\ purchase \in Seq(Entries)
          /\ \A i \in 1..Len(purchase) :
                purchase[i].on = Ordinal(d) /\ purchase[i].period = Period(d)
      BY <1>3, <3>1, <3>2, <3>3
    <3> QED
      BY <3>4, <3>5
  <2>2. transactions' = (transactions \o salary) \o purchase
    BY <1>1
  <2> HIDE DEF salary, purchase, d
  <2>3. Ordered(transactions, today)
    BY DEF Inv
  <2>4. Ordered(transactions \o salary, d)
    <3>1. Ordinal(today) <= Ordinal(d) /\ Period(today) <= Period(d)
      BY <1>2
    <3> QED
      BY <1>2, <2>1, <2>3, <3>1, OrderedGrows
  <2>5. Ordinal(d) <= Ordinal(d) /\ Period(d) <= Period(d)
    BY <1>2, OrdinalType, PeriodType
  <2>6. Ordered((transactions \o salary) \o purchase, d)
    BY <1>2, <2>1, <2>4, <2>5, OrderedGrows
  <2> QED
    BY <1>1, <2>2, <2>6
<1> QED
  BY <1>1, <1>2, <1>3, <1>5, <1>6

LEMMA DueFacts ==
    ASSUME Inv
    PROVE  /\ Due(today) \subseteq DOMAIN customer.events
           /\ IsFiniteSet(Due(today)) /\ Due(today) \subseteq Nat
           /\ Cardinality(Due(today)) \in Nat
           /\ Amount(customer.events, Due(today)) \in Nat
<1>1. Due(today) \subseteq DOMAIN customer.events
  BY DEF Due
<1> QED
  BY <1>1, InvFacts, EventAmounts, FS_CardinalityType

\* The debits of a day.
LEMMA SettleFacts ==
    ASSUME Inv, Settle
    PROVE  /\ balance' = balance - Amount(customer.events, Due(today))
           /\ balance' \in Int
           /\ Ordered(transactions', today)
           /\ \E rows \in Seq(Entries) :
                 /\ transactions' = transactions \o rows
                 /\ \A i \in 1..Len(rows) : \E j \in DOMAIN customer.events :
                       rows[i].category = customer.events[j].category
<1> DEFINE due == Due(today)
           e(i) == customer.events[CHOOSE j \in due : Cardinality({k \in due : k <= j}) = i]
           debited == [i \in 1..Cardinality(due) |-> Row(today, e(i).category, e(i).amount)]
<1>1. /\ balance' = balance - Amount(customer.events, due)
      /\ transactions' = transactions \o debited
  BY DEF Settle
<1>2. /\ due \subseteq DOMAIN customer.events /\ IsFiniteSet(due) /\ due \subseteq Nat
      /\ Cardinality(due) \in Nat /\ Amount(customer.events, due) \in Nat
  BY DueFacts
<1>3. balance' \in Int
  BY <1>1, <1>2 DEF Inv
<1>4. ASSUME NEW i \in 1..Cardinality(due)
      PROVE  /\ e(i).category \in Debits /\ e(i).amount \in Nat \ {0}
             /\ \E j \in DOMAIN customer.events : e(i).category = customer.events[j].category
  <2>1. \E j \in due : Cardinality({k \in due : k <= j}) = i
    <3> HIDE DEF due
    <3> QED
      BY <1>2, Ranks
  <2>2. PICK j \in due : e(i) = customer.events[j]
    BY <2>1
  <2>3. j \in DOMAIN customer.events
    BY <1>2
  <2> QED
    BY <2>2, <2>3, InvFacts, EventFacts
<1> HIDE DEF e
<1>5. today \in Dates
  BY InvFacts
<1>6. \A i \in 1..Cardinality(due) :
         /\ Row(today, e(i).category, e(i).amount) \in Entries
         /\ Row(today, e(i).category, e(i).amount).on = Ordinal(today)
         /\ Row(today, e(i).category, e(i).amount).period = Period(today)
         /\ Row(today, e(i).category, e(i).amount).category = e(i).category
  BY <1>4, <1>5, RowType
<1>7. debited \in Seq(Entries) /\ Len(debited) = Cardinality(due)
  <2>1. debited \in [1..Cardinality(due) -> Entries]
    BY <1>6
  <2> HIDE DEF debited, due
  <2> QED
    BY <1>2, <2>1
<1>8. \A i \in 1..Len(debited) :
         debited[i].on = Ordinal(today) /\ debited[i].period = Period(today)
  BY <1>6, <1>7
<1>r. \A i \in 1..Len(debited) : \E j \in DOMAIN customer.events :
         debited[i].category = customer.events[j].category
  BY <1>4, <1>6, <1>7
<1> HIDE DEF debited, due
<1>9. Ordered(transactions \o debited, today)
  <2>1. Ordinal(today) <= Ordinal(today) /\ Period(today) <= Period(today)
    BY <1>5, OrdinalType, PeriodType
  <2>2. Ordered(transactions, today)
    BY DEF Inv
  <2> QED
    BY <1>5, <1>7, <1>8, <2>1, <2>2, OrderedGrows
<1> QED
  BY <1>1, <1>3, <1>7, <1>r, <1>9 DEF due

-----------------------------------------------------------------------------
(* What is offered *)

LEMMA MissingFacts ==
    ASSUME Inv, Upcoming(today) # {}
    PROVE  /\ First \in Upcoming(today) /\ First \in DOMAIN customer.events
           /\ customer.events[First].amount \in Nat \ {0}
           /\ Missing \in Nat
           /\ Missing # 0 => balance + Missing = customer.events[First].amount
<1>1. /\ First \in Upcoming(today) /\ First \in DOMAIN customer.events
      /\ customer.events[First].amount \in Nat \ {0}
  BY InvFacts, FirstFacts, EventFacts DEF Inv
<1>2. PICK a \in Nat \ {0} : a = customer.events[First].amount
  BY <1>1
<1>3. balance \in Int /\ Missing = Most(a - balance, 0)
  BY <1>2 DEF Inv, Missing
<1>4. Missing \in Nat /\ (Missing # 0 => balance + Missing = a)
  BY <1>3 DEF Most
<1> QED
  BY <1>1, <1>2, <1>4

LEMMA OfferFacts ==
    ASSUME Inv, NEW o \in Offers
    PROVE  /\ Upcoming(today) # {} /\ Missing \in Nat \ {0}
           /\ o.type \in {"OVERDRAFT", "PARTIAL_SAVING_WITHDRAWAL", "SHORT_TERM_LOAN"}
           /\ o.ref \in Sources[o.type] /\ o.amount = Missing
<1>1. Primary = "UPCOMING_RECURRING" /\ Missing # 0
  BY DEF Offers
<1>2. Upcoming(today) # {}
  BY <1>1 DEF Primary
<1>3. Missing \in Nat \ {0}
  BY <1>1, <1>2, MissingFacts
<1>4. DOMAIN Sources = {"OVERDRAFT", "PARTIAL_SAVING_WITHDRAWAL", "SHORT_TERM_LOAN"}
  BY DEF Sources
<1>5. PICK t \in DOMAIN Sources :
         o \in [type : {t}, ref : FirstOf(Sources[t]), amount : {Missing}]
  BY <1>1 DEF Offers
<1>6. o.type = t /\ o.ref \in FirstOf(Sources[t]) /\ o.amount = Missing
  BY <1>5
<1>7. FirstOf(Sources[t]) \subseteq Sources[t]
  BY DEF FirstOf
<1> QED
  BY <1>2, <1>3, <1>4, <1>6, <1>7

LEMMA OverdraftFacts ==
    ASSUME Inv, NEW o \in Offers, o.type = "OVERDRAFT"
    PROVE  /\ o.ref \in DOMAIN facilities /\ o.amount \in Nat \ {0}
           /\ o.amount <= facilities[o.ref].limit - facilities[o.ref].used
<1>1. o.ref \in Sources["OVERDRAFT"] /\ o.amount = Missing /\ Missing \in Nat \ {0}
  BY OfferFacts
<1>2. Sources["OVERDRAFT"] =
        {i \in DOMAIN facilities : facilities[i].limit - facilities[i].used >= Missing}
  BY DEF Sources
<1>3. o.ref \in DOMAIN facilities
      /\ facilities[o.ref].limit - facilities[o.ref].used >= Missing
  BY <1>1, <1>2
<1>4. facilities[o.ref].limit \in Nat /\ facilities[o.ref].used \in Nat
  BY <1>3, FacilityFacts DEF Inv
<1> QED
  BY <1>1, <1>3, <1>4

\* Drawing keeps a facility within its limit.
LEMMA DrawnFacility ==
    ASSUME facilities \in Seq(Facilities), NEW i \in DOMAIN facilities, NEW n \in Nat,
           n <= facilities[i].limit - facilities[i].used
    PROVE  [facilities EXCEPT ![i].used = @ + n] \in Seq(Facilities)
<1>1. PICK f \in Facilities : f = facilities[i]
  BY FacilityFacts
<1>2. /\ f.limit \in Nat /\ f.used \in Nat /\ f.expires \in Dates
      /\ f.used + n <= f.limit
  BY <1>1 DEF Facilities
<1>r. f \in [limit : Nat, used : Nat, expires : Dates]
  BY DEF Facilities
<1>3. PICK g : g = [f EXCEPT !.used = @ + n]
  OBVIOUS
<1>u. PICK u \in Nat : u = f.used + n
  BY <1>2
<1>g. g = [f EXCEPT !.used = u]
  BY <1>3, <1>u
<1>4. g \in [limit : Nat, used : Nat, expires : Dates]
      /\ g.limit = f.limit /\ g.used = u
  BY <1>r, <1>g
<1>5. g \in Facilities
  BY <1>2, <1>u, <1>4 DEF Facilities
<1>6. [facilities EXCEPT ![i].used = @ + n] = [facilities EXCEPT ![i] = g]
  BY <1>1, <1>3
<1>7. [facilities EXCEPT ![i] = g] \in Seq(Facilities)
  <2>1. i \in 1..Len(facilities)
    BY LenProperties
  <2> QED
    BY <1>5, <2>1, ExceptSeq
<1> QED
  BY <1>6, <1>7

\* Every option passes the check of the tool that prepares it.
LEMMA OfferAvailable ==
    ASSUME Inv, NEW o \in Offers
    PROVE  /\ Available(o)
           /\ o.type = "OVERDRAFT" /\ ~Expired(facilities[o.ref]) => Drawable(o)
<1>1. /\ o.type \in {"OVERDRAFT", "PARTIAL_SAVING_WITHDRAWAL", "SHORT_TERM_LOAN"}
      /\ o.ref \in Sources[o.type] /\ o.amount = Missing
  BY OfferFacts
<1>2. CASE o.type = "OVERDRAFT"
  <2>1. o.amount <= facilities[o.ref].limit - facilities[o.ref].used
    BY <1>2, OverdraftFacts
  <2> QED
    BY <1>2, <2>1 DEF Available, Drawable
<1>3. CASE o.type = "PARTIAL_SAVING_WITHDRAWAL"
  <2>1. customer.deposits[o.ref].partial /\ customer.deposits[o.ref].available >= Missing
    BY <1>1, <1>3 DEF Sources
  <2>2. Available(o) <=> /\ customer.deposits[o.ref].partial
                         /\ o.amount <= customer.deposits[o.ref].available
    BY <1>3 DEF Available
  <2> QED
    BY <1>1, <1>3, <2>1, <2>2
<1>4. CASE o.type = "SHORT_TERM_LOAN"
  <2>1. customer.loans[o.ref].eligible /\ customer.loans[o.ref].limit >= Missing
    BY <1>1, <1>4 DEF Sources
  <2>2. Available(o) <=> /\ customer.loans[o.ref].eligible
                         /\ o.amount <= customer.loans[o.ref].limit
    BY <1>4 DEF Available
  <2> QED
    BY <1>1, <1>4, <2>1, <2>2
<1> QED
  BY <1>1, <1>2, <1>3, <1>4

\* A draft stays what it is as long as the limits do.
LEMMA DraftedKept ==
    ASSUME NEW o, Drafted(o), customer' = customer, DOMAIN facilities' = DOMAIN facilities,
           \A i \in DOMAIN facilities : facilities'[i].limit = facilities[i].limit
    PROVE  Drafted(o)'
<1>1. o.type # "OVERDRAFT" => (Available(o)' <=> Available(o))
  BY DEF Drafted, Kinds, Available
<1> QED
  BY <1>1 DEF Drafted

\* What is selected of what a scan offers, to make up what is missing for the
\* next event.
LEMMA ChooseFacts ==
    ASSUME Inv, Choose
    PROVE  /\ Upcoming(today) # {}
           /\ \E o : /\ drafts' = drafts \cup {o} /\ Drafted(o)
                    /\ o.due = Ordinal(NextOccurrence(today, customer.events[First].day))
                    /\ balance + o.amount = customer.events[First].amount
           /\ updates' \in 0..MaxUpdates
           /\ UNCHANGED <<customer, today, settled, balance, transactions, rate, facilities,
                          goal, checked, promised, assured, funded>>
<1> DEFINE due == Ordinal(NextOccurrence(today, customer.events[First].day))
<1>1. PICK o \in Offers :
         drafts' = drafts \cup
             {[id |-> updates + 1, type |-> o.type, ref |-> o.ref, amount |-> o.amount,
               due |-> due,
               seen |-> IF o.type = "OVERDRAFT" THEN facilities[o.ref].used ELSE 0]}
  BY DEF Choose
<1>2. Upcoming(today) # {} /\ Missing \in Nat \ {0} /\ o.amount = Missing /\ o.type \in Kinds
  BY OfferFacts DEF Kinds
<1>3. balance + o.amount = customer.events[First].amount
  BY <1>2, MissingFacts
<1>4. due \in Int
  <2>1. First \in DOMAIN customer.events /\ customer.events \in Seq(Events)
        /\ today \in Dates /\ InCalendar(today)
    BY <1>2, MissingFacts, InvFacts DEF Inv
  <2> QED
    BY <2>1, OccurrenceType
<1> HIDE DEF due
<1>5. PICK d : d = [id |-> updates + 1, type |-> o.type, ref |-> o.ref, amount |-> o.amount,
                    due |-> due,
                    seen |-> IF o.type = "OVERDRAFT" THEN facilities[o.ref].used ELSE 0]
  OBVIOUS
<1>6. /\ d.type = o.type /\ d.ref = o.ref /\ d.amount = o.amount /\ d.due = due
      /\ d.seen = IF o.type = "OVERDRAFT" THEN facilities[o.ref].used ELSE 0
  BY <1>5
<1>7. o.type = "OVERDRAFT" => /\ d.ref \in DOMAIN facilities /\ d.seen \in Nat
                              /\ d.seen + d.amount <= facilities[d.ref].limit
  <2> SUFFICES ASSUME o.type = "OVERDRAFT"
               PROVE  /\ d.ref \in DOMAIN facilities /\ d.seen \in Nat
                      /\ d.seen + d.amount <= facilities[d.ref].limit
    OBVIOUS
  <2>1. o.ref \in DOMAIN facilities /\ o.amount \in Nat \ {0}
        /\ o.amount <= facilities[o.ref].limit - facilities[o.ref].used
    BY OverdraftFacts
  <2>2. facilities[o.ref].limit \in Nat /\ facilities[o.ref].used \in Nat
    BY <2>1, FacilityFacts DEF Inv
  <2> QED
    BY <1>6, <2>1, <2>2
<1>8. o.type # "OVERDRAFT" => Available(d)
  BY <1>2, <1>6, OfferAvailable DEF Available, Kinds
<1>9. Drafted(d)
  BY <1>2, <1>4, <1>6, <1>7, <1>8 DEF Drafted
<1>10. updates' \in 0..MaxUpdates
  BY InvFacts DEF Inv, Choose
<1>11. UNCHANGED <<customer, today, settled, balance, transactions, rate, facilities,
                   goal, checked, promised, assured, funded>>
  BY DEF Choose
<1> QED
  BY <1>1, <1>2, <1>3, <1>5, <1>6, <1>9, <1>10, <1>11 DEF due

\* Core Banking checks the limit again, whatever was drawn since the offer.
LEMMA DrawFacts ==
    ASSUME Inv, NEW o \in checked, Draw(o)
    PROVE  /\ o.amount \in Nat \ {0} /\ o.due \in Int
           /\ balance' = balance + o.amount
           /\ balance' \in Int /\ balance' > balance
           /\ facilities' \in Seq(Facilities) /\ DOMAIN facilities' = DOMAIN facilities
           /\ \A i \in DOMAIN facilities : facilities'[i].limit = facilities[i].limit
           /\ Ordered(transactions', today)
<1>1. /\ o.type = "OVERDRAFT"
      /\ facilities' = [facilities EXCEPT ![o.ref].used = @ + o.amount]
      /\ balance' = balance + o.amount
      /\ transactions' = Append(transactions, Row(today, "TRANSFER", o.amount))
  BY DEF Draw, Inv
<1>2. o.amount \in Nat \ {0} /\ o.due \in Int /\ o.ref \in DOMAIN facilities
      /\ o.amount <= facilities[o.ref].limit - facilities[o.ref].used
  BY <1>1 DEF Inv, Drafted, Draw, Drawable
<1>3. balance' \in Int /\ balance' > balance
  BY <1>1, <1>2 DEF Inv
<1>4. facilities \in Seq(Facilities)
  BY DEF Inv
<1>5. facilities' \in Seq(Facilities)
  BY <1>1, <1>2, <1>4, DrawnFacility
<1>6. /\ DOMAIN facilities' = DOMAIN facilities
      /\ \A i \in DOMAIN facilities : facilities'[i].limit = facilities[i].limit
  <2>1. PICK f \in Facilities : f = facilities[o.ref]
    BY <1>2, <1>4, FacilityFacts
  <2>2. f \in [limit : Nat, used : Nat, expires : Dates]
    BY DEF Facilities
  <2>3. PICK g : g = [f EXCEPT !.used = @ + o.amount]
    OBVIOUS
  <2>4. g.limit = f.limit
    BY <2>2, <2>3
  <2>5. facilities' = [facilities EXCEPT ![o.ref] = g]
    BY <1>1, <2>1, <2>3
  <2> QED
    BY <1>2, <2>1, <2>4, <2>5
<1>7. Ordered(transactions', today)
  <2>1. today \in Dates /\ "TRANSFER" \in Debits \cup {"SALARY", "TRANSFER"}
    BY InvFacts
  <2>2. PICK r \in Entries : /\ r = Row(today, "TRANSFER", o.amount)
                             /\ r.on = Ordinal(today) /\ r.period = Period(today)
    BY <1>2, <2>1, RowType
  <2>3. <<r>> \in Seq(Entries) /\ Len(<<r>>) = 1 /\ <<r>>[1] = r
    OBVIOUS
  <2>4. transactions' = transactions \o <<r>>
    <3>1. transactions' = Append(transactions, r)
      BY <1>1, <2>2
    <3> QED
      BY <3>1, InvFacts, AppendIsConcat
  <2>5. \A i \in 1..Len(<<r>>) : <<r>>[i].on = Ordinal(today) /\ <<r>>[i].period = Period(today)
    BY <2>2, <2>3
  <2>6. Ordinal(today) <= Ordinal(today) /\ Period(today) <= Period(today)
    BY <2>1, OrdinalType, PeriodType
  <2>7. Ordered(transactions, today)
    BY DEF Inv
  <2>8. PICK rows \in Seq(Entries) : rows = <<r>>
    BY <2>3
  <2> QED
    BY <2>1, <2>4, <2>5, <2>6, <2>7, <2>8, OrderedGrows
<1> QED
  BY <1>1, <1>2, <1>3, <1>5, <1>6, <1>7

\* A check and a refusal move drafts only.
LEMMA SettledDraft ==
    ASSUME \/ \E o \in drafts : Check(o)
           \/ \E o \in checked : RefuseDraw(o)
    PROVE  /\ drafts' \subseteq drafts /\ checked' \subseteq drafts \cup checked
           /\ \A o \in checked' \ checked : o.type = "OVERDRAFT"
           /\ UNCHANGED <<customer, today, settled, balance, transactions, rate, facilities,
                          goal, updates, promised, assured, funded>>
BY DEF Check, RefuseDraw

-----------------------------------------------------------------------------
(* What is written of the goal *)

LEMMA IncreasedGoal ==
    ASSUME Inv
    PROVE  Required(goal, today) \in Nat
<1>1. MonthsBetween(today, goal.due) \in Nat \ {0} /\ Remaining(goal) \in Nat
  BY InvFacts, MonthsBetweenType, RemainingType DEF Goals
<1> QED
  BY <1>1, RoundedFacts DEF Required

LEMMA ExtendedGoal ==
    ASSUME Inv, Drifting(goal, today), goal.monthly > 0
    PROVE  LET months == ExtensionMonths(goal)
           IN /\ ExtendedDate(goal, today) \in Dates
              /\ InCalendar(ExtendedDate(goal, today))
              /\ MonthsBetween(today, ExtendedDate(goal, today)) = months
              /\ months * goal.monthly >= Remaining(goal)
              /\ (months - 1) * goal.monthly < Remaining(goal)
<1>1. Remaining(goal) \in Nat \ {0}
  BY InvFacts, DriftingRemains
<1>2. goal.monthly \in Nat \ {0}
  BY InvFacts DEF Goals
<1>3. /\ ExtensionMonths(goal) \in Nat \ {0}
      /\ ExtensionMonths(goal) * goal.monthly >= Remaining(goal)
      /\ (ExtensionMonths(goal) - 1) * goal.monthly < Remaining(goal)
  BY <1>1, <1>2, CeilingFacts DEF ExtensionMonths
<1> QED
  BY <1>3, InvFacts, MonthsAdded DEF ExtendedDate

\* What update_goal writes is a goal that create_goal would accept.
LEMMA UpdateFacts ==
    ASSUME Inv, NEW g \in Goals, Representable(g.due), Update(g)
    PROVE  /\ Acceptable(goal', customer.first) /\ updates' \in 0..MaxUpdates
           /\ UNCHANGED <<customer, today, settled, balance, transactions, rate,
                          facilities, drafts, checked, promised, assured, funded>>
           /\ goal' = g
<1>1. /\ g.monthly > 0 /\ Ordinal(g.due) > Ordinal(customer.first)
      /\ g.current <= g.target /\ goal' = g
      /\ updates < MaxUpdates /\ updates' = updates + 1
      /\ UNCHANGED <<customer, today, settled, balance, transactions, rate,
                     facilities, drafts, checked, promised, assured, funded>>
  BY DEF Update
<1>2. updates' \in 0..MaxUpdates
  BY <1>1, InvFacts DEF Inv
<1> QED
  BY <1>1, <1>2 DEF Acceptable

LEMMA SaveFacts ==
    ASSUME Inv, Save
    PROVE  \E g \in Goals : Representable(g.due) /\ Update(g)
<1>1. goal # NoGoal /\ goal \in Goals
  BY InvFacts DEF Save, Update
<1>2. Representable(goal.due) /\ goal.current \in Nat /\ goal.monthly \in Nat
  BY <1>1 DEF Inv, Acceptable, Goals
<1>3. PICK n \in Nat : n = goal.current + goal.monthly
  BY <1>2
<1>4. PICK g : g = [goal EXCEPT !.current = n]
  OBVIOUS
<1>5. g \in Goals /\ g.due = goal.due
  BY <1>1, <1>4 DEF Goals
<1>6. g = [goal EXCEPT !.current = @ + goal.monthly]
  BY <1>1, <1>3, <1>4 DEF Goals
<1> QED
  BY <1>2, <1>5, <1>6 DEF Save

LEMMA IncreaseFacts ==
    ASSUME Inv, AcceptIncrease
    PROVE  \E g \in Goals : Representable(g.due) /\ Update(g)
<1>1. goal # NoGoal /\ goal \in Goals
  BY InvFacts DEF AcceptIncrease, Update
<1>2. Representable(goal.due)
  BY <1>1 DEF Inv, Acceptable
<1>3. PICK n \in Nat : n = Required(goal, today)
  BY IncreasedGoal
<1>4. PICK g : g = [goal EXCEPT !.monthly = n]
  OBVIOUS
<1>5. g \in Goals /\ g.due = goal.due
  BY <1>1, <1>4 DEF Goals
<1> QED
  BY <1>2, <1>3, <1>4, <1>5 DEF AcceptIncrease

LEMMA ExtendFacts ==
    ASSUME Inv, AcceptExtend
    PROVE  \E g \in Goals : Representable(g.due) /\ Update(g)
<1>1. goal # NoGoal /\ goal \in Goals
  BY InvFacts DEF AcceptExtend, Update
<1>2. PICK d \in Dates : d = ExtendedDate(goal, today) /\ Representable(d)
  BY PrimaryDrift DEF AcceptExtend, Simulated, Representable, InCalendar
<1>3. PICK g : g = [goal EXCEPT !.due = d]
  OBVIOUS
<1>4. g \in Goals /\ g.due = d
  BY <1>1, <1>3 DEF Goals
<1> QED
  BY <1>2, <1>3, <1>4 DEF AcceptExtend

LEMMA UpdateInv ==
    ASSUME Inv, NEW g \in Goals, Representable(g.due), Update(g)
    PROVE  Inv'
<1>1. /\ Acceptable(goal', customer.first) /\ updates' \in 0..MaxUpdates
      /\ customer' = customer /\ today' = today /\ settled' = settled
      /\ balance' = balance /\ transactions' = transactions /\ rate' = rate
      /\ facilities' = facilities /\ drafts' = drafts /\ checked' = checked
  BY UpdateFacts
<1>2. \A o \in drafts \cup checked : Drafted(o)'
  BY <1>1, DraftedKept DEF Inv
<1> QED
  BY <1>1, <1>2 DEF Inv

LEMMA InvStep == Inv /\ [Next]_vars => Inv'
<1> SUFFICES ASSUME Inv, [Next]_vars PROVE Inv'
  OBVIOUS
<1>d. ASSUME customer' = customer, DOMAIN facilities' = DOMAIN facilities,
             \A i \in DOMAIN facilities : facilities'[i].limit = facilities[i].limit
      PROVE  \A o \in drafts \cup checked : Drafted(o)'
  BY <1>d, DraftedKept DEF Inv
<1>1. CASE UNCHANGED vars
  <2>1. \A o \in drafts \cup checked : Drafted(o)'
    BY <1>1, <1>d DEF vars
  <2> QED
    BY <1>1, <2>1 DEF vars, Inv
<1>2. CASE NextDay
  <2>1. /\ customer' = customer /\ settled' = FALSE /\ facilities' = facilities
        /\ goal' = goal /\ drafts' = drafts /\ checked' = checked /\ updates' = updates
        /\ Ordinal(today) < Ordinal(customer.last)
    BY <1>2 DEF NextDay
  <2>2. /\ InCalendar(today') /\ rate' \in customer.rates /\ balance' \in Int
        /\ Ordered(transactions', today') /\ Ordinal(today') = Ordinal(today) + 1
    BY <1>2, NextDayFacts
  <2>3. Ordinal(today') <= Ordinal(customer.last)
    <3>1. Ordinal(today) \in Int /\ Ordinal(customer.last) \in Int
      BY InvFacts, CustomerFacts, OrdinalType DEF Inv
    <3> QED
      BY <2>1, <2>2, <3>1
  <2>4. \A o \in drafts \cup checked : Drafted(o)'
    BY <1>d, <2>1
  <2> QED
    BY <2>1, <2>2, <2>3, <2>4 DEF Inv
<1>3. CASE Settle
  <2>1. /\ customer' = customer /\ today' = today /\ settled' = TRUE /\ rate' = rate
        /\ facilities' = facilities /\ goal' = goal /\ drafts' = drafts
        /\ checked' = checked /\ updates' = updates
    BY <1>3 DEF Settle
  <2>2. balance' \in Int /\ Ordered(transactions', today)
    BY <1>3, SettleFacts
  <2>3. \A o \in drafts \cup checked : Drafted(o)'
    BY <1>d, <2>1
  <2> QED
    BY <2>1, <2>2, <2>3 DEF Inv
<1>4. CASE Choose
  <2>1. /\ customer' = customer /\ today' = today /\ settled' = settled /\ rate' = rate
        /\ balance' = balance /\ transactions' = transactions /\ facilities' = facilities
        /\ goal' = goal /\ checked' = checked /\ updates' \in 0..MaxUpdates
    BY <1>4, ChooseFacts
  <2>2. PICK d : drafts' = drafts \cup {d} /\ Drafted(d)
    BY <1>4, ChooseFacts
  <2>3. Drafted(d)' /\ \A o \in drafts \cup checked : Drafted(o)'
    BY <1>d, <2>1, <2>2, DraftedKept
  <2> QED
    BY <2>1, <2>2, <2>3 DEF Inv
<1>5. ASSUME NEW o \in checked, Draw(o) PROVE Inv'
  <2>1. /\ customer' = customer /\ today' = today /\ settled' = settled /\ rate' = rate
        /\ goal' = goal /\ updates' = updates /\ drafts' = drafts
        /\ checked' \subseteq checked
    BY <1>5 DEF Draw
  <2>2. balance' \in Int /\ facilities' \in Seq(Facilities) /\ Ordered(transactions', today)
    BY <1>5, DrawFacts
  <2>3. \A x \in drafts \cup checked : Drafted(x)'
    BY <1>5, <1>d, <2>1, DrawFacts
  <2> QED
    BY <2>1, <2>2, <2>3 DEF Inv
<1>6. CASE \/ \E o \in drafts : Check(o)
           \/ \E o \in checked : RefuseDraw(o)
  <2>1. /\ drafts' \subseteq drafts /\ checked' \subseteq drafts \cup checked
        /\ \A o \in checked' \ checked : o.type = "OVERDRAFT"
        /\ customer' = customer /\ today' = today /\ settled' = settled /\ rate' = rate
        /\ balance' = balance /\ transactions' = transactions /\ facilities' = facilities
        /\ goal' = goal /\ updates' = updates
    BY <1>6, SettledDraft
  <2>2. \A o \in drafts \cup checked : Drafted(o)'
    BY <1>d, <2>1
  <2> QED
    BY <2>1, <2>2 DEF Inv
<1>7. CASE Save
  BY <1>7, SaveFacts, UpdateInv
<1>8. CASE AcceptIncrease
  BY <1>8, IncreaseFacts, UpdateInv
<1>9. CASE AcceptExtend
  BY <1>9, ExtendFacts, UpdateInv
<1> QED
  BY <1>1, <1>2, <1>3, <1>4, <1>5, <1>6, <1>7, <1>8, <1>9 DEF Next

-----------------------------------------------------------------------------

\* Every date that a scan computes is one that Python has, whatever the lengths
\* of the months it adds and counts, for customers who are looked at before the
\* last year; the goal stays one that create_goal would accept, also when its
\* deadline is extended, which is not offered beyond the last year.
THEOREM DatesAndAmountsStay == Spec => []TypeOK
<1>1. Init => Inv
  BY InitInv
<1>2. Inv /\ [Next]_vars => Inv'
  BY InvStep
<1>3. Inv => TypeOK
  BY InvTypes
<1> QED
  BY <1>1, <1>2, <1>3, PTL DEF Spec

LEMMA InvAnomalies == Inv => AnomaliesAreReal
<1>1. (ReachesBack => \A c \in Debits \ {"RENT"} :
                        c \in Anomalies(today) <=> Rises(transactions, c, today))
      => AnomaliesAreReal
  BY DEF AnomaliesAreReal, Rises
<1> SUFFICES ASSUME Inv, ReachesBack, NEW c \in Debits \ {"RENT"}
             PROVE  c \in Anomalies(today) <=> Rises(transactions, c, today)
  BY <1>1
<1>2. today \in Dates /\ Ordered(transactions, today)
  BY InvFacts DEF Inv
<1>3. LET dropped == Len(transactions) - ContextLimit
      IN dropped <= 0 \/ transactions[dropped].period < Period(today) - BaselineMonths
  BY DEF ReachesBack
<1>4. c \in Anomalies(today) <=> Anomalous(Context(transactions), c, today)
  BY DEF Anomalies
<1> QED
  BY <1>2, <1>3, <1>4, AnomaliesInContext

\* Whatever the habits, the months of the baseline and the limit of the
\* context: as long as the context reaches back, the categories that
\* detect_spending_anomaly reports are those whose spending rose by a fifth.
THEOREM AnomaliesRise == Spec => []AnomaliesAreReal
<1>1. Init => Inv
  BY InitInv
<1>2. Inv /\ [Next]_vars => Inv'
  BY InvStep
<1>3. Inv => AnomaliesAreReal
  BY InvAnomalies
<1> QED
  BY <1>1, <1>2, <1>3, PTL DEF Spec

-----------------------------------------------------------------------------
(* The days that events are due *)

DueAt(events, n) ==
    {i \in DOMAIN events : \E d \in Dates :
        InCalendar(d) /\ Ordinal(d) = n /\ DueOn(d, events[i].day)}

DueBetween(events, from, until) ==
    {i \in DOMAIN events : \E n \in from..until : i \in DueAt(events, n)}

LEMMA DueIsDueAt ==
    ASSUME NEW d \in Dates, InCalendar(d)
    PROVE  Due(d) = DueAt(customer.events, Ordinal(d))
<1>1. ASSUME NEW i \in DOMAIN customer.events
      PROVE  i \in Due(d) <=> i \in DueAt(customer.events, Ordinal(d))
  <2>1. i \in Due(d) <=> DueOn(d, customer.events[i].day)
    BY DEF Due, DueOn
  <2>2. \A e \in Dates : InCalendar(e) /\ Ordinal(e) = Ordinal(d) => e = d
    BY OrdinalInjective
  <2>3. i \in DueAt(customer.events, Ordinal(d)) <=> DueOn(d, customer.events[i].day)
    BY <2>2 DEF DueAt
  <2> QED
    BY <2>1, <2>3
<1>2. /\ Due(d) \subseteq DOMAIN customer.events
      /\ DueAt(customer.events, Ordinal(d)) \subseteq DOMAIN customer.events
  BY DEF Due, DueAt
<1> QED
  BY <1>1, <1>2

LEMMA NextIsDue ==
    ASSUME NEW events \in Seq(Events), NEW i \in DOMAIN events, NEW d \in Dates, InCalendar(d)
    PROVE  LET n == Ordinal(NextOccurrence(d, events[i].day))
           IN /\ n \in Int /\ n >= Ordinal(d) /\ i \in DueAt(events, n)
              /\ \A m \in Int : m >= Ordinal(d) /\ i \in DueAt(events, m) => n <= m
<1>1. PICK day \in 1..31 : day = events[i].day
  BY EventFacts
<1>2. PICK e \in Dates :
         /\ e = NextOccurrence(d, day) /\ InCalendar(e) /\ DueOn(e, day)
         /\ Ordinal(e) >= Ordinal(d)
         /\ \A f \in Dates : InCalendar(f) /\ DueOn(f, day) /\ Ordinal(d) <= Ordinal(f)
                             => Ordinal(e) <= Ordinal(f)
  BY NextOccurrenceFacts
<1>3. Ordinal(e) \in Int /\ Ordinal(d) \in Int
  BY OrdinalType
<1>4. i \in DueAt(events, Ordinal(e))
  BY <1>1, <1>2 DEF DueAt
<1>5. ASSUME NEW m \in Int, m >= Ordinal(d), i \in DueAt(events, m) PROVE Ordinal(e) <= m
  <2>1. PICK f \in Dates : InCalendar(f) /\ Ordinal(f) = m /\ DueOn(f, day)
    BY <1>1, <1>5 DEF DueAt
  <2>2. Ordinal(d) <= Ordinal(f)
    BY <1>3, <1>5, <2>1
  <2> QED
    BY <1>2, <2>1, <2>2
<1> QED
  BY <1>1, <1>2, <1>3, <1>4, <1>5

LEMMA DueApart ==
    ASSUME NEW events \in Seq(Events), NEW i \in DOMAIN events, NEW n \in Int, NEW m \in Int,
           i \in DueAt(events, n), i \in DueAt(events, m), n < m
    PROVE  m >= n + 28
<1>1. PICK day \in 1..31 : day = events[i].day
  BY EventFacts
<1>2. PICK d \in Dates : InCalendar(d) /\ Ordinal(d) = n /\ DueOn(d, day)
  BY <1>1 DEF DueAt
<1>3. PICK e \in Dates : InCalendar(e) /\ Ordinal(e) = m /\ DueOn(e, day)
  BY <1>1 DEF DueAt
<1> QED
  BY <1>2, <1>3, FourWeeksApart

LEMMA AmountParts ==
    ASSUME NEW events \in Seq(Events), NEW S \in SUBSET DOMAIN events, NEW A \in SUBSET S
    PROVE  /\ Amount(events, S) \in Nat /\ Amount(events, A) \in Nat
           /\ Amount(events, S \ A) \in Nat
           /\ Amount(events, S) = Amount(events, A) + Amount(events, S \ A)
           /\ Amount(events, A) <= Amount(events, S)
<1>1. A \in SUBSET DOMAIN events /\ S \ A \in SUBSET DOMAIN events
  OBVIOUS
<1>2. /\ IsFiniteSet(S) /\ \A i \in S : Amounts(events)[i] \in Nat \ {0}
      /\ Amount(events, S) = Total(Amounts(events), S) /\ Amount(events, S) \in Nat
  BY EventAmounts
<1>3. Amount(events, A) = Total(Amounts(events), A) /\ Amount(events, A) \in Nat
  BY <1>1, EventAmounts
<1>4. Amount(events, S \ A) = Total(Amounts(events), S \ A) /\ Amount(events, S \ A) \in Nat
  BY <1>1, EventAmounts
<1>5. \A i \in S : Amounts(events)[i] \in Int
  BY <1>2
<1>6. Total(Amounts(events), S) = Total(Amounts(events), A) + Total(Amounts(events), S \ A)
  BY <1>2, <1>5, TotalParts
<1>7. Amount(events, S) = Amount(events, A) + Amount(events, S \ A)
  BY <1>2, <1>3, <1>4, <1>6
<1> QED
  BY <1>2, <1>3, <1>4, <1>7

LEMMA AmountNone ==
    ASSUME NEW events \in Seq(Events)
    PROVE  Amount(events, {}) = 0
<1>1. Amount(events, {}) = Total(Amounts(events), {})
  BY EventAmounts
<1> QED
  BY <1>1, TotalEmpty

LEMMA AmountOne ==
    ASSUME NEW events \in Seq(Events), NEW i \in DOMAIN events
    PROVE  Amount(events, {i}) = events[i].amount
<1>1. {i} \in SUBSET DOMAIN events
  OBVIOUS
<1>2. Amount(events, {i}) = Total(Amounts(events), {i})
      /\ Amounts(events)[i] = events[i].amount /\ Amounts(events)[i] \in Nat \ {0}
  BY <1>1, EventAmounts
<1>3. Total(Amounts(events), {i}) = Amounts(events)[i]
  <2>1. PICK v : v = Amounts(events)
    OBVIOUS
  <2>2. v[i] \in Int
    BY <1>2, <2>1
  <2>3. Total(v, {i}) = v[i]
    BY <2>2, TotalSingle
  <2> QED
    BY <2>1, <2>3
<1> QED
  BY <1>2, <1>3

\* Python's calendar begins on day 1.
LEMMA OrdinalPositive == ASSUME NEW d \in Dates PROVE Ordinal(d) \in Nat \ {0}
<1>1. d.year - 1 \in Nat /\ d.month \in 1..12 /\ d.day \in 1..31
  BY DEF Dates
<1>2. DaysBefore[d.month] \in Nat
  BY <1>1 DEF DaysBefore
<1>3. PICK past \in Nat : past = d.year - 1
  BY <1>1
<1>4. /\ past \div 4 \in Nat /\ past \div 100 \in Nat /\ past \div 400 \in Nat
      /\ past \div 100 <= past \div 4
  OBVIOUS
<1>5. PICK leap \in Nat : leap = IF d.month > 2 /\ Leap(d.year) THEN 1 ELSE 0
  OBVIOUS
<1>6. Ordinal(d) = 365 * past + past \div 4 - past \div 100 + past \div 400
                   + DaysBefore[d.month] + leap + d.day
  BY <1>3, <1>5 DEF Ordinal
<1> QED
  BY <1>1, <1>2, <1>4, <1>5, <1>6

\* The first day whose events have not been debited.
From == IF settled THEN Ordinal(today) + 1 ELSE Ordinal(today)

\* What the liquidity analysis reckons with is what is due before the salary.
LEMMA AssuranceFacts ==
    ASSUME customer \in Customers, NEW d \in Dates, InCalendar(d), NEW funds \in Int,
           assured \in Int, assured <= Ordinal(d) + Horizon
    PROVE  LET a == Assurance(d, funds)
           IN /\ a \in Int /\ a <= Ordinal(d) + Horizon
              /\ a = assured
                 \/ funds >= Amount(customer.events, DueBetween(customer.events, Ordinal(d), a))
<1> DEFINE events == customer.events
           salary == NextSalaryDate(d, customer.salaryDay)
           last == Least(Ordinal(salary) - 1, Ordinal(d) + Horizon)
           due(i) == Ordinal(NextOccurrence(d, events[i].day))
<1>1. events \in Seq(Events) /\ customer.salaryDay \in 1..31 /\ Horizon \in Nat
  BY CustomerFacts, ConstantsAssumption
<1>2. salary \in Dates /\ Ordinal(salary) \in Int /\ Ordinal(d) \in Int
  <2>1. OnDay(d, customer.salaryDay) \in Dates
    BY <1>1, OnDayFacts
  <2>2. OnDay(NextMonth(d), customer.salaryDay) \in Dates
    BY <1>1, OnDayFacts, NextMonthFacts
  <2>3. salary \in Dates
    BY <2>1, <2>2 DEF NextSalaryDate
  <2> QED
    BY <2>3, OrdinalType
<1>3. BeforeIncome(d) = DueBetween(events, Ordinal(d), last)
  <2>1. ASSUME NEW i \in DOMAIN events
        PROVE  i \in BeforeIncome(d) <=> i \in DueBetween(events, Ordinal(d), last)
    <3>1. PICK n \in Int :
             /\ n = due(i) /\ n >= Ordinal(d) /\ i \in DueAt(events, n)
             /\ \A m \in Int : m >= Ordinal(d) /\ i \in DueAt(events, m) => n <= m
      BY <1>1, NextIsDue
    <3>2. i \in BeforeIncome(d) <=> n - Ordinal(d) <= Horizon /\ n < Ordinal(salary)
      BY <3>1 DEF BeforeIncome, Upcoming, Days
    <3>3. PICK s \in Int, o \in Int, l \in Int : s = Ordinal(salary) /\ o = Ordinal(d) /\ l = last
      BY <1>1, <1>2 DEF Least
    <3>4. l = IF s - 1 <= o + Horizon THEN s - 1 ELSE o + Horizon
      BY <3>3 DEF Least
    <3>5. i \in BeforeIncome(d) <=> n <= l
      BY <1>1, <3>2, <3>3, <3>4
    <3>6. i \in DueBetween(events, Ordinal(d), last) <=> \E m \in o..l : i \in DueAt(events, m)
      BY <3>3 DEF DueBetween
    <3> HIDE DEF due, last, salary, events
    <3> QED
      BY <3>1, <3>3, <3>5, <3>6
  <2>2. BeforeIncome(d) \subseteq DOMAIN events
    BY DEF BeforeIncome, Upcoming
  <2>3. DueBetween(events, Ordinal(d), last) \subseteq DOMAIN events
    BY DEF DueBetween
  <2> HIDE DEF events, last
  <2> QED
    BY <2>1, <2>2, <2>3
<1>4. last \in Int /\ last <= Ordinal(d) + Horizon
  BY <1>1, <1>2 DEF Least
<1>5. CASE LiquidityGap(d, funds) > 0
  <2>1. Assurance(d, funds) = assured
    BY <1>5 DEF Assurance
  <2> QED
    BY <2>1
<1>6. CASE ~(LiquidityGap(d, funds) > 0)
  <2>1. Assurance(d, funds) = Most(assured, last)
    BY <1>6 DEF Assurance
  <2>2. Amount(events, BeforeIncome(d)) \in Nat
    <3>1. BeforeIncome(d) \in SUBSET DOMAIN events
      BY DEF BeforeIncome, Upcoming
    <3> QED
      BY <1>1, <3>1, EventAmounts
  <2>3. funds >= Amount(events, BeforeIncome(d))
    <3>1. PICK x \in Nat : x = Amount(events, BeforeIncome(d))
      BY <2>2
    <3>2. LiquidityGap(d, funds) = Most(x - funds, 0)
      BY <3>1 DEF LiquidityGap
    <3> QED
      BY <1>6, <3>1, <3>2 DEF Most
  <2>4. Assurance(d, funds) = assured \/ Assurance(d, funds) = last
    BY <2>1 DEF Most
  <2> HIDE DEF events, last
  <2> QED
    BY <1>3, <1>4, <2>3, <2>4 DEF events
<1> QED
  BY <1>5, <1>6

-----------------------------------------------------------------------------
(* Shortfalls *)

\* What is due up to the assured day is covered; an event is due only once in
\* less than four weeks.
Assured ==
    /\ assured \in Int /\ assured <= Ordinal(today) + Horizon
    /\ customer.rates = {0} /\ Ordinal(today) <= assured
       => balance >= Amount(customer.events, DueBetween(customer.events, From, assured))

LEMMA DueBetweenFacts ==
    ASSUME NEW events \in Seq(Events), NEW from, NEW until
    PROVE  /\ DueBetween(events, from, until) \in SUBSET DOMAIN events
           /\ Amount(events, DueBetween(events, from, until)) \in Nat
<1>1. DueBetween(events, from, until) \in SUBSET DOMAIN events
  BY DEF DueBetween
<1> QED
  BY <1>1, EventAmounts

\* The events of a day are left out when they have been debited.
LEMMA DueLater ==
    ASSUME NEW events \in Seq(Events), NEW from \in Int, NEW until \in Int
    PROVE  /\ Amount(events, DueBetween(events, from + 1, until))
              <= Amount(events, DueBetween(events, from, until))
           /\ from <= until /\ until < from + 28 =>
              Amount(events, DueBetween(events, from, until))
              = Amount(events, DueAt(events, from))
                + Amount(events, DueBetween(events, from + 1, until))
<1> DEFINE all == DueBetween(events, from, until)
           later == DueBetween(events, from + 1, until)
           now == DueAt(events, from)
<1>1. all \in SUBSET DOMAIN events
  BY DueBetweenFacts
<1>2. later \in SUBSET all
  <2>1. \A n \in (from + 1)..until : n \in from..until
    OBVIOUS
  <2> QED
    BY <2>1 DEF DueBetween
<1>3. ASSUME from <= until, until < from + 28 PROVE now \in SUBSET all /\ all \ now = later
  <2>1. now \in SUBSET all
    <3>1. from \in from..until
      BY <1>3
    <3>2. now \subseteq DOMAIN events
      BY DEF DueAt
    <3> QED
      BY <3>1, <3>2 DEF DueBetween
  <2>2. ASSUME NEW i \in all, i \notin now PROVE i \in later
    <3>1. PICK n \in from..until : i \in DueAt(events, n)
      BY <2>2 DEF DueBetween
    <3>2. n # from
      BY <2>2, <3>1
    <3>3. n \in (from + 1)..until
      BY <3>1, <3>2
    <3> QED
      BY <1>1, <3>1, <3>3 DEF DueBetween
  <2>3. ASSUME NEW i \in later, i \in now PROVE FALSE
    <3>1. PICK n \in (from + 1)..until : i \in DueAt(events, n)
      BY <2>3 DEF DueBetween
    <3>2. i \in DOMAIN events /\ n \in Int /\ from < n /\ n < from + 28
      BY <1>1, <1>2, <1>3, <2>3, <3>1
    <3>3. n >= from + 28
      BY <2>3, <3>1, <3>2, DueApart
    <3> QED
      BY <3>2, <3>3
  <2> HIDE DEF all, later, now
  <2> QED
    BY <1>2, <2>1, <2>2, <2>3
<1> HIDE DEF all, later, now
<1>4. Amount(events, later) <= Amount(events, all)
  BY <1>1, <1>2, AmountParts
<1>5. ASSUME from <= until, until < from + 28
      PROVE  Amount(events, all) = Amount(events, now) + Amount(events, later)
  <2>1. now \in SUBSET all /\ all \ now = later
    BY <1>3, <1>5
  <2> QED
    BY <1>1, <2>1, AmountParts
<1> QED
  BY <1>4, <1>5 DEF all, later, now

LEMMA InitAssured == Init => Assured
<1> SUFFICES ASSUME Init PROVE Assured
  OBVIOUS
<1>1. assured = 0 /\ today \in Dates
  BY InitInv, InvFacts DEF Init
<1>2. Ordinal(today) \in Nat \ {0} /\ Horizon \in Nat
  BY <1>1, OrdinalPositive, ConstantsAssumption
<1> QED
  BY <1>1, <1>2 DEF Assured

LEMMA AssuredStep ==
    ASSUME Horizon < 28, Inv, Assured, [Next]_vars
    PROVE  Assured'
<1> DEFINE events == customer.events
           now == Ordinal(today)
           covered(from, until) == Amount(events, DueBetween(events, from, until))
<1>0. /\ events \in Seq(Events) /\ now \in Int /\ Horizon \in Nat /\ balance \in Int
      /\ customer \in Customers /\ InCalendar(today) /\ today \in Dates
  BY InvFacts, OrdinalType, ConstantsAssumption DEF Inv
<1>a. /\ assured \in Int /\ assured <= now + Horizon
      /\ customer.rates = {0} /\ now <= assured => balance >= covered(From, assured)
  BY DEF Assured
<1>t. ASSUME NEW from, NEW until PROVE covered(from, until) \in Nat
  BY <1>0, DueBetweenFacts
<1>1. CASE NextDay
  <2>1. /\ customer' = customer /\ settled = TRUE /\ settled' = FALSE
        /\ today' = Tomorrow(today) /\ assured' = Assurance(Tomorrow(today), balance')
    BY <1>1 DEF NextDay
  <2>2. /\ InCalendar(today') /\ today' \in Dates /\ Ordinal(today') = now + 1
        /\ balance' \in Int /\ (customer.rates = {0} => balance' >= balance)
    BY <1>1, NextDayFacts
  <2>3. PICK d \in Dates : d = today' /\ InCalendar(d) /\ Ordinal(d) = now + 1
    BY <2>2
  <2>4. PICK funds \in Int : funds = balance'
    BY <2>2
  <2>5. From = now + 1 /\ From' = now + 1
    BY <2>1, <2>2 DEF From
  <2>6. assured <= Ordinal(d) + Horizon
    BY <1>0, <1>a, <2>3
  <2>7. PICK a \in Int : /\ a = assured' /\ a <= Ordinal(d) + Horizon
                         /\ a = assured \/ funds >= covered(Ordinal(d), a)
    <3>1. assured' = Assurance(d, funds)
      BY <2>1, <2>3, <2>4
    <3> QED
      BY <1>0, <1>a, <2>3, <2>6, <3>1, AssuranceFacts
  <2>8. customer.rates = {0} /\ now + 1 <= a => funds >= covered(now + 1, a)
    <3>1. ASSUME customer.rates = {0}, now + 1 <= a, a = assured
          PROVE  funds >= covered(now + 1, a)
      <4>1. balance >= covered(now + 1, a)
        BY <1>0, <1>a, <2>5, <3>1
      <4>2. covered(now + 1, a) \in Nat
        BY <1>t
      <4> QED
        BY <1>0, <2>2, <2>4, <3>1, <4>1, <4>2
    <3> QED
      BY <2>3, <2>7, <3>1
  <2> QED
    BY <2>1, <2>2, <2>3, <2>4, <2>5, <2>7, <2>8 DEF Assured
<1>2. CASE Settle
  <2>1. /\ customer' = customer /\ settled = FALSE /\ settled' = TRUE
        /\ today' = today /\ assured' = Assurance(today, balance')
    BY <1>2 DEF Settle, Inv
  <2>2. balance' = balance - Amount(events, Due(today)) /\ balance' \in Int
    BY <1>2, SettleFacts
  <2>3. Due(today) = DueAt(events, now)
    BY <1>0, DueIsDueAt
  <2>4. PICK funds \in Int : funds = balance'
    BY <2>2
  <2>5. From = now /\ From' = now + 1
    BY <2>1 DEF From
  <2>6. PICK a \in Int : /\ a = assured' /\ a <= now + Horizon
                         /\ a = assured \/ funds >= covered(now, a)
    <3>1. assured' = Assurance(today, funds)
      BY <2>1, <2>4
    <3> QED
      BY <1>0, <1>a, <3>1, AssuranceFacts
  <2>7. customer.rates = {0} /\ now <= a => funds >= covered(now + 1, a)
    <3>1. covered(now + 1, a) <= covered(now, a)
          /\ covered(now + 1, a) \in Nat /\ covered(now, a) \in Nat
      BY <1>0, <1>t, DueLater
    <3>2. ASSUME customer.rates = {0}, now <= a, a = assured
          PROVE  funds >= covered(now + 1, a)
      <4>1. balance >= covered(now, a)
        BY <1>a, <2>5, <3>2
      <4>2. a < now + 28
        BY <1>0, <2>6
      <4>3. covered(now, a) = Amount(events, DueAt(events, now)) + covered(now + 1, a)
        BY <1>0, <3>2, <4>2, DueLater
      <4>4. Amount(events, DueAt(events, now)) \in Nat
        BY <2>3, DueFacts
      <4> QED
        BY <1>0, <2>2, <2>3, <2>4, <3>1, <4>1, <4>3, <4>4
    <3> QED
      BY <2>6, <3>1, <3>2
  <2> QED
    BY <2>1, <2>4, <2>5, <2>6, <2>7 DEF Assured
<1>3. ASSUME NEW o \in checked, Draw(o) PROVE Assured'
  <2>1. /\ customer' = customer /\ settled' = settled /\ today' = today
        /\ assured' = assured
    BY <1>3 DEF Draw
  <2>2. balance' > balance /\ balance' \in Int
    BY <1>3, DrawFacts
  <2>3. From' = From
    BY <2>1 DEF From
  <2>4. covered(From, assured) \in Nat
    BY <1>t
  <2>5. customer.rates = {0} /\ now <= assured => balance' >= covered(From, assured)
    BY <1>0, <1>a, <2>2, <2>4
  <2> QED
    BY <1>a, <2>1, <2>3, <2>5 DEF Assured
<1>4. ASSUME UNCHANGED <<customer, today, settled, balance, assured>> PROVE Assured'
  <2>1. From' = From
    BY <1>4 DEF From
  <2> QED
    BY <1>4, <2>1 DEF Assured
<1>5. CASE Save \/ AcceptIncrease \/ AcceptExtend
  <2>1. PICK g : Update(g)
    BY <1>5 DEF Save, AcceptIncrease, AcceptExtend
  <2> QED
    BY <1>4, <2>1 DEF Update
<1>6. CASE UNCHANGED vars
  BY <1>4, <1>6 DEF vars
<1>7. CASE \/ Choose
           \/ \E o \in drafts : Check(o)
           \/ \E o \in checked : RefuseDraw(o)
  BY <1>4, <1>7, SettledDraft DEF Choose
<1> QED
  BY <1>1, <1>2, <1>3, <1>5, <1>6, <1>7 DEF Next

\* Whatever the amounts, the days and the salary: as long as the liquidity
\* analysis looks ahead less than four weeks, so that it sees each event once,
\* a customer who buys nothing can meet every event up to the day it has seen
\* no shortfall for.
THEOREM NoUnseenShortfall == ASSUME Horizon < 28 PROVE Spec => []ShortfallsForeseen
<1>1. Init => Inv /\ Assured
  BY InitInv, InitAssured
<1>2. Inv /\ Assured /\ [Next]_vars => (Inv /\ Assured)'
  BY InvStep, AssuredStep
<1>3. Inv /\ Assured => ShortfallsForeseen
  <2> SUFFICES ASSUME Inv, Assured, customer.rates = {0}, Ordinal(today) <= assured
               PROVE  balance >= 0
    BY DEF ShortfallsForeseen
  <2>1. Amount(customer.events, DueBetween(customer.events, From, assured)) \in Nat
    BY InvFacts, DueBetweenFacts
  <2>2. balance \in Int
        /\ balance >= Amount(customer.events, DueBetween(customer.events, From, assured))
    BY DEF Inv, Assured
  <2> QED
    BY <2>1, <2>2
<1> QED
  BY <1>1, <1>2, <1>3, PTL DEF Spec

-----------------------------------------------------------------------------
(* Offers *)

\* Nothing is due before the event of the day due, and the funds are there to
\* meet it until it has been debited.
Meets(due, funds) ==
    /\ customer.rates = {0} /\ due >= From =>
          /\ \A n \in From..(due - 1) : DueAt(customer.events, n) = {}
          /\ Cardinality(DueAt(customer.events, due)) = 1
             => funds >= Amount(customer.events, DueAt(customer.events, due))
    /\ customer.rates = {0} /\ settled /\ due = Ordinal(today)
       /\ Cardinality(DueAt(customer.events, due)) = 1
       => funds >= 0

\* The event that was drawn for, and those that will have been when what was
\* selected for them is drawn.
Funded ==
    /\ funded \in Int
    /\ Meets(funded, balance)
    /\ \A o \in drafts \cup checked : Meets(o.due, balance + o.amount)

LEMMA InitFunded == Init => Funded
<1> SUFFICES ASSUME Init PROVE Funded
  OBVIOUS
<1>1. funded = 0 /\ settled = TRUE /\ today \in Dates /\ drafts = {} /\ checked = {}
  BY InitInv, InvFacts DEF Init
<1>2. Ordinal(today) \in Nat \ {0}
  BY <1>1, OrdinalPositive
<1>3. From \in Nat \ {0}
  BY <1>1, <1>2 DEF From
<1> QED
  BY <1>1, <1>2, <1>3 DEF Funded, Meets

\* More funds meet what less do.
LEMMA MeetsMore ==
    ASSUME Inv, NEW due, NEW less \in Int, NEW more \in Int, less <= more, Meets(due, less)
    PROVE  Meets(due, more)
<1>1. DueAt(customer.events, due) \in SUBSET DOMAIN customer.events
  BY DEF DueAt
<1>2. Amount(customer.events, DueAt(customer.events, due)) \in Nat
  BY <1>1, InvFacts, EventAmounts
<1> QED
  BY <1>2 DEF Meets

\* The event that funds are selected for is the first that is due.
LEMMA ChosenFor ==
    ASSUME Inv, Upcoming(today) # {}
    PROVE  Meets(Ordinal(NextOccurrence(today, customer.events[First].day)),
                 customer.events[First].amount)
<1> DEFINE events == customer.events
           due(i) == Ordinal(NextOccurrence(today, events[i].day))
<1>1. /\ events \in Seq(Events) /\ today \in Dates /\ InCalendar(today)
      /\ Ordinal(today) \in Int /\ customer \in Customers /\ Horizon \in Nat
  BY InvFacts, OrdinalType, ConstantsAssumption DEF Inv
<1>3. /\ First \in Upcoming(today) /\ First \in DOMAIN events
      /\ \A i \in Upcoming(today) : due(First) <= due(i)
  BY <1>1, FirstFacts
<1>a. events[First].amount \in Nat \ {0}
  BY <1>1, <1>3, EventFacts
<1>4. ASSUME NEW i \in DOMAIN events
      PROVE  /\ due(i) \in Int /\ due(i) >= Ordinal(today) /\ i \in DueAt(events, due(i))
             /\ \A m \in Int : m >= Ordinal(today) /\ i \in DueAt(events, m) => due(i) <= m
             /\ i \in Upcoming(today) <=> due(i) - Ordinal(today) <= Horizon
  <2>1. i \in Upcoming(today) <=> due(i) - Ordinal(today) <= Horizon
    BY DEF Upcoming, Days
  <2> QED
    BY <1>1, <2>1, NextIsDue
<1> HIDE DEF due, events
<1>5. due(First) \in Int /\ due(First) >= Ordinal(today) /\ First \in DueAt(events, due(First))
      /\ due(First) - Ordinal(today) <= Horizon
  BY <1>3, <1>4
<1>6. ASSUME NEW n \in Int, n >= Ordinal(today), n < due(First), NEW i \in DueAt(events, n)
      PROVE  FALSE
  <2>1. i \in DOMAIN events
    BY DEF DueAt
  <2>2. due(i) <= n /\ due(i) \in Int
    BY <1>4, <1>6, <2>1
  <2>3. i \in Upcoming(today)
    BY <1>1, <1>4, <1>5, <1>6, <2>1, <2>2
  <2>4. due(First) <= due(i)
    BY <1>3, <2>3
  <2> QED
    BY <1>5, <1>6, <2>2, <2>4
<1>7. PICK f \in Int, now \in Int, from \in Int :
         /\ f = due(First) /\ now = Ordinal(today) /\ from = From /\ from >= now
  BY <1>1, <1>5 DEF From
<1>8. \A n \in from..(f - 1) : DueAt(events, n) = {}
  <2>1. \A n \in from..(f - 1) : n \in Int /\ n >= now /\ n < f
    BY <1>7
  <2> QED
    BY <1>6, <1>7, <2>1
<1>9. ASSUME Cardinality(DueAt(events, f)) = 1
      PROVE  Amount(events, DueAt(events, f)) = events[First].amount
  <2>1. PICK S : S = DueAt(events, f)
    OBVIOUS
  <2>2. Cardinality(S) = 1 /\ First \in S /\ S \in SUBSET DOMAIN events
    BY <1>5, <1>7, <1>9, <2>1 DEF DueAt
  <2>3. IsFiniteSet(S)
    BY <1>1, <2>2, EventAmounts
  <2>4. S = {First}
    <3>1. PICK x : S = {x}
      BY <2>2, <2>3, FS_Singleton
    <3> QED
      BY <2>2, <3>1
  <2> QED
    BY <1>1, <1>3, <2>1, <2>4, AmountOne
<1>10. Meets(f, events[First].amount)
  BY <1>a, <1>7, <1>8, <1>9 DEF Meets, events
<1> QED
  BY <1>7, <1>10 DEF due, events

\* A day that passes and the debits of a day.
LEMMA MeetsStep ==
    ASSUME Inv, NextDay \/ Settle, NEW due \in Int, NEW extra \in Int,
           Meets(due, balance + extra)
    PROVE  Meets(due, balance + extra)'
<1> DEFINE events == customer.events
           now == Ordinal(today)
           only(n) == Cardinality(DueAt(events, n)) = 1
           amount(n) == Amount(events, DueAt(events, n))
<1>0. /\ events \in Seq(Events) /\ now \in Int /\ balance \in Int
      /\ customer \in Customers /\ InCalendar(today) /\ today \in Dates
  BY InvFacts, OrdinalType DEF Inv
<1>t. ASSUME NEW n PROVE amount(n) \in Nat
  <2>1. DueAt(events, n) \in SUBSET DOMAIN events
    BY DEF DueAt
  <2> QED
    BY <1>0, <2>1, EventAmounts
<1>a. /\ customer.rates = {0} /\ due >= From =>
            /\ \A n \in From..(due - 1) : DueAt(events, n) = {}
            /\ only(due) => balance + extra >= amount(due)
      /\ customer.rates = {0} /\ settled /\ due = now /\ only(due) => balance + extra >= 0
  BY DEF Meets
<1>1. CASE NextDay
  <2>1. /\ customer' = customer /\ settled = TRUE /\ settled' = FALSE
    BY <1>1 DEF NextDay
  <2>2. /\ Ordinal(today') = now + 1
        /\ balance' \in Int /\ (customer.rates = {0} => balance' >= balance)
    BY <1>1, NextDayFacts
  <2>3. From = now + 1 /\ From' = From
    BY <2>1, <2>2 DEF From
  <2>4. ASSUME customer.rates = {0}, due >= From, only(due)
        PROVE  balance' + extra >= amount(due)
    <3>1. balance + extra >= amount(due) /\ amount(due) \in Nat
      BY <1>a, <1>t, <2>4
    <3> QED
      BY <1>0, <2>2, <2>4, <3>1
  <2> QED
    BY <1>a, <2>1, <2>3, <2>4 DEF Meets
<1>2. CASE Settle
  <2>1. /\ customer' = customer /\ settled = FALSE /\ settled' = TRUE
        /\ today' = today
    BY <1>2 DEF Settle, Inv
  <2>2. balance' = balance - Amount(events, Due(today)) /\ balance' \in Int
    BY <1>2, SettleFacts
  <2>3. Due(today) = DueAt(events, now)
    BY <1>0, DueIsDueAt
  <2>4. balance' = balance - amount(now) /\ amount(now) \in Nat
    BY <1>t, <2>2, <2>3
  <2>5. From = now /\ From' = now + 1
    BY <2>1 DEF From
  <2>6. ASSUME customer.rates = {0}, due >= now + 1
        PROVE  /\ \A n \in (now + 1)..(due - 1) : DueAt(events, n) = {}
               /\ only(due) => balance' + extra >= amount(due)
    <3>1. /\ \A n \in now..(due - 1) : DueAt(events, n) = {}
          /\ only(due) => balance + extra >= amount(due)
      BY <1>0, <1>a, <2>5, <2>6
    <3>2. now \in now..(due - 1)
      BY <1>0, <2>6
    <3>3. amount(now) = 0
      BY <1>0, <3>1, <3>2, AmountNone
    <3>4. balance' = balance
      BY <1>0, <2>4, <3>3
    <3>5. \A n \in (now + 1)..(due - 1) : n \in now..(due - 1)
      BY <1>0
    <3> QED
      BY <3>1, <3>4, <3>5
  <2>7. ASSUME customer.rates = {0}, due = now, only(due) PROVE balance' + extra >= 0
    <3>1. balance + extra >= amount(now)
      BY <1>0, <1>a, <2>5, <2>7
    <3> QED
      BY <1>0, <2>4, <3>1
  <2> QED
    BY <2>1, <2>5, <2>6, <2>7 DEF Meets
<1> QED
  BY <1>1, <1>2

LEMMA FundedStep ==
    ASSUME Inv, Funded, [Next]_vars
    PROVE  Funded'
<1>0. /\ balance \in Int /\ funded \in Int
      /\ \A o \in drafts \cup checked : o.amount \in Nat \ {0} /\ o.due \in Int
  BY DEF Inv, Funded, Drafted
<1>1. CASE NextDay \/ Settle
  <2>1. funded' = funded /\ drafts' = drafts /\ checked' = checked
    BY <1>1 DEF NextDay, Settle
  <2>2. balance' \in Int
    BY <1>1, NextDayFacts, SettleFacts
  <2>3. Meets(funded, balance)'
    <3>1. PICK f \in Int : f = funded
      BY <1>0
    <3>2. Meets(f, balance + 0)
      BY <1>0, <3>1 DEF Funded
    <3>3. Meets(f, balance + 0)'
      BY <1>1, <3>2, MeetsStep
    <3> QED
      BY <2>1, <2>2, <3>1, <3>3
  <2>4. ASSUME NEW o \in drafts \cup checked PROVE Meets(o.due, balance + o.amount)'
    <3>1. PICK due \in Int, extra \in Int : due = o.due /\ extra = o.amount
      BY <1>0
    <3>2. Meets(due, balance + extra)
      BY <3>1 DEF Funded
    <3>3. Meets(due, balance + extra)'
      BY <1>1, <3>2, MeetsStep
    <3> QED
      BY <3>1, <3>3
  <2> QED
    BY <1>0, <2>1, <2>3, <2>4 DEF Funded
<1>2. ASSUME UNCHANGED <<customer, today, settled>>, NEW due, NEW funds, Meets(due, funds)
      PROVE  Meets(due, funds)'
  <2>1. From' = From
    BY <1>2 DEF From
  <2> QED
    BY <1>2, <2>1 DEF Meets
<1>3. ASSUME UNCHANGED <<customer, today, settled, balance, funded>>,
             \A o \in drafts' \cup checked' :
                o \in drafts \cup checked \/ Meets(o.due, balance + o.amount)
      PROVE  Funded'
  <2>1. PICK b \in Int, f \in Int : b = balance /\ b = balance' /\ f = funded /\ f = funded'
    BY <1>0, <1>3
  <2>2. Meets(f, b)'
    BY <1>2, <1>3, <2>1 DEF Funded
  <2>3. ASSUME NEW o \in drafts' \cup checked' PROVE Meets(o.due, b + o.amount)'
    <3>1. Meets(o.due, b + o.amount)
      BY <1>3, <2>1 DEF Funded
    <3> QED
      BY <1>2, <1>3, <3>1
  <2> QED
    BY <2>1, <2>2, <2>3 DEF Funded
<1>4. CASE Choose
  <2>1. PICK d : /\ drafts' = drafts \cup {d}
                 /\ d.due = Ordinal(NextOccurrence(today, customer.events[First].day))
                 /\ balance + d.amount = customer.events[First].amount
    BY <1>4, ChooseFacts
  <2>2. Meets(d.due, balance + d.amount)
    BY <1>4, <2>1, ChooseFacts, ChosenFor
  <2>3. UNCHANGED <<customer, today, settled, balance, funded>> /\ checked' = checked
    BY <1>4 DEF Choose
  <2> QED
    BY <1>3, <2>1, <2>2, <2>3
<1>5. ASSUME NEW o \in checked, Draw(o) PROVE Funded'
  <2>1. /\ customer' = customer /\ settled' = settled /\ today' = today
        /\ drafts' = drafts /\ checked' \subseteq checked
        /\ funded' = IF o.due >= Ordinal(today) THEN o.due ELSE funded
    BY <1>5 DEF Draw
  <2>2. balance' = balance + o.amount /\ balance' \in Int /\ balance' > balance
    BY <1>5, DrawFacts
  <2>3. PICK b \in Int : b = balance'
    BY <2>2
  <2>4. Meets(o.due, b) /\ Meets(funded, b)
    <3>1. Meets(o.due, b)
      BY <2>2, <2>3 DEF Funded
    <3>2. Meets(funded, b)
      BY <1>0, <2>2, <2>3, MeetsMore DEF Funded
    <3> QED
      BY <3>1, <3>2
  <2>5. PICK f \in Int : f = funded' /\ Meets(f, b)
    <3>1. funded' \in {o.due, funded} /\ o.due \in Int
      BY <1>0, <2>1
    <3> QED
      BY <1>0, <2>4, <3>1
  <2>6. Meets(f, b)'
    BY <1>2, <2>1, <2>5
  <2>7. ASSUME NEW x \in drafts \cup checked PROVE Meets(x.due, b + x.amount)'
    <3>1. PICK less \in Int : less = balance + x.amount /\ less <= b + x.amount
                              /\ b + x.amount \in Int
      BY <1>0, <2>2, <2>3
    <3>2. Meets(x.due, less)
      BY <3>1 DEF Funded
    <3>3. Meets(x.due, b + x.amount)
      BY <3>1, <3>2, MeetsMore
    <3> QED
      BY <1>2, <2>1, <3>3
  <2> QED
    BY <2>1, <2>3, <2>5, <2>6, <2>7 DEF Funded
<1>6. CASE \/ \E o \in drafts : Check(o)
           \/ \E o \in checked : RefuseDraw(o)
  <2>1. /\ UNCHANGED <<customer, today, settled, balance, funded>>
        /\ drafts' \cup checked' \subseteq drafts \cup checked
    BY <1>6, SettledDraft
  <2> QED
    BY <1>3, <2>1
<1>7. CASE Save \/ AcceptIncrease \/ AcceptExtend
  <2>1. PICK g : Update(g)
    BY <1>7 DEF Save, AcceptIncrease, AcceptExtend
  <2> QED
    BY <1>3, <2>1 DEF Update
<1>8. CASE UNCHANGED vars
  BY <1>3, <1>8 DEF vars
<1> QED
  BY <1>1, <1>4, <1>5, <1>6, <1>7, <1>8 DEF Next

\* What was selected passes both checks unless the facility has been used since
\* or has expired.
LEMMA DraftAvailable ==
    ASSUME Inv, NEW o \in drafts \cup checked,
           o.type = "OVERDRAFT" => facilities[o.ref].used = o.seen
    PROVE  /\ Available(o)
           /\ o.type = "OVERDRAFT" /\ ~Expired(facilities[o.ref]) => Drawable(o)
<1>1. Drafted(o)
  BY DEF Inv
<1>2. CASE o.type = "OVERDRAFT"
  <2>1. /\ o.ref \in DOMAIN facilities /\ o.seen \in Nat /\ o.amount \in Nat
        /\ o.seen + o.amount <= facilities[o.ref].limit
        /\ facilities[o.ref].used = o.seen
    BY <1>1, <1>2 DEF Drafted
  <2>2. facilities[o.ref].limit \in Nat
    BY <2>1, FacilityFacts DEF Inv
  <2>3. o.amount <= facilities[o.ref].limit - facilities[o.ref].used
    BY <2>1, <2>2
  <2> QED
    BY <1>2, <2>3 DEF Available, Drawable
<1>3. CASE o.type # "OVERDRAFT"
  BY <1>1, <1>3 DEF Drafted
<1> QED
  BY <1>2, <1>3

\* Whatever the facilities, the deposits, the loans and the events, and however
\* many other funds are drawn and days pass between the offer, its acceptance
\* and the draw: no facility is drawn beyond its limit, a refusal means that the
\* facility has been used or has expired since the offer, and the single event
\* of a day that was drawn for is met.
THEOREM OffersHold == Spec => []OffersAreSound
<1>1. Init => Inv /\ Funded
  BY InitInv, InitFunded
<1>2. Inv /\ Funded /\ [Next]_vars => (Inv /\ Funded)'
  BY InvStep, FundedStep
<1>3. Inv /\ Funded => OffersAreSound
  <2> SUFFICES ASSUME Inv, Funded PROVE OffersAreSound
    OBVIOUS
  <2>1. ASSUME customer.rates = {0}, funded = Ordinal(today), Cardinality(Due(today)) = 1
        PROVE  balance >= 0
    <3>1. today \in Dates /\ InCalendar(today) /\ balance \in Int
      BY InvFacts DEF Inv
    <3>2. PICK S : S = Due(today) /\ S = DueAt(customer.events, funded)
      BY <2>1, <3>1, DueIsDueAt
    <3>3. CASE settled
      BY <2>1, <3>2, <3>3 DEF Funded, Meets
    <3>4. CASE ~settled
      <4>1. From = funded /\ funded \in Int
        BY <2>1, <3>4 DEF From, Funded
      <4>2. balance >= Amount(customer.events, S)
        BY <2>1, <3>2, <4>1 DEF Funded, Meets
      <4>3. Amount(customer.events, S) \in Nat
        BY <3>2, DueFacts
      <4> QED
        BY <3>1, <4>2, <4>3
    <3> QED
      BY <3>3, <3>4
  <2>2. \A o \in drafts \cup checked :
           (o.type = "OVERDRAFT" => facilities[o.ref].used = o.seen) =>
              /\ Available(o)
              /\ o.type = "OVERDRAFT" /\ ~Expired(facilities[o.ref]) => Drawable(o)
    BY DraftAvailable
  <2>3. \A i \in DOMAIN facilities : facilities[i].used <= facilities[i].limit
    BY FacilityFacts DEF Inv
  <2> QED
    BY <2>1, <2>2, <2>3 DEF OffersAreSound
<1> QED
  BY <1>1, <1>2, <1>3, PTL DEF Spec

-----------------------------------------------------------------------------
(* Habits *)

\* Every event is of a category that the history of spending leaves out.
OnlyObligations ==
    \A i \in DOMAIN customer.events : customer.events[i].category \in {"RENT", "UTILITY"}

\* The purchases of a customer of steady habits.
Habit ==
    Steady =>
        /\ rate > 0 => Daily(transactions, Ordinal(customer.first) + 1, Ordinal(today), rate)
        /\ OnlyObligations => Sole(transactions, rate)

LEMMA Joined ==
    ASSUME NEW log \in Seq(Entries), NEW rows \in Seq(Entries)
    PROVE  /\ log \o rows \in Seq(Entries) /\ Len(log) \in Nat /\ Len(rows) \in Nat
           /\ Len(log \o rows) = Len(log) + Len(rows)
           /\ \A i \in 1..Len(log) : i \in 1..Len(log \o rows) /\ (log \o rows)[i] = log[i]
           /\ \A i \in 1..Len(rows) :
                 Len(log) + i \in 1..Len(log \o rows) /\ (log \o rows)[Len(log) + i] = rows[i]
           /\ \A i \in 1..Len(log \o rows) :
                 \/ i \in 1..Len(log)
                 \/ \E j \in 1..Len(rows) : i = Len(log) + j
<1>1. Len(log) \in Nat /\ Len(rows) \in Nat
  BY LenProperties
<1>2. PICK all : all = log \o rows
  OBVIOUS
<1>3. /\ all \in Seq(Entries) /\ Len(all) = Len(log) + Len(rows)
      /\ \A i \in 1..Len(all) : all[i] = IF i <= Len(log) THEN log[i] ELSE rows[i - Len(log)]
  BY <1>2, ConcatProperties
<1>4. PICK n \in Nat, m \in Nat : n = Len(log) /\ m = Len(rows)
  BY <1>1
<1>5. ASSUME NEW i \in 1..n PROVE i \in 1..Len(all) /\ all[i] = log[i]
  <2>1. i \in 1..(n + m) /\ i <= n
    OBVIOUS
  <2> QED
    BY <1>3, <1>4, <2>1
<1>6. ASSUME NEW i \in 1..m PROVE n + i \in 1..Len(all) /\ all[n + i] = rows[i]
  <2>1. n + i \in 1..(n + m) /\ ~(n + i <= n) /\ (n + i) - n = i
    OBVIOUS
  <2> QED
    BY <1>3, <1>4, <2>1
<1>7. ASSUME NEW i \in 1..Len(all)
      PROVE  i \in 1..n \/ \E j \in 1..m : i = n + j
  <2>1. i \in 1..(n + m)
    BY <1>3, <1>4
  <2>2. CASE i > n
    <3>1. i - n \in 1..m /\ i = n + (i - n)
      BY <2>1, <2>2
    <3> QED
      BY <3>1
  <2> QED
    BY <2>1, <2>2
<1> QED
  BY <1>1, <1>2, <1>3, <1>4, <1>5, <1>6, <1>7

LEMMA DailyGrows ==
    ASSUME NEW log \in Seq(Entries), NEW rows \in Seq(Entries), NEW from, NEW until,
           NEW amount, Daily(log, from, until, amount)
    PROVE  Daily(log \o rows, from, until, amount)
<1>1. \A i \in 1..Len(log) : i \in 1..Len(log \o rows) /\ (log \o rows)[i] = log[i]
  BY Joined
<1> QED
  BY <1>1 DEF Daily

LEMMA SoleGrows ==
    ASSUME NEW log \in Seq(Entries), NEW rows \in Seq(Entries), NEW amount,
           \A i \in 1..Len(rows) : ~Spends(rows[i]), Sole(log, amount)
    PROVE  Sole(log \o rows, amount)
<1>1. PICK all : all = log \o rows
  OBVIOUS
<1>2. /\ \A i \in 1..Len(log) : all[i] = log[i]
      /\ \A i \in 1..Len(all) : i \in 1..Len(log)
                                \/ \E j \in 1..Len(rows) : i = Len(log) + j /\ all[i] = rows[j]
  BY <1>1, Joined
<1>3. \A i \in 1..Len(all) : Spends(all[i]) => i \in 1..Len(log) /\ all[i] = log[i]
  BY <1>2
<1>4. Sole(all, amount)
  BY <1>3 DEF Sole
<1> QED
  BY <1>1, <1>4

\* The purchase of the next day.
LEMMA PurchaseGrows ==
    ASSUME NEW log \in Seq(Entries), NEW rows \in Seq(Entries), NEW n \in Int,
           NEW amount \in Nat, NEW from \in Int,
           \A i \in 1..Len(log) : Spends(log[i]) => log[i].on < n,
           \A i \in 1..Len(rows) : Spends(rows[i]) /\ rows[i].on = n /\ rows[i].amount = amount,
           Len(rows) = IF amount > 0 THEN 1 ELSE 0
    PROVE  /\ Sole(log, amount) => Sole(log \o rows, amount)
           /\ amount > 0 /\ Daily(log, from, n - 1, amount) => Daily(log \o rows, from, n, amount)
<1>1. PICK all : all = log \o rows
  OBVIOUS
<1>2. /\ all \in Seq(Entries)
      /\ \A i \in 1..Len(log) : i \in 1..Len(all) /\ all[i] = log[i]
      /\ \A j \in 1..Len(rows) : Len(log) + j \in 1..Len(all) /\ all[Len(log) + j] = rows[j]
      /\ \A i \in 1..Len(all) : i \in 1..Len(log)
                                \/ \E j \in 1..Len(rows) : i = Len(log) + j /\ all[i] = rows[j]
      /\ Len(log) \in Nat
  <2>1. /\ all \in Seq(Entries) /\ Len(log) \in Nat
        /\ \A i \in 1..Len(log) : i \in 1..Len(all) /\ all[i] = log[i]
        /\ \A j \in 1..Len(rows) : Len(log) + j \in 1..Len(all) /\ all[Len(log) + j] = rows[j]
        /\ \A i \in 1..Len(all) : i \in 1..Len(log) \/ \E j \in 1..Len(rows) : i = Len(log) + j
    BY <1>1, Joined
  <2> QED
    BY <2>1
<1>3. \A i \in 1..Len(log) : log[i].on \in Int
  BY EntryFacts
<1>4. ASSUME Sole(log, amount) PROVE Sole(all, amount)
  <2> SUFFICES ASSUME NEW i \in 1..Len(all), Spends(all[i])
               PROVE  /\ all[i].amount = amount
                      /\ \A j \in 1..Len(all) : Spends(all[j]) /\ all[j].on = all[i].on => j = i
    BY DEF Sole
  <2>1. CASE i \in 1..Len(log)
    <3>1. /\ all[i] = log[i] /\ all[i].amount = amount /\ all[i].on \in Int /\ all[i].on < n
      BY <1>2, <1>3, <1>4, <2>1 DEF Sole
    <3>2. ASSUME NEW j \in 1..Len(all), Spends(all[j]), all[j].on = all[i].on PROVE j = i
      <4>1. j \in 1..Len(log)
        <5> SUFFICES ASSUME NEW k \in 1..Len(rows), j = Len(log) + k, all[j] = rows[k] PROVE FALSE
          BY <1>2
        <5>1. all[j].on = n
          OBVIOUS
        <5> QED
          BY <3>1, <3>2, <5>1
      <4> QED
        BY <1>2, <1>4, <2>1, <3>1, <3>2, <4>1 DEF Sole
    <3> QED
      BY <3>1, <3>2
  <2>2. CASE i \notin 1..Len(log)
    <3>1. PICK k \in 1..Len(rows) : i = Len(log) + k /\ all[i] = rows[k]
      BY <1>2, <2>2
    <3>2. all[i].on = n /\ all[i].amount = amount /\ k = 1
      BY <3>1
    <3>3. ASSUME NEW j \in 1..Len(all), Spends(all[j]), all[j].on = n PROVE j = i
      <4>1. ASSUME j \in 1..Len(log) PROVE FALSE
        <5>1. all[j] = log[j] /\ log[j].on \in Int
          BY <1>2, <1>3, <4>1
        <5>2. log[j].on < n /\ log[j].on = n
          BY <3>3, <4>1, <5>1
        <5> QED
          BY <5>1, <5>2
      <4>2. PICK l \in 1..Len(rows) : j = Len(log) + l
        BY <1>2, <4>1
      <4> QED
        BY <3>1, <3>2, <4>2
    <3> QED
      BY <3>2, <3>3
  <2> QED
    BY <2>1, <2>2
<1>5. ASSUME amount > 0, Daily(log, from, n - 1, amount) PROVE Daily(all, from, n, amount)
  <2> SUFFICES ASSUME NEW m \in from..n
               PROVE  \E i \in 1..Len(all) : Spends(all[i]) /\ all[i].on = m /\ all[i].amount = amount
    BY DEF Daily
  <2>1. CASE m = n
    <3>1. 1 \in 1..Len(rows)
      BY <1>5
    <3>2. Len(log) + 1 \in 1..Len(all) /\ all[Len(log) + 1] = rows[1]
      BY <1>2, <3>1
    <3>3. Spends(rows[1]) /\ rows[1].on = m /\ rows[1].amount = amount
      BY <2>1, <3>1
    <3> QED
      BY <3>2, <3>3
  <2>2. CASE m # n
    <3>1. m \in from..(n - 1)
      BY <2>2
    <3>2. PICK i \in 1..Len(log) : Spends(log[i]) /\ log[i].on = m /\ log[i].amount = amount
      BY <1>5, <3>1 DEF Daily
    <3> QED
      BY <1>2, <3>2
  <2> QED
    BY <2>1, <2>2
<1> QED
  BY <1>1, <1>4, <1>5

\* What the next day of a customer of steady habits brings.
LEMMA SteadyDay ==
    ASSUME Inv, NextDay, Steady
    PROVE  /\ rate' = rate /\ rate \in Nat
           /\ balance' = balance
                         + (IF Tomorrow(today) = OnDay(Tomorrow(today), customer.salaryDay)
                            THEN customer.income ELSE 0)
                         - rate
           /\ \E salary \in Seq(Entries), purchase \in Seq(Entries) :
                 /\ transactions' = (transactions \o salary) \o purchase
                 /\ \A i \in 1..Len(salary) : ~Spends(salary[i])
                 /\ \A i \in 1..Len(purchase) : /\ Spends(purchase[i])
                                                 /\ purchase[i].on = Ordinal(today')
                                                 /\ purchase[i].amount = rate
                 /\ Len(purchase) = IF rate > 0 THEN 1 ELSE 0
<1>1. PICK d : d = Tomorrow(today)
  OBVIOUS
<1>2. d \in Dates /\ today' = d
  BY <1>1, NextDayFacts
<1>3. d.day % customer.every = 0
  <2>1. d.day \in Nat /\ customer.every = 1
    BY <1>2 DEF Steady, Dates
  <2> QED
    BY <2>1
<1>4. rate' = rate /\ rate \in Nat
  <2>1. rate \in customer.rates /\ rate' \in customer.rates
    BY NextDayFacts DEF Inv
  <2>2. PICK r : customer.rates = {r}
    BY DEF Steady
  <2> QED
    BY <2>1, <2>2, InvFacts
<1>5. PICK income \in Nat :
         income = IF d = OnDay(d, customer.salaryDay) THEN customer.income ELSE 0
  BY InvFacts
<1>6. PICK paid : paid = (d = OnDay(d, customer.salaryDay))
  OBVIOUS
<1>7. (d.day % customer.every = 0) = TRUE
  BY <1>3
<1>8. /\ balance' = balance + income - (IF d.day % customer.every = 0 THEN rate' ELSE 0)
      /\ transactions' = (transactions \o Rows(d, "SALARY", income, paid))
                         \o Rows(d, "SHOPPING", rate', d.day % customer.every = 0)
  BY <1>1, <1>5, <1>6 DEF NextDay
<1>9. PICK salary, purchase : /\ salary = Rows(d, "SALARY", income, paid)
                              /\ purchase = Rows(d, "SHOPPING", rate, TRUE)
  OBVIOUS
<1>10. "SALARY" \in Debits \cup {"SALARY", "TRANSFER"}
       /\ "SHOPPING" \in Debits \cup {"SALARY", "TRANSFER"}
  BY DEF Debits
<1>11. Shown(salary, d, "SALARY", income)
  BY <1>2, <1>9, <1>10, RowsShown
<1>12. Shown(purchase, d, "SHOPPING", rate) /\ Len(purchase) = IF rate > 0 THEN 1 ELSE 0
  BY <1>2, <1>4, <1>9, <1>10, RowsShown, RowsCount
<1>13. transactions' = (transactions \o salary) \o purchase
  BY <1>4, <1>7, <1>8, <1>9
<1>14. \A i \in 1..Len(salary) : ~Spends(salary[i])
  BY <1>11 DEF Shown, Spends
<1>15. \A i \in 1..Len(purchase) : /\ Spends(purchase[i])
                                    /\ purchase[i].on = Ordinal(today')
                                    /\ purchase[i].amount = rate
  BY <1>2, <1>12 DEF Shown, Spends
<1>17. balance' = balance + (IF d = OnDay(d, customer.salaryDay) THEN customer.income ELSE 0) - rate
  BY <1>3, <1>4, <1>5, <1>8
<1> QED
  BY <1>1, <1>4, <1>11, <1>12, <1>13, <1>14, <1>15, <1>17 DEF Shown

LEMMA InitHabit == Init => Habit
<1> SUFFICES ASSUME Init PROVE Habit
  OBVIOUS
<1>1. transactions = <<>> /\ today = customer.first /\ today \in Dates
  BY InitInv, InvFacts DEF Init
<1>2. Ordinal(today) \in Int /\ Len(transactions) = 0
  BY <1>1, OrdinalType
<1>3. Daily(transactions, Ordinal(customer.first) + 1, Ordinal(today), rate)
  BY <1>1, <1>2 DEF Daily
<1>4. Sole(transactions, rate)
  BY <1>2 DEF Sole
<1> QED
  BY <1>3, <1>4 DEF Habit

LEMMA HabitStep ==
    ASSUME Inv, Habit, [Next]_vars
    PROVE  Habit'
<1> DEFINE first == Ordinal(customer.first) + 1
           now == Ordinal(today)
<1>0. /\ transactions \in Seq(Entries) /\ now \in Int /\ first \in Int
      /\ \A i \in 1..Len(transactions) : transactions[i].on <= now /\ transactions[i].on \in Int
  <2>1. transactions \in Seq(Entries) /\ now \in Int /\ first \in Int
    BY InvFacts, OrdinalType
  <2>2. \A i \in 1..Len(transactions) : transactions[i].on <= now
    BY DEF Inv, Ordered
  <2> QED
    BY <2>1, <2>2, EntryFacts
<1>1. CASE NextDay
  <2>1. customer' = customer
    BY <1>1 DEF NextDay
  <2> SUFFICES ASSUME Steady
               PROVE  /\ rate' > 0 => Daily(transactions', first, Ordinal(today'), rate')
                      /\ OnlyObligations => Sole(transactions', rate')
    BY <2>1 DEF Habit, Steady, OnlyObligations
  <2>2. PICK n \in Int : n = Ordinal(today') /\ n = now + 1
    BY <1>0, <1>1, NextDayFacts
  <2>3. rate' = rate /\ rate \in Nat
    BY <1>1, SteadyDay
  <2>4. PICK salary \in Seq(Entries), purchase \in Seq(Entries) :
           /\ transactions' = (transactions \o salary) \o purchase
           /\ \A i \in 1..Len(salary) : ~Spends(salary[i])
           /\ \A i \in 1..Len(purchase) : /\ Spends(purchase[i])
                                           /\ purchase[i].on = n
                                           /\ purchase[i].amount = rate
           /\ Len(purchase) = IF rate > 0 THEN 1 ELSE 0
    BY <1>1, <2>2, SteadyDay
  <2>5. PICK log \in Seq(Entries) : log = transactions \o salary
    BY <1>0, Joined
  <2>6. \A i \in 1..Len(log) : Spends(log[i]) => log[i].on < n
    <3>1. /\ \A i \in 1..Len(transactions) : log[i] = transactions[i]
          /\ \A i \in 1..Len(salary) : log[Len(transactions) + i] = salary[i]
          /\ \A i \in 1..Len(log) : \/ i \in 1..Len(transactions)
                                    \/ \E j \in 1..Len(salary) : i = Len(transactions) + j
      BY <1>0, <2>5, Joined
    <3>2. ASSUME NEW i \in 1..Len(log), Spends(log[i]) PROVE i \in 1..Len(transactions)
      BY <2>4, <3>1, <3>2
    <3> QED
      BY <1>0, <2>2, <3>1, <3>2
  <2>7. /\ Sole(log, rate) => Sole(log \o purchase, rate)
        /\ rate > 0 /\ Daily(log, first, n - 1, rate) => Daily(log \o purchase, first, n, rate)
    BY <1>0, <2>3, <2>4, <2>6, PurchaseGrows
  <2>8. n - 1 = now
    BY <1>0, <2>2
  <2>9. rate > 0 => Daily(log, first, n - 1, rate)
    BY <1>0, <2>4, <2>5, <2>8, DailyGrows DEF Habit
  <2>10. OnlyObligations => Sole(log, rate)
    BY <1>0, <2>4, <2>5, SoleGrows DEF Habit
  <2> QED
    BY <2>2, <2>3, <2>4, <2>5, <2>7, <2>9, <2>10
<1>2. ASSUME UNCHANGED <<customer, today, rate>>, NEW rows \in Seq(Entries),
             transactions' = transactions \o rows,
             OnlyObligations => \A i \in 1..Len(rows) : ~Spends(rows[i])
      PROVE  Habit'
  <2> SUFFICES ASSUME Steady
               PROVE  /\ rate > 0 => Daily(transactions \o rows, first, now, rate)
                      /\ OnlyObligations => Sole(transactions \o rows, rate)
    BY <1>2 DEF Habit, Steady, OnlyObligations
  <2>1. rate > 0 => Daily(transactions \o rows, first, now, rate)
    BY <1>0, DailyGrows DEF Habit
  <2>2. OnlyObligations => Sole(transactions \o rows, rate)
    BY <1>0, <1>2, SoleGrows DEF Habit
  <2> QED
    BY <2>1, <2>2
<1>3. CASE Settle
  <2>1. UNCHANGED <<customer, today, rate>>
    BY <1>3 DEF Settle
  <2>2. PICK rows \in Seq(Entries) :
           /\ transactions' = transactions \o rows
           /\ \A i \in 1..Len(rows) : \E j \in DOMAIN customer.events :
                 rows[i].category = customer.events[j].category
    BY <1>3, SettleFacts
  <2>3. OnlyObligations => \A i \in 1..Len(rows) : ~Spends(rows[i])
    BY <2>2 DEF OnlyObligations, Spends
  <2> QED
    BY <1>2, <2>1, <2>2, <2>3
<1>4. ASSUME NEW o \in checked, Draw(o) PROVE Habit'
  <2>1. UNCHANGED <<customer, today, rate>>
    BY <1>4 DEF Draw
  <2>2. transactions' = Append(transactions, Row(today, "TRANSFER", o.amount))
    BY <1>4 DEF Draw
  <2>3. o.amount \in Nat \ {0} /\ today \in Dates /\ "TRANSFER" \in Debits \cup {"SALARY", "TRANSFER"}
    BY <1>4, DrawFacts, InvFacts
  <2>4. PICK r \in Entries : r = Row(today, "TRANSFER", o.amount) /\ r.category = "TRANSFER"
    BY <2>3, RowType
  <2>5. PICK rows \in Seq(Entries) : rows = <<r>> /\ Len(rows) = 1 /\ rows[1] = r
    <3>1. <<r>> \in Seq(Entries) /\ Len(<<r>>) = 1 /\ <<r>>[1] = r
      OBVIOUS
    <3> QED
      BY <3>1
  <2>6. transactions' = transactions \o rows
    BY <1>0, <2>2, <2>4, <2>5, AppendIsConcat
  <2>7. \A i \in 1..Len(rows) : ~Spends(rows[i])
    BY <2>4, <2>5 DEF Spends
  <2> QED
    BY <1>2, <2>1, <2>6, <2>7
<1>5. ASSUME UNCHANGED <<customer, today, rate, transactions>> PROVE Habit'
  BY <1>5 DEF Habit, Steady, OnlyObligations
<1>6. CASE Save \/ AcceptIncrease \/ AcceptExtend
  <2>1. PICK g : Update(g)
    BY <1>6 DEF Save, AcceptIncrease, AcceptExtend
  <2> QED
    BY <1>5, <2>1 DEF Update
<1>7. CASE UNCHANGED vars
  BY <1>5, <1>7 DEF vars
<1>8. CASE \/ Choose
           \/ \E o \in drafts : Check(o)
           \/ \E o \in checked : RefuseDraw(o)
  BY <1>5, <1>8, SettledDraft DEF Choose
<1> QED
  BY <1>1, <1>3, <1>4, <1>6, <1>7, <1>8 DEF Next

-----------------------------------------------------------------------------
(* Forecasts *)

\* The part of the forecast that the history of spending gives.
LEMMA RoundedShare ==
    ASSUME NEW spent \in Nat, NEW days \in Nat \ {0}, NEW amount \in Nat, NEW ahead \in Nat
    PROVE  /\ Rounded(spent * ahead, days) \in Int
           /\ spent >= days * amount => Rounded(spent * ahead, days) >= amount * ahead
           /\ spent = days * amount => Rounded(spent * ahead, days) = amount * ahead
<1> DEFINE n == 2 * (spent * ahead) + days
           q == n \div (2 * days)
           x == amount * ahead
<1>1. spent * ahead \in Nat /\ n \in Int /\ 2 * days \in Nat \ {0} /\ x \in Nat
  OBVIOUS
<1>2. q \in Int /\ Rounded(spent * ahead, days) = q
  BY <1>1, Euclid DEF Rounded
<1>3. (q >= x <=> n >= (2 * days) * x) /\ (q >= x + 1 <=> n >= (2 * days) * (x + 1))
  <2>1. x \in Int /\ x + 1 \in Int
    BY <1>1
  <2> HIDE DEF n, x
  <2> QED
    BY <1>1, <2>1, QuotientAtLeast
<1>4. ASSUME spent >= days * amount PROVE n >= (2 * days) * x
  <2>1. PICK more \in Nat : spent = days * amount + more
    <3>1. spent - days * amount \in Nat /\ spent = days * amount + (spent - days * amount)
      BY <1>4
    <3> QED
      BY <3>1
  <2>2. spent * ahead = days * x + more * ahead
    BY <2>1
  <2>3. more * ahead \in Nat /\ days * x \in Nat /\ (2 * days) * x = 2 * (days * x)
    BY <1>1
  <2> HIDE DEF x
  <2> QED
    BY <2>2, <2>3
<1>5. ASSUME spent = days * amount PROVE ~(n >= (2 * days) * (x + 1))
  <2>1. spent * ahead = days * x
    BY <1>5
  <2>2. days * x \in Nat /\ (2 * days) * (x + 1) = 2 * (days * x) + 2 * days
    BY <1>1
  <2> HIDE DEF x
  <2> QED
    BY <2>1, <2>2
<1>6. spent = days * amount => spent >= days * amount
  OBVIOUS
<1> HIDE DEF q, n
<1> QED
  BY <1>1, <1>2, <1>3, <1>4, <1>5, <1>6

LEMMA UpcomingBetween ==
    ASSUME customer \in Customers, NEW d \in Dates, InCalendar(d)
    PROVE  Upcoming(d) = DueBetween(customer.events, Ordinal(d), Ordinal(d) + Horizon)
<1> DEFINE events == customer.events
           due(i) == Ordinal(NextOccurrence(d, events[i].day))
<1>1. events \in Seq(Events) /\ Horizon \in Nat
  BY CustomerFacts, ConstantsAssumption
<1>2. PICK o \in Int, h \in Nat : o = Ordinal(d) /\ h = Horizon
  BY <1>1, OrdinalType
<1>3. ASSUME NEW i \in DOMAIN events
      PROVE  i \in Upcoming(d) <=> i \in DueBetween(events, o, o + h)
  <2>1. PICK n \in Int :
           /\ n = due(i) /\ n >= o /\ i \in DueAt(events, n)
           /\ \A m \in Int : m >= o /\ i \in DueAt(events, m) => n <= m
    BY <1>1, <1>2, NextIsDue
  <2>2. i \in Upcoming(d) <=> n - o <= h
    BY <1>2, <2>1 DEF Upcoming, Days
  <2>3. i \in DueBetween(events, o, o + h) <=> \E m \in o..(o + h) : i \in DueAt(events, m)
    BY DEF DueBetween
  <2> HIDE DEF due, events
  <2> QED
    BY <2>1, <2>2, <2>3
<1>4. Upcoming(d) \subseteq DOMAIN events /\ DueBetween(events, o, o + h) \subseteq DOMAIN events
  BY DEF Upcoming, DueBetween
<1> QED
  BY <1>2, <1>3, <1>4

\* What the accounts hold on a day to come, of a customer of steady habits.
Foreseen(now, from, funds, amount, until) ==
    funds + customer.income * Cardinality(PaidBetween(customer.salaryDay, now + 1, until))
          - Amount(customer.events, DueBetween(customer.events, from, until))
          - amount * (until - now)

LEMMA ForeseenType ==
    ASSUME customer \in Customers, NEW now \in Int, NEW from, NEW funds \in Int,
           NEW amount \in Nat, NEW until \in Int
    PROVE  Foreseen(now, from, funds, amount, until) \in Int
<1>1. customer.income \in Nat /\ customer.events \in Seq(Events)
  BY CustomerFacts
<1>2. Cardinality(PaidBetween(customer.salaryDay, now + 1, until)) \in Nat
  BY PaidBetweenFacts
<1>3. Amount(customer.events, DueBetween(customer.events, from, until)) \in Nat
  BY <1>1, DueBetweenFacts
<1>4. /\ customer.income * Cardinality(PaidBetween(customer.salaryDay, now + 1, until)) \in Int
      /\ amount * (until - now) \in Int
  BY <1>1, <1>2
<1> QED
  BY <1>3, <1>4 DEF Foreseen

\* A forecast is what will be there, as far as the history shows the habits.
LEMMA ForecastFacts ==
    ASSUME customer \in Customers, NEW d \in Dates, InCalendar(d), NEW funds \in Int,
           NEW log, Ordered(log, d), Known(log, d), NEW amount \in Nat,
           amount > 0 => Daily(log, Ordinal(customer.first) + 1, Ordinal(d), amount),
           OnlyObligations => Sole(log, amount)
    PROVE  LET o == Ordinal(d)
               seen == Foreseen(o, o, funds, amount, o + Horizon)
           IN /\ Forecast(d, funds, log) \in Int
              /\ Forecast(d, funds, log) <= seen
              /\ OnlyObligations => Forecast(d, funds, log) = seen
<1>1. /\ customer.events \in Seq(Events) /\ customer.salaryDay \in 1..31
      /\ customer.income \in Nat /\ customer.first \in Dates
      /\ Horizon \in Nat /\ Lookback \in Nat \ {0} /\ log \in Seq(Entries)
  BY CustomerFacts, ConstantsAssumption DEF Ordered
<1>2. PICK o \in Int, h \in Nat, first \in Int :
         o = Ordinal(d) /\ h = Horizon /\ first = Ordinal(customer.first)
  BY <1>1, OrdinalType
<1>3. PICK spent \in Nat : spent = Amount(log, Discretionary(log, d))
  BY <1>1, DiscretionaryFacts
<1>4. Amount(Context(log), Discretionary(Context(log), d)) = spent
  BY <1>3, ContextDiscretionary DEF Known
<1>5. amount > 0 => Daily(log, o - Lookback, o - 1, amount)
  <2>1. o - Lookback > first
    BY <1>2 DEF Known
  <2>2. \A n \in (o - Lookback)..(o - 1) : n \in (first + 1)..o
    BY <1>1, <2>1
  <2> QED
    BY <1>2, <2>2 DEF Daily
<1>6. /\ spent >= Lookback * amount
      /\ OnlyObligations => spent = Lookback * amount
  BY <1>1, <1>2, <1>3, <1>5, LookbackAmount
<1>7. PICK share \in Int :
         /\ share = Rounded(spent * h, Lookback)
         /\ share >= amount * h
         /\ OnlyObligations => share = amount * h
  <2>1. PICK days \in Nat \ {0} : days = Lookback
    BY <1>1
  <2>2. /\ Rounded(spent * h, days) \in Int
        /\ spent >= days * amount => Rounded(spent * h, days) >= amount * h
        /\ spent = days * amount => Rounded(spent * h, days) = amount * h
    BY RoundedShare
  <2> QED
    BY <1>6, <2>1, <2>2
<1>8. PICK paid \in Nat : /\ paid = Cardinality(PaidBetween(customer.salaryDay, o + 1, o + h))
                          /\ paid = Cardinality(SalaryDates(d, Plus(d, h), customer.salaryDay))
  <2>1. PICK day \in 1..31 : day = customer.salaryDay
    BY <1>1
  <2>2. Cardinality(SalaryDates(d, Plus(d, h), day))
          = Cardinality(PaidBetween(day, Ordinal(d) + 1, Ordinal(d) + h))
    BY SalaryCount
  <2>3. o + 1 \in Int /\ o + h \in Int
    OBVIOUS
  <2>4. Cardinality(PaidBetween(day, o + 1, o + h)) \in Nat
    BY <2>3, PaidBetweenFacts
  <2> QED
    BY <1>2, <2>1, <2>2, <2>4
<1>9. PICK due \in Nat : /\ due = Amount(customer.events, DueBetween(customer.events, o, o + h))
                         /\ due = Amount(customer.events, Upcoming(d))
  BY <1>1, <1>2, UpcomingBetween, DueBetweenFacts
<1>10. Forecast(d, funds, log) = funds + customer.income * paid - due - share
  BY <1>2, <1>4, <1>7, <1>8, <1>9 DEF Forecast
<1>11. Foreseen(o, o, funds, amount, o + h) = funds + customer.income * paid - due - amount * h
  <2>1. (o + h) - o = h
    OBVIOUS
  <2> QED
    BY <1>8, <1>9, <2>1 DEF Foreseen
<1>12. PICK income \in Int, habit \in Int : income = customer.income * paid /\ habit = amount * h
  BY <1>1
<1> QED
  BY <1>2, <1>7, <1>10, <1>11, <1>12

\* What was promised for a day to come is what the accounts will hold.
Promised ==
    Steady => \A p \in promised :
        /\ p.until \in Ordinal(today)..(Ordinal(today) + Horizon)
        /\ p.known =>
              LET seen == Foreseen(Ordinal(today), From, balance, rate, p.until)
              IN /\ p.amount \in Int /\ p.amount <= seen
                 /\ ~p.late /\ OnlyObligations => p.amount = seen

\* A day's salary and purchases are what the forecast reckons with.
LEMMA ForeseenDay ==
    ASSUME customer \in Customers, NEW d \in Dates, InCalendar(d), NEW now \in Int,
           Ordinal(d) = now + 1, NEW from, NEW funds \in Int, NEW amount \in Nat,
           NEW until \in Int, now + 1 <= until
    PROVE  Foreseen(now + 1, from,
                    funds + (IF d = OnDay(d, customer.salaryDay) THEN customer.income ELSE 0)
                          - amount, amount, until)
             = Foreseen(now, from, funds, amount, until)
<1> DEFINE all == PaidBetween(customer.salaryDay, now + 1, until)
           later == PaidBetween(customer.salaryDay, (now + 1) + 1, until)
<1>1. customer.income \in Nat /\ customer.events \in Seq(Events) /\ customer.salaryDay \in 1..31
  BY CustomerFacts
<1>2. d = OnDay(d, customer.salaryDay) <=> DueOn(d, customer.salaryDay)
  <2>1. d = [year |-> d.year, month |-> d.month, day |-> d.day]
    BY DEF Dates
  <2>2. OnDay(d, customer.salaryDay)
          = [year |-> d.year, month |-> d.month,
             day |-> Least(customer.salaryDay, MonthLength(d.year, d.month))]
    BY DEF OnDay, Date
  <2>3. d = OnDay(d, customer.salaryDay)
          => d.day = Least(customer.salaryDay, MonthLength(d.year, d.month))
    BY <2>2
  <2>4. d.day = Least(customer.salaryDay, MonthLength(d.year, d.month))
          => d = OnDay(d, customer.salaryDay)
    BY <2>1, <2>2
  <2> QED
    BY <2>3, <2>4 DEF DueOn
<1>3. now + 1 \in all <=> DueOn(d, customer.salaryDay)
  <2>1. now + 1 \in (now + 1)..until
    OBVIOUS
  <2>2. \A e \in Dates : InCalendar(e) /\ Ordinal(e) = now + 1 => e = d
    BY OrdinalInjective
  <2> QED
    BY <2>1, <2>2 DEF PaidBetween
<1>4. later = all \ {now + 1}
  <2>1. \A n : n \in ((now + 1) + 1)..until <=> n \in (now + 1)..until /\ n # now + 1
    OBVIOUS
  <2> QED
    BY <2>1 DEF PaidBetween
<1>5. IsFiniteSet(all) /\ Cardinality(all) \in Nat
  BY PaidBetweenFacts
<1> HIDE DEF all, later
<1>6. PICK n \in Nat, m \in Nat :
         /\ n = Cardinality(all) /\ m = Cardinality(later)
         /\ n = m + (IF d = OnDay(d, customer.salaryDay) THEN 1 ELSE 0)
  <2>1. CASE now + 1 \in all
    <3>1. Cardinality(later) = Cardinality(all) - 1
      BY <1>4, <1>5, <2>1, FS_RemoveElement
    <3>2. Cardinality(later) \in Nat
      BY <1>4, <1>5, FS_RemoveElement, FS_CardinalityType
    <3> QED
      BY <1>2, <1>3, <1>5, <2>1, <3>1, <3>2
  <2>2. CASE now + 1 \notin all
    <3>1. later = all
      BY <1>4, <2>2
    <3> QED
      BY <1>2, <1>3, <1>5, <2>2, <3>1
  <2> QED
    BY <2>1, <2>2
<1>7. PICK due \in Nat : due = Amount(customer.events, DueBetween(customer.events, from, until))
  BY <1>1, DueBetweenFacts
<1>8. PICK income \in Nat, paid \in {0, 1} :
         /\ income = customer.income
         /\ paid = IF d = OnDay(d, customer.salaryDay) THEN 1 ELSE 0
         /\ n = m + paid
         /\ (IF d = OnDay(d, customer.salaryDay) THEN customer.income ELSE 0) = income * paid
  BY <1>1, <1>6
<1>9. Foreseen(now, from, funds, amount, until)
        = funds + income * (m + paid) - due - amount * (until - now)
  BY <1>6, <1>7, <1>8 DEF Foreseen, all
<1>10. Foreseen(now + 1, from, funds + income * paid - amount, amount, until)
         = (funds + income * paid - amount) + income * m - due - amount * (until - (now + 1))
  BY <1>6, <1>7, <1>8 DEF Foreseen, later
<1>11. (funds + income * paid - amount) + income * m - due - amount * (until - (now + 1))
         = funds + income * (m + paid) - due - amount * (until - now)
  <2>1. income * (m + paid) = income * m + income * paid
    OBVIOUS
  <2>2. amount * (until - now) = amount * (until - (now + 1)) + amount
    OBVIOUS
  <2>3. PICK a \in Int, b \in Int, c \in Int :
           a = income * m /\ b = income * paid /\ c = amount * (until - (now + 1))
    OBVIOUS
  <2> QED
    BY <2>1, <2>2, <2>3
<1> QED
  BY <1>8, <1>9, <1>10, <1>11

LEMMA InitPromised == Init => Promised
BY DEF Init, Promised

LEMMA PromisedStep ==
    ASSUME Horizon < 28, Inv, Habit, Promised, Inv', Habit', [Next]_vars
    PROVE  Promised'
<1> DEFINE events == customer.events
           now == Ordinal(today)
           seen(from, until) == Foreseen(now, from, balance, rate, until)
           Kept(p, foreseen) == /\ p.amount \in Int /\ p.amount <= foreseen
                                /\ ~p.late /\ OnlyObligations => p.amount = foreseen
<1>0. /\ events \in Seq(Events) /\ now \in Int /\ Horizon \in Nat /\ balance \in Int
      /\ customer \in Customers /\ InCalendar(today) /\ today \in Dates
  BY InvFacts, OrdinalType, ConstantsAssumption DEF Inv
<1>p. ASSUME Steady, NEW p \in promised
      PROVE  /\ p.until \in now..(now + Horizon)
             /\ p.known => Kept(p, seen(From, p.until))
  BY <1>p DEF Promised
<1>1. CASE NextDay
  <2>1. /\ customer' = customer /\ settled = TRUE /\ settled' = FALSE
        /\ today' = Tomorrow(today)
        /\ promised' = {p \in promised : p.until >= Ordinal(Tomorrow(today))}
                        \cup {Promise(Tomorrow(today), FALSE, balance', transactions')}
    BY <1>1 DEF NextDay
  <2>2. PICK d \in Dates : /\ d = Tomorrow(today) /\ d = today' /\ InCalendar(d)
                           /\ Ordinal(d) = now + 1
    BY <1>1, <2>1, NextDayFacts
  <2>3. From = now + 1 /\ From' = now + 1
    BY <2>1, <2>2 DEF From
  <2>s. Ordinal(today') = now + 1
    BY <2>2
  <2> SUFFICES ASSUME Steady, NEW p \in promised'
               PROVE  /\ p.until \in (now + 1)..(now + 1 + Horizon)
                      /\ p.known => Kept(p, Foreseen(now + 1, now + 1, balance', rate', p.until))
    <3>1. Steady' <=> Steady
      BY <2>1 DEF Steady
    <3>2. OnlyObligations' <=> OnlyObligations
      BY <2>1 DEF OnlyObligations
    <3>3. \A until : Foreseen(Ordinal(today), From, balance, rate, until)'
                     = Foreseen(now + 1, now + 1, balance', rate', until)
      BY <2>1, <2>3, <2>s DEF Foreseen
    <3> HIDE DEF now
    <3> QED
      BY <2>s, <3>1, <3>2, <3>3 DEF Promised
  <2>4. /\ rate' = rate /\ rate \in Nat
        /\ balance' = balance + (IF d = OnDay(d, customer.salaryDay) THEN customer.income ELSE 0)
                              - rate
        /\ balance' \in Int
    BY <1>1, <2>2, SteadyDay, NextDayFacts
  <2>5. CASE p \in promised /\ p.until >= now + 1
    <3>1. PICK until \in Int : /\ until = p.until /\ now + 1 <= until
                               /\ until \in (now + 1)..(now + 1 + Horizon)
      BY <1>0, <1>p, <2>5
    <3>2. Foreseen(now + 1, now + 1, balance', rate, until) = seen(now + 1, until)
      BY <1>0, <2>2, <2>4, <3>1, ForeseenDay
    <3> HIDE DEF seen, now, Kept
    <3>3. p.known => Kept(p, seen(now + 1, until))
      BY <1>p, <2>3, <2>5, <3>1
    <3> QED
      BY <2>4, <3>1, <3>2, <3>3
  <2>6. CASE p = Promise(d, FALSE, balance', transactions')
    <3>1. /\ p.until = now + 1 + Horizon /\ p.late = FALSE
          /\ p.amount = Forecast(d, balance', transactions')
          /\ p.known = Known(transactions', d)
      BY <2>2, <2>6 DEF Promise
    <3>2. /\ Ordered(transactions', d)
          /\ rate > 0 => Daily(transactions', Ordinal(customer.first) + 1, Ordinal(d), rate)
          /\ OnlyObligations => Sole(transactions', rate)
      BY <2>1, <2>2, <2>4 DEF Inv, Habit, Steady, OnlyObligations
    <3>a. PICK log : log = transactions'
      OBVIOUS
    <3>3. PICK funds \in Int, amount \in Nat : funds = balance' /\ amount = rate
      BY <2>4
    <3>4. ASSUME Known(log, d)
          PROVE  /\ Forecast(d, funds, log) \in Int
                 /\ Forecast(d, funds, log)
                    <= Foreseen(now + 1, now + 1, funds, amount, now + 1 + Horizon)
                 /\ OnlyObligations =>
                    Forecast(d, funds, log)
                    = Foreseen(now + 1, now + 1, funds, amount, now + 1 + Horizon)
      BY <1>0, <2>2, <3>2, <3>a, <3>3, <3>4, ForecastFacts
    <3>5. p.until \in (now + 1)..(now + 1 + Horizon)
      BY <1>0, <3>1
    <3> HIDE DEF now
    <3> QED
      BY <2>4, <3>1, <3>a, <3>3, <3>4, <3>5
  <2> QED
    BY <2>1, <2>2, <2>5, <2>6
<1>2. CASE Settle
  <2>1. /\ customer' = customer /\ settled = FALSE /\ settled' = TRUE
        /\ today' = today /\ rate' = rate
        /\ promised' = promised
                       \cup {Promise(today, Due(today) # {}, balance', transactions')}
    BY <1>2 DEF Settle, Inv
  <2>2. balance' = balance - Amount(events, Due(today)) /\ balance' \in Int
    BY <1>2, SettleFacts
  <2>3. Due(today) = DueAt(events, now) /\ Amount(events, Due(today)) \in Nat
    BY <1>0, DueIsDueAt, DueFacts
  <2>4. From = now /\ From' = now + 1
    BY <2>1 DEF From
  <2>5. rate \in Nat
    BY InvFacts DEF Inv
  <2> SUFFICES ASSUME Steady, NEW p \in promised'
               PROVE  /\ p.until \in now..(now + Horizon)
                      /\ p.known => Kept(p, Foreseen(now, now + 1, balance', rate, p.until))
    BY <2>1, <2>4 DEF Promised, Foreseen, Steady, OnlyObligations
  <2>6. ASSUME NEW until \in Int, now <= until, until <= now + Horizon, NEW funds \in Int
        PROVE  Foreseen(now, now + 1, funds - Amount(events, Due(today)), rate, until)
                 = Foreseen(now, now, funds, rate, until)
    <3>1. Amount(events, DueBetween(events, now, until))
            = Amount(events, Due(today)) + Amount(events, DueBetween(events, now + 1, until))
      BY <1>0, <2>3, <2>6, DueLater
    <3>2. PICK b \in Nat, c \in Nat : /\ b = Amount(events, Due(today))
                                      /\ c = Amount(events, DueBetween(events, now + 1, until))
      BY <1>0, <2>3, DueBetweenFacts
    <3>3. PICK a \in Int : a = customer.income
                               * Cardinality(PaidBetween(customer.salaryDay, now + 1, until))
      <4>1. customer.income \in Nat
        BY InvFacts
      <4>2. Cardinality(PaidBetween(customer.salaryDay, now + 1, until)) \in Nat
        BY <1>0, PaidBetweenFacts
      <4> QED
        BY <4>1, <4>2
    <3>4. PICK e \in Int : e = rate * (until - now)
      BY <1>0, <2>5
    <3>5. Foreseen(now, now + 1, funds - b, rate, until) = (funds - b) + a - c - e
      BY <3>2, <3>3, <3>4 DEF Foreseen
    <3>6. Foreseen(now, now, funds, rate, until) = funds + a - (b + c) - e
      BY <3>1, <3>2, <3>3, <3>4 DEF Foreseen
    <3> QED
      BY <3>2, <3>5, <3>6
  <2>7. CASE p \in promised
    <3>1. PICK until \in Int : /\ until = p.until /\ now <= until /\ until <= now + Horizon
      BY <1>0, <1>p, <2>7
    <3>2. Foreseen(now, now + 1, balance', rate, until) = seen(now, until)
      BY <1>0, <2>2, <2>6, <3>1
    <3>3. p.until \in now..(now + Horizon)
      BY <1>p, <2>7
    <3> HIDE DEF seen, now, Kept
    <3>4. p.known => Kept(p, seen(now, until))
      BY <1>p, <2>4, <2>7, <3>1
    <3> QED
      BY <3>1, <3>2, <3>3, <3>4
  <2>8. CASE p = Promise(today, Due(today) # {}, balance', transactions')
    <3>1. /\ p.until = now + Horizon /\ (p.late <=> Due(today) # {})
          /\ p.amount = Forecast(today, balance', transactions')
          /\ p.known = Known(transactions', today)
      BY <2>8 DEF Promise
    <3>2. /\ Ordered(transactions', today)
          /\ rate > 0 => Daily(transactions', Ordinal(customer.first) + 1, now, rate)
          /\ OnlyObligations => Sole(transactions', rate)
      BY <2>1 DEF Inv, Habit, Steady, OnlyObligations
    <3>a. PICK log : log = transactions'
      OBVIOUS
    <3>3. PICK funds \in Int, amount \in Nat : funds = balance' /\ amount = rate
      BY <2>2, <2>5
    <3>4. ASSUME Known(log, today)
          PROVE  /\ Forecast(today, funds, log) \in Int
                 /\ Forecast(today, funds, log) <= Foreseen(now, now, funds, amount, now + Horizon)
                 /\ OnlyObligations => Forecast(today, funds, log)
                                       = Foreseen(now, now, funds, amount, now + Horizon)
      BY <1>0, <3>2, <3>a, <3>3, <3>4, ForecastFacts
    <3>5. Foreseen(now, now, funds, amount, now + Horizon)
            = Foreseen(now, now + 1, funds - Amount(events, Due(today)), amount, now + Horizon)
      <4>1. now + Horizon \in Int /\ now <= now + Horizon /\ now + Horizon <= now + Horizon
        BY <1>0
      <4> QED
        BY <2>6, <3>3, <4>1
    <3>6. PICK b \in Nat : b = Amount(events, Due(today))
      BY <2>3
    <3>7. PICK base \in Int :
             /\ base = Foreseen(now, now + 1, funds, amount, now + Horizon)
             /\ Foreseen(now, now, funds, amount, now + Horizon) = base - b
      <4>1. now + Horizon \in Int /\ now + 1 \in Int
        BY <1>0
      <4>2. Foreseen(now, now + 1, funds, amount, now + Horizon) \in Int
        BY <1>0, <4>1, ForeseenType
      <4>4. PICK a \in Int, c \in Int, e \in Int :
               /\ a = customer.income
                      * Cardinality(PaidBetween(customer.salaryDay, now + 1, now + Horizon))
               /\ c = Amount(events, DueBetween(events, now + 1, now + Horizon))
               /\ e = amount * ((now + Horizon) - now)
        <5>1. customer.income \in Nat
          BY InvFacts
        <5>2. Cardinality(PaidBetween(customer.salaryDay, now + 1, now + Horizon)) \in Nat
          BY <4>1, PaidBetweenFacts
        <5>3. Amount(events, DueBetween(events, now + 1, now + Horizon)) \in Nat
          BY <1>0, DueBetweenFacts
        <5> QED
          BY <1>0, <5>1, <5>2, <5>3
      <4>5. Foreseen(now, now + 1, funds, amount, now + Horizon) = funds + a - c - e
        BY <4>4 DEF Foreseen
      <4>6. Foreseen(now, now + 1, funds - b, amount, now + Horizon) = (funds - b) + a - c - e
        BY <4>4 DEF Foreseen
      <4>7. (funds - b) + a - c - e = (funds + a - c - e) - b
        OBVIOUS
      <4> QED
        BY <3>5, <3>6, <4>2, <4>5, <4>6, <4>7
    <3>8. ~p.late => b = 0
      <4>1. Amount(events, {}) = 0
        BY <1>0, AmountNone
      <4> QED
        BY <3>1, <3>6, <4>1
    <3>9. p.until \in now..(now + Horizon)
      BY <1>0, <3>1
    <3>10. ASSUME p.known PROVE Kept(p, base)
      <4>1. Known(log, today) /\ p.amount = Forecast(today, funds, log)
        BY <3>1, <3>a, <3>3, <3>10
      <4>2. PICK f \in Int : /\ f = p.amount /\ f <= base - b
                             /\ OnlyObligations => f = base - b
        BY <3>4, <3>7, <4>1
      <4>3. f <= base /\ (b = 0 /\ OnlyObligations => f = base)
        BY <4>2
      <4> QED
        BY <3>8, <4>2, <4>3
    <3> HIDE DEF Kept
    <3> QED
      BY <3>1, <3>3, <3>7, <3>9, <3>10
  <2> QED
    BY <2>1, <2>7, <2>8
<1>3. ASSUME NEW o \in checked, Draw(o) PROVE Promised'
  <2>1. promised' = {}
    BY <1>3 DEF Draw
  <2> QED
    BY <2>1 DEF Promised
<1>4. ASSUME UNCHANGED <<customer, today, settled, balance, rate, promised>> PROVE Promised'
  <2>1. From' = From
    BY <1>4 DEF From
  <2> QED
    BY <1>4, <2>1 DEF Promised, Foreseen, Steady, OnlyObligations
<1>5. CASE Save \/ AcceptIncrease \/ AcceptExtend
  <2>1. PICK g : Update(g)
    BY <1>5 DEF Save, AcceptIncrease, AcceptExtend
  <2> QED
    BY <1>4, <2>1 DEF Update
<1>6. CASE UNCHANGED vars
  BY <1>4, <1>6 DEF vars
<1>7. CASE \/ Choose
           \/ \E o \in drafts : Check(o)
           \/ \E o \in checked : RefuseDraw(o)
  BY <1>4, <1>7, SettledDraft DEF Choose
<1> QED
  BY <1>1, <1>2, <1>3, <1>5, <1>6, <1>7 DEF Next

\* Whatever the days, the amounts and the calendar: for a customer who buys for
\* the same amount every day, the forecast is never above what the accounts hold
\* when its day has come, and it is exact where the history of spending does not
\* have the events a second time, as long as it looks ahead less than four weeks.
THEOREM ForecastsHold == ASSUME Horizon < 28 PROVE Spec => []ForecastComesTrue
<1>1. Init => Inv /\ Habit /\ Promised
  BY InitInv, InitHabit, InitPromised
<1>2. Inv /\ Habit /\ Promised /\ [Next]_vars => (Inv /\ Habit /\ Promised)'
  BY InvStep, HabitStep, PromisedStep
<1>3. Inv /\ Promised => ForecastComesTrue
  <2> SUFFICES ASSUME Inv, Promised, Steady, settled, NEW p \in promised,
                      p.until = Ordinal(today), p.known
               PROVE  /\ p.amount <= balance
                      /\ ~p.late /\ OnlyObligations => p.amount = balance
    BY DEF ForecastComesTrue, OnlyObligations
  <2>1. PICK now \in Int : now = Ordinal(today) /\ p.until = now
    BY InvFacts, OrdinalType
  <2>2. From = now + 1
    BY <2>1 DEF From
  <2>3. PaidBetween(customer.salaryDay, now + 1, now) = {}
        /\ DueBetween(customer.events, now + 1, now) = {}
    BY DEF PaidBetween, DueBetween
  <2>4. Cardinality({}) = 0 /\ Amount(customer.events, {}) = 0
    BY InvFacts, AmountNone, FS_EmptySet
  <2>5. balance \in Int /\ rate \in Nat /\ customer.income \in Nat
    BY InvFacts DEF Inv
  <2>6. Foreseen(now, now + 1, balance, rate, now) = balance
    <3>1. rate * (now - now) = 0 /\ customer.income * 0 = 0
      BY <2>5
    <3>2. Foreseen(now, now + 1, balance, rate, now)
            = balance + customer.income * 0 - 0 - rate * (now - now)
      BY <2>3, <2>4 DEF Foreseen
    <3> QED
      BY <2>5, <3>1, <3>2
  <2> QED
    BY <2>1, <2>2, <2>6 DEF Promised
<1> QED
  BY <1>1, <1>2, <1>3, PTL DEF Spec

\* Whatever the dates, the amounts and the updates before, the contribution a
\* customer accepts reaches the target by the deadline up to half a unit a
\* month, and an extended deadline is the first that the contribution reaches.
THEOREM PlansReach == Spec => PlansReachTarget
<1> DEFINE Increases ==
             LET months == MonthsBetween(today, goal'.due)
             IN 2 * months * goal'.monthly >= 2 * Remaining(goal') - months
           Extends ==
             LET months == MonthsBetween(today, goal'.due)
             IN /\ months * goal'.monthly >= Remaining(goal')
                /\ (months - 1) * goal'.monthly < Remaining(goal')
<1>1. Init => Inv
  BY InitInv
<1>2. Inv /\ [Next]_vars => Inv'
  BY InvStep
<1>3. Inv /\ AcceptIncrease => Increases
  <2> SUFFICES ASSUME Inv, AcceptIncrease PROVE Increases
    OBVIOUS
  <2>1. goal' = [goal EXCEPT !.monthly = Required(goal, today)]
    BY DEF AcceptIncrease, Update
  <2>2. goal \in Goals /\ today \in Dates
    BY InvFacts
  <2>3. /\ goal'.due = goal.due /\ goal'.monthly = Required(goal, today)
        /\ goal'.target = goal.target /\ goal'.current = goal.current
    BY <2>1, <2>2 DEF Goals
  <2>4. Remaining(goal') = Remaining(goal)
    BY <2>3 DEF Remaining
  <2>5. MonthsBetween(today, goal.due) \in Nat \ {0} /\ Remaining(goal) \in Nat
    BY <2>2, MonthsBetweenType, RemainingType DEF Goals
  <2> QED
    BY <2>3, <2>4, <2>5, RoundedFacts DEF Required
<1>4. Inv /\ AcceptExtend => Extends
  <2> SUFFICES ASSUME Inv, AcceptExtend PROVE Extends
    OBVIOUS
  <2>1. /\ goal' = [goal EXCEPT !.due = ExtendedDate(goal, today)]
        /\ goal.monthly > 0
    BY DEF AcceptExtend, Update
  <2>2. goal \in Goals
    BY InvFacts
  <2>3. /\ goal'.due = ExtendedDate(goal, today) /\ goal'.monthly = goal.monthly
        /\ goal'.target = goal.target /\ goal'.current = goal.current
    BY <2>1, <2>2 DEF Goals
  <2>4. Remaining(goal') = Remaining(goal)
    BY <2>3 DEF Remaining
  <2>5. Drifting(goal, today)
    BY PrimaryDrift DEF AcceptExtend
  <2> QED
    BY <2>1, <2>3, <2>4, <2>5, ExtendedGoal
<1>5. PlansReachTarget <=> [][AcceptIncrease => Increases]_vars
                           /\ [][AcceptExtend => Extends]_vars
  BY DEF PlansReachTarget
<1> HIDE DEF Increases, Extends
<1> QED
  BY <1>1, <1>2, <1>3, <1>4, <1>5, PTL DEF Spec
=============================================================================
