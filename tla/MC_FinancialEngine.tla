------------------------- MODULE MC_FinancialEngine -------------------------
\* From the middle of a short month through a leap February to the end of March.
EXTENDS FinancialEngine

\* Nothing but an income that no event and no purchase touches.
Plain == [first |-> Date(2027, 11, 14), last |-> Date(2028, 3, 31),
          income |-> 0, salaryDay |-> 1, balance |-> 0, safe |-> 0, events |-> <<>>,
          rates |-> {0}, every |-> 1, facilities |-> <<>>, deposits |-> <<>>,
          loans |-> <<>>, goals |-> {NoGoal}]

Event(day, amount, category) == [day |-> day, amount |-> amount, category |-> category]

\* Salaries and events at the edges of months, with purchases every day.
Scheduled ==
    {[Plain EXCEPT !.income = 50, !.salaryDay = payday, !.rates = {1},
        !.events = <<Event(31, 7, "RENT"), Event(15, 4, "UTILITY"),
                     Event(30, 3, "UTILITY"), Event(1, 5, last)>>] :
        payday \in {1, 28, 29, 31}, last \in {"RENT", "HEALTH"}}

\* Events before the salary, some of which the balance does not cover.
Short ==
    {[Plain EXCEPT !.income = 12, !.salaryDay = payday, !.balance = funds,
        !.events = <<Event(29, 5, "RENT"), Event(3, 4, "UTILITY"), Event(31, 3, "RENT")>>] :
        payday \in {1, 10, 30}, funds \in {0, 8, 12}}

\* Habits that change from month to month.
Shopper(every) ==
    [Plain EXCEPT !.income = 70, !.balance = 9, !.rates = {4, 5}, !.every = every]

\* An event that the balance does not cover, and several ways to pay it.
Funding ==
    LET facility(limit, used, expires) == [limit |-> limit, used |-> used, expires |-> expires]
        event == Event(5, 8, "RENT")
    IN {[Plain EXCEPT !.first = Date(2027, 11, 30), !.last = Date(2027, 12, 21), !.income = 8, !.salaryDay = 18, !.balance = 5, !.safe = -20,
           !.events = <<event, Event(19, 3, "UTILITY")>>,
           !.facilities = rows,
           !.deposits = <<[available |-> 2, partial |-> TRUE], [available |-> 9, partial |-> TRUE]>>,
           !.loans = <<[least |-> 4, limit |-> 9, eligible |-> TRUE],
                       [least |-> 1, limit |-> 9, eligible |-> TRUE]>>] :
         rows \in {<<facility(4, 2, Plain.last), facility(9, 0, Plain.last)>>,
                   <<facility(5, 0, Plain.last)>>,
                   <<facility(9, 0, Date(2027, 12, 20))>>, <<>>}}

\* The end of a short month, of a long one, and the first of a month.
Saving ==
    [Plain EXCEPT !.first = Date(2027, 12, 30), !.last = Date(2028, 3, 2), !.goals =
        [due : {Date(2028, 2, 29), Date(2028, 3, 31), Date(2028, 1, 1)},
         target : {5, 12}, current : {0}, monthly : {1, 3}]]

\* A goal whose deadline would be extended beyond the last year.
Slow ==
    [Saving EXCEPT !.last = Date(2028, 1, 31), !.goals =
        [due : {Date(2028, 3, 31)}, target : {100000}, current : {0}, monthly : {1, 6000}]]

MCCustomers == Scheduled \cup Short \cup {Shopper(1), Shopper(3)} \cup Funding \cup {Saving, Slow}
=============================================================================
