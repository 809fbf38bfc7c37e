# Financial Radar: models and proofs

TLA+ models of the MSB Financial Sensing demo (`src/`), their TLC
configurations, and TLAPS proofs about them.  `PROJECT.json` lists the runs,
the mutants each property is tested with, the source lines every definition
translates, the hazards and the findings.

Paths below are relative to `src/`; `FR` is `financial-radar-service`, `CB` is
`mock-core-banking-service/corebanking`.

## The system

| component | state it keeps | operations | what is hard about it |
|---|---|---|---|
| Action workflow, `FR/app/agent/local_runtime.py` | recommendations, signals and the action log in PostgreSQL | `select`, `confirm`, `prepare_action`, `_prepare_or_execute`, `_execute_prepared` | rows are read, HTTP is awaited, rows are written; no row is locked; crashes, timeouts, repeated and opposite confirmations |
| Policy and tools, `FR/app/policy.py`, `FR/app/tools/` | none | `evaluate`, `execute` | which tools may run unconfirmed |
| Banking gateway, `FR/app/banking/gateway.py` | an HTTP client | one method per endpoint | a timeout does not undo a request |
| Core Banking API, `CB/main.py`, `CB/idempotency.py` | accounts, M-Sinh loi, overdraft, transactions, budgets, goals, reminders, idempotency records in MySQL | one handler per endpoint | some handlers lock rows, some do not; replay and record of a key are two steps |
| Core Banking admin, `CB/admin.py`, and its proxy `core-banking-admin-service/` | the same tables | create, read, update, delete | rows are checked in a snapshot and written by id later; the deletion of one customer reaches another's idempotency records |
| Scan, `LocalAgentRuntime.run` | signals, recommendations, tool traces | snapshot, analyses, LLM, `_upsert_signal` | two scans of one customer; a scan against a confirmation |
| Scan service, `FR/app/scan_service.py`, and background tasks in `FR/app/main.py` | scan rows | create, execute, poll | a crash leaves a scan running |
| Scheduler, `FR/scheduler.py` | an advisory lock in PostgreSQL | a cycle over all customers | exclusion of other schedulers, failures of one customer |
| Financial engine, `FR/app/financial_engine/` | none | forecast, goals, recurring events, anomalies | calendar and rounding edges |
| Candidate generator, `FR/app/agent/candidates.py` | none | the options of a recommendation, among them a source of funds | what is offered must still be accepted when it is chosen |
| LLM client, prompts, chat, `FR/app/llm/` | none | one remote call with bounded retries | malformed answers, timeouts |
| Mobile app, `frontend-mobile/src/app.js` | the session of one page | login, logout, scan and poll, select, confirm, forms | functions interleave where they await and write into what the page shows by then |

The mobile app calls the agent API and Core Banking over HTTP; the agent calls
Core Banking through the gateway, with the id of an action as idempotency key;
the scheduler calls the scan service and Core Banking's sweep.  FastAPI runs each
handler in a thread of a pool with a database session of its own, so handlers
of both services interleave at every query, commit and HTTP request.

## Modules

| module | models | proofs |
|---|---|---|
| `ActionContract` | what the agent promises about an action, abstractly | |
| `ActionWorkflow` | the action workflow, the gateway and Core Banking's replay of keys | `ActionWorkflow_proofs` |
| `CoreLedger` | one customer's money under the write endpoints of Core Banking | `CoreLedger_proofs` |
| `CoreRecords` | the rows of all customers under the admin API, and the idempotency records | `CoreRecords_proofs` |
| `RadarScan` | scans of one customer, their rows, signals and recommendations, the retries of the LLM client | `RadarScan_proofs` |
| `Scheduler` | cycles of several schedulers under the advisory lock, failed statements, failures of one customer | `Scheduler_proofs` |
| `Calendar` | the functions on dates of Python and of the engine | |
| `FinancialEngine` | forecasts, anomalies, offers of funds and goal scenarios against the life of a customer | `FinancialEngine_lemmas`, `FinancialEngine_proofs` |
| `MobileSession` | a page of the mobile app and what the services answer it | `MobileSession_proofs` |
| `MC_ActionWorkflow`, `MC_CoreLedger`, `MC_CoreRecords`, `MC_FinancialEngine`, `MC_MobileSession` | instances for TLC | |

The modules meet at few places and each keeps the other side's effect only.
`ActionWorkflow` has of Core Banking the requests, the idempotency keys and how
often an action took effect; `CoreLedger` has what such a request does to the
money, and `CoreRecords` what becomes of its key when customers are deleted.
`RadarScan` has of the workflow `Propose` and `Resolve`, its two effects on a
signal, and of the engine the set of risks that stand, which `FinancialEngine`
derives from money and dates.  `Scheduler` has of a scan its row and its end;
`MobileSession` has of the agent the latest report, the drafts and the answers,
and of Core Banking a version per customer.

### ActionWorkflow

`rec`, `signal` and `log` are the three tables; a row of `log` keeps the option
(tool and arguments), `confirmation_status` and `action_status`.  `job[w]` is
what a worker thread has in memory: the step it is at, the action and the
recommendation it loaded, and whether the recommendation was ACTIVE when it was
loaded, because SQLAlchemy writes a column only if its value changed in the
session.  `call[w][a]` is the worker's request to Core Banking, which lives on
when the handler gives up on it; `keys` and `effects` are Core Banking's side.
`consent` and `refused` are history variables.

One action is what happens between two commits, queries or HTTP events.
`SelectLoad` reads the recommendation and decides; `SelectSwitch` finds the
newest pending draft; `SelectCancel`, `Prepare` and `SelectMark` are the three
commits of `select`; `ConfirmLoad` is the check of `confirm`, and
`ConfirmAccept` or `ConfirmDecline` its commit.  `Send`, `Respond`, `Timeout`,
`ReportSuccess` and `ReportFailure` are `_execute_prepared`.  `CoreLookup`,
`CoreApply`, `CoreDuplicate` and `CoreReject` are Core Banking serving a write
request.  `Crash` stops the agent's process at any point.

`ActionContract` has four variables: the draft of an action, the consents, how
often an action took effect and which are reported as a success.  The
refinement mapping takes `draft` from `log[a].option`, `applied` from `effects`
and `succeeded` from the rows with status SUCCESS.

### CoreLedger

`payment`, `savings`, `used`, `budgets` and `keys` are the rows of one customer;
`statement` keeps the sums over the table of transactions that the code or a
property asks for: the net of credits and debits, the debits of a category, and
what went to M-Sinh loi or came from the facility.  `job[w]` holds what a handler
has read.  `swept` and `applied` are history variables.

The database is MySQL with InnoDB at its default isolation.  A handler's plain
reads see one snapshot and are one step (`ActivateBegin`, `DrawBegin`,
`PostBegin`, `BudgetBegin`); its first `SELECT ... FOR UPDATE` is one (`SweepLock`,
`WithdrawLock`, `DrawLock`); the lock on the payment account, which the handlers
take last and hold only until the commit, is one with the writes and the commit.
`create_transaction` and `create_budget` lock nothing: their commit writes what
they computed from the snapshot.  `Rollback` stands for whatever ends a
transaction without effect: a rule of the bank, the unique constraint, a
deadlock that InnoDB breaks, a crash.

### CoreRecords

`customers`, `accounts`, `savings`, `links` and `keys` are tables: customers,
accounts with owner and type, M-Sinh loi accounts with their payment account,
rows that refer to an account (transactions and facilities behave alike), and
idempotency records.  `job[w]` is a request that has passed its checks.  `Begin`
evaluates the checks of the handler (`Accepted`) in the snapshot; one action per
operation writes later, by primary key alone, under the foreign keys and unique
constraints as they are then.  `Within` says which ids are contained in the
operations of which customer: `DeleteCustomer` forgets the records by `LIKE
'%id%'`.  `life`, `applied`, `lost` and `moved` are history variables.

### RadarScan

`scan`, `rec`, `signals` and `simulated` are the rows of `RadarScanRun`,
`AgentRecommendation`, `RadarSignal` and of the successful tool traces of the
goal simulation.  `job[w]` is the scan a thread runs: the step it is at, the risks
found so far and the signal it loaded with the status it had then.  `risks` is
what Core Banking would report at the moment; every tool reads it anew.  `stood`
and `seen` are history variables: the risks that have stood during the whole
scan, and those that stood at some time of it.

`CreateAsync`, `CreateSync` and `Take` start a scan in the API or the scheduler.
`ToolSucceeds` and `ToolFails` are one call of `trace_tool` each, in the order
snapshot, forecast, anomaly, recurring, goal; `AfterError` says which errors end
the scan.  `ReadContext` chooses the primary signal and closes a scan that found
nothing; `FindSignal` and `UpsertSignal` are the query and the commit of
`_upsert_signal`; `Answered` and `Malformed` are the LLM; `Recommend` stores the
recommendation and marks the signal SHOWN, if it was not loaded as SHOWN.
`Complete`, `Fail` and `Abandon` end the scan, `Crash` stops one of the two
processes.

### Scheduler

`job[s]` is the cycle of a scheduler: the customers listed, those left, the one at
hand, what became of the others, and the state of its session's connection.
`holds` is the advisory lock, which PostgreSQL gives to a connection and counts:
who takes it twice has to give it back twice.  `List`, `TryLock`, `Reach`,
`SweepSucceeds`, `SweepFails`, `Create`, `Scan` and `Unlock` are the steps of
`run_cycle`; `Disconnect`, `Restart`, `GoDown`, `ComeUp`, `Register`, `Remove` and
`Clock` are its environment.

Two things spoil the session.  A connection that breaks in a transaction loses its
lock, and the next statement fails.  A statement that fails on a connection that
lives (`CreateFails`, `ScanUnrecorded`, `UnlockFails`: the commit of the scan's row,
the commit that records a scan's failure, the unlock) leaves the session refusing
everything until it is rolled back.  In both cases the unlock raises; in the second
the connection goes back to the pool with the lock.  `failures` is a history variable
that counts these, and `LockGivenUp` says that a lock is kept beyond a cycle at most
once for each of them and for no other reason.

### Calendar and FinancialEngine

Dates are records, and the operators are the functions of the code under the same
names: `AddMonths`, `MonthsBetween`, `NextOccurrence`, `SalaryDates`,
`NextSalaryDate` in `Calendar`; `Forecast`, `BeforeIncome`, `Anomalies`, `Required`,
`ExtendedDate`, `Offers` in `FinancialEngine`.

Python's years end with 9999.  `AddMonths` is defined beyond, so that the model can say
which date would be asked for; `Representable` is a date that Python has, and
`Simulated` is false of a goal whose deadline would be extended beyond the last year:
the tool's `ValueError` is swallowed by `run`, and the scan goes on as if there were no
goal.  `TypeOK` says that nothing else a scan computes leaves the calendar, for
customers who are looked at before the last year.

What they say is compared with the life of a customer.  The state is a day, the
balance, the transactions, the facilities and one goal.  `NextDay` brings the
salary and the purchases of the new day and makes a forecast; `Settle` debits the
events of the day and makes another, so that a scan comes before and after the
debits.  Funds are drawn in three steps that any number of days, debits and other
draws may separate: `Choose` selects what a scan has offered and fixes type, place and
amount (`drafts`); `Check` is the confirmation, at which the tool reads Core Banking
again (`checked`); `Draw` and `RefuseDraw` are `draw_overdraft` with its own check.
`Save`, `AcceptIncrease` and `AcceptExtend` are updates through Core Banking's
`update_goal`, the last two with what `simulate_goal_scenarios` offers as of that day.
`promised`, `assured` and `funded` are history variables: forecasts whose day has not
passed, the last day up to which the liquidity analysis has seen no shortfall, and the
event that was drawn for.

### MobileSession

`id`, `ctx` and `radar` are the fields of `S` in `app.js`; `modal`, `open`,
`scanning` and `page` are what the page shows.  `job[j]` is an asynchronous function
under way: what it is about, which request it awaits, what it has been answered.
Every step between two awaits is one action.  `load()` is `ReadContext` and
`ReadLatest` in either order, then `Loaded` or `LoadFails`; a scan is `ScanStarted`,
`StillRunning`, then `ScanCompletes` and `ShowReport`, `GiveUp` or `ScanFails`.  The
agent's reports, drafts and answers and Core Banking's versions change when a
request is received; its answer may be lost (`PreparedUnheard`, `AppliedUnheard`,
`Refused`), and what the agent executes may fail, or be carried out by Core Banking
after the agent has given it up (`Executes`, `LandsLate`).

A confirmation sheet is reached in two ways, by the choice of an option (`Select`) and
by the form of M-Sinh loi (`Prepare`).  Options whose tool asks for no confirmation are
`free`: the agent executes them when they are selected, and the page shows the sheet
all the same and does not load.

Nothing keeps a user of this page from doing two things at once, and nothing does in
the model: scans, loads, choices, answers and forms overlap with each other and with
logging out.  Three history variables record what has met with what: the `marks` of a
function under way (somebody has logged out since it began, `radar` has been assigned
since, a write was made since it began to load), `strayed` (which of `ctx` and `radar`
was last assigned by a function from before a logout) and `missed`.  With them each
property says exactly what is true of the code, and TLC finds a violation, at the bounds
below, if any of these exclusions is dropped:

| property | says | except |
|---|---|---|
| `OwnData` | the context, the report and the confirmation on the page are those of the customer who is logged in | the part that a function from before a logout has itself assigned, or the sheet it has opened |
| `ConsentInformed` | the sheet describes the option it confirms | by title, if `radar` was assigned or somebody logged out while the draft was prepared; the letter of the option is right in any case |
| `ContextCurrent` | once no login, form or answer is under way the context reflects every write | after an answer that was missed, a free option, a write that came late, or a write during the last load |

## Runs

| run | bounds | shows |
|---|---|---|
| `workflow_concurrent` | 2 workers, 1 recommendation, an option with confirmation and one without, 2 actions, timeouts and crashes | at most one effect, no unauthorised effect, what is reported as SUCCESS or ACTIONED is true, refinement of `ActionContract` |
| `workflow_sequential` | 1 worker, 2 recommendations about one signal, 3 options, 2 actions, timeouts | refused is never applied, one draft per recommendation, outcomes and expiries are final, every handler returns, confirmed actions resolve |
| `workflow_declined_race` | 2 workers, 1 action, no failures | *violation*: a declined action takes effect |
| `ledger_concurrent` | 2 threads, all endpoints | balances and the facility stay within their limits, savings explained, one sweep per day, one effect per key, the minimum kept |
| `ledger_sequential` | 1 thread, all endpoints, 2 categories | exact balance; one budget per category, with the exact spending |
| `ledger_lost_update` | 2 threads, `create_transaction` | *violation*: a lost update |
| `scan_interleaved` | a thread of the API and the scheduler, 2 scans, 2 kinds of risk, selections, confirmations, one change of the risks, tool errors, LLM retries, crashes | recommendations point to a signal of their type; a report names only what stood, and nothing less urgent than what stood throughout; one open signal of a type unless two scans overlap or one is opened again; every scan ends |
| `scheduler_faults` | 2 schedulers, 2 customers, 2 faults, 1 outage | one cycle at a time, the lock kept beyond a cycle only after a failed statement, failures isolated, every customer scanned again and again |
| `scheduler_skips` | 1 scheduler, no faults | *violation*: a customer who is never scanned after 16h |
| `engine_calendar` | 14 November 2027 to 31 March 2028, customers of six kinds, 2 updates or selections | forecasts come true, shortfalls are foreseen, anomalies are real, offers pass later checks unless their facility was used or expired, draws stay within limits and suffice, accepted plans reach the target |
| `records_admin` | 2 threads, customers C1 and C10, 2 accounts, 1 link, 1 key, 8 requests | a key applies once in a customer's life, records die with their customer, M-Sinh loi keeps its owner's account, requests change their own customer's rows only |
| `mobile_session` | 2 customers, 2 functions under way, 3 starts, 2 reports, 2 attempts, an option with confirmation and one without | the three properties in the table above, and scanning ends |

Bounds.  The conflicts in the workflow are between two handlers about one row:
two workers and two actions give every pair of operations on the same action,
and on two actions of one recommendation; the second action is also the retry
of a first one that failed.  `MaxActions` bounds the number of rows created and
`RoomForAction` starts a request only if its row fits.  In the ledger
`MaxRequests` = 4 lets a race of two be preceded and followed by one request
each, `MaxDay` = 2 gives one midnight, amounts 1 and 2 against a balance of 3
and a limit of 2 make every guard pass and fail.  Requests that are refused
take no step: they would change nothing.

In `scan_interleaved` two scans give every pair of steps on one signal, and the
second also meets what a first one left that failed or was stopped; of the five
risks two are possible, GOAL_DRIFT, whose tool may fail without ending the scan,
and IDLE_CASH, which no tool looks for.  In `scheduler_faults` two faults let both
schedulers lose the lock, or one keep it and then break, and one customer is sound and
one frozen, so that every sweep outcome meets every state of the session.

The customers of `engine_calendar` are each made for one question: `Scheduled` has
salaries on the days 1, 28, 29 and 31 and events on 1, 15, 30 and 31; `Short` cannot
pay everything before the salary; `Shopper` buys at a rate that changes from month
to month, so that baselines of three months rise and fall, every day or every third
day (with every day the last hundred transactions do not reach back); `Funding` has
facilities, deposits and loans of which the first is not always the one that
suffices, one facility that expires before the end, and two selections, so that a draw
meets an offer that is older than another draw; `Saving` has goals due at the ends of
months and on the first; `Slow` has one whose deadline would be extended by 8,333
years, beyond 9999.  The
days go through months of 28 to 31 days, a leap February and the turn of the year.

In `records_admin` eight requests let a customer be created, get an account and an
M-Sinh loi account, be deleted and come back while another request waits; C1 is
contained in the operations of C10.  In `mobile_session` three starts are a
login and two functions that overlap, or a function that outlives a logout and the next
login; the scheduler's scans bring reports without a start.  The three invariants were
also checked with four starts, under symmetry and without the liveness property.

Symmetry is used in runs without liveness properties only.  Deadlock is not
checked because the bounds let an instance come to its end.

Fairness.  `FairSpec` of `ActionWorkflow` assumes weak fairness of `Continue(w)`: a
thread that has a next step takes it.  The operating system schedules threads,
and the HTTP client's timeout is part of `Continue`, so that a Core Banking that
never answers does not block the handler.  Nothing is assumed of Core Banking, of
clients or of the clock.  In `RadarScan` each worker's `Continue` and, for each
scan, `Take` are weakly fair: tools and the LLM have timeouts, and FastAPI starts
a background task after its response.  In `Scheduler` each scheduler's `Cycle` is
weakly fair, because the process sleeps for a bounded time and every call of a
cycle has a timeout, and so is `ComeUp`: somebody brings Core Banking up again.
In `MobileSession` only `Answered(j)` is weakly fair: a request of a scan is
answered and a timer fires.  That a scan ever ends is not assumed: the page must
give up by itself.

`ScansFinish` excludes the scans of a process that has stopped: nothing resumes
them.  `ConfirmedResolves` is claimed without crashes: after a crash between the
commit of a confirmation and that of its outcome no operation of the code accepts
the action any more.

## Proofs

All theorems are stated for arbitrary constants that meet the modules'
assumptions: any number of workers, recommendations, options, amounts, keys.

`ActionWorkflow_proofs`.  `TypeOK`, the three safety properties and the refinement
rest on one inductive invariant.  Its parts say what a job at a given step implies
about the row it holds (a worker that is about to call has an action whose tool is
exempt or that has been confirmed), that a request exists only for such an
action, that an answer "ok" or a step "succeed" implies a key, and that keys
and effects agree.  `AtMostOnce` alone is not inductive: it needs that `effects`
is positive only for actions in `keys`, and `EffectAuthorised` needs the facts
about requests in flight, because Core Banking applies a request long after the
handler that sent it is gone.

Three more hold when one request is served at a time (`OneAtATime`; with two workers
the first is false, which `workflow_declined_race` shows), and timeouts or crashes
do not disturb the first two: `RefusedStaysUndone`, `OutcomesStay` and `OneDraftPends`.
Their invariant says that the worker's copy of a row is the row (`JobCurrent`), that
what was refused has neither a request nor an effect (`SerialSafe`), and that of a
recommendation's drafts one at most is PENDING, none once the worker has cancelled the
old one (`DraftSafe`).  `OneDraftPends` also assumes that the process does not crash: TLC
finds that a crash between the commits of `Prepare` and `SelectMark` leaves a draft
behind a recommendation that is still ACTIVE, beside which the next `select` makes a
second one.

`CoreLedger_proofs`.  `LimitsKept`, `SavingsExplained`, `OneSweepPerDay`,
`KeyedOnce` and `MinimumKept` are proved under full concurrency.  The strengthening
says what a worker past its lock knows: it holds the row, so that the guard it
evaluated is still true when it commits (the amount of a withdrawal is within the
savings, the amount of a draw within the limit, the day of a sweep is not the day
of the last one).  `StatementsAddUp` proves `StatementExplainsBalance` under the
assumption `Uncontended` (`create_transaction` is not among the endpoints called,
or there is one worker); without it the property is false, which
`ledger_lost_update` shows.  `BudgetsAddUp` proves `BudgetsExact` under `BudgetsUnraced`
(`create_budget` is not called, or there is one worker): a debit is charged to the
budgets of its category in the same commit, and one that is created starts from a sum
that nobody has changed since it was read.

`CoreRecords_proofs`.  For any ids, any containment of ids that is reflexive, any
accounts and threads: `TypeOK` (the foreign keys hold), `AppliedOnce`,
`RecordsDieWithCustomer`, `SavingsLinked` and `OnlyOwnRows`.  `AppliedOnce` needs
that a customer's key that was applied and is not recorded was lost
(`KeysKept`).  `SavingsLinked` and `OnlyOwnRows` need `Pending`: a request that waits
names rows that are still its customer's, or gone, or whose id has been given to
somebody else meanwhile; that an id can change hands only after its row was
deleted is what makes the check in the old snapshot still good.

`FinancialEngine_lemmas` and `FinancialEngine_proofs`.  For every customer within
the bounds of Core Banking's schemas (`ConstantsAssumption`: an event has a positive
amount and a day from 1 to 31, a goal is one that `create_goal` accepts, and the days
looked at are before the year 9999), any lookback, window, baseline and limit of the context:

- `DatesAndAmountsStay` (`TypeOK`): no date of a scan is one that Python does not have,
  because `Simulated` keeps a deadline beyond the last year from being offered, and goals
  stay acceptable.
- `AnomaliesRise` (`AnomaliesAreReal`): the transactions are in the order of their
  dates (`Ordered`), so that what the context drops is older than what it keeps; the
  sum over the months of the baseline is the same in both, and `ratio()` of it is a
  fifth at least when the amounts are.
- `NoUnseenShortfall` (`ShortfallsForeseen`): the balance covers what is due from the
  first day that has not been debited to the assured one (`Assured`).  It assumes that
  the window is less than four weeks, as the 14 days of the code are: a longer one
  that `detect_upcoming_recurring` accepts may hold two occurrences of one event, which
  the analysis counts once.
- `ForecastsHold` (`ForecastComesTrue`), under the same assumption: a forecast that was
  made is, on each day until its own, at most what the balance, the salaries and the
  debits between the two days and the habit will make it (`Promised`, `Foreseen`), and
  equal to it in the case the property names.  When it is made this rests on what the
  transactions have become: one purchase for each day since the first (`Habit`), which
  the context has all of in the lookback days (`Known`), so that their sum is the number
  of days times the habit and rounding the share of the window adds nothing.
- `OffersHold` (`OffersAreSound`): the amount of a selected option is within what its
  facility had left at the scan, of which `seen` remembers the part used; the
  checks pass as long as that part is the same, and each draw is within what its own
  reading leaves.  Whatever was due between the scan and the draw has been debited, and nothing
  is due between the draw and the event that was drawn for (`Funded`), because `First`
  is the first of the upcoming events.
- `PlansReach` (`PlansReachTarget`): rounding half up is off by half a unit at most,
  rounding up is the least sufficient number of months, and `MonthsBetween` counts
  back what `AddMonths` has added, although the latter clamps the day (`MonthsAdded`).

The lemmas are about sums (`MapThenSumSet` does not depend on the element it takes
first, so that a sum can be split) and about the calendar (`Tomorrow` is the next
`Ordinal`, days of one month precede those of the next, `NextOccurrence` is the first
day on or after `as_of` that an event is due, two such days are 28 days apart at
least, and the loop of `_salary_dates` finds each salary between two days once).  The provers cannot instantiate the induction theorems of the library;
the lemmas use that a set of numbers or of subsets of a finite set that is not empty
has a least element, and that a least counterexample leads to a smaller one.

`Scheduler_proofs`.  For any number of schedulers, customers, lost connections, failed
statements and restarts: `LockSound` and `FailuresIsolated`.  The invariant bounds how
often a connection has taken the lock, by the statements that failed on it and one more
in the middle of a cycle over a usable session; it says that without faults every
cycle holds the lock, that the row that was just committed has a usable session, and
that while the session is usable the list is what is left, scanned, failed in the sweep
or at hand; and of two schedulers, that one at most holds the lock.  What `Unlock` does
over a session that is not usable depends on why it is not: with a dead connection
nothing is held, and with a failed statement one failure more has been counted.
`FailuresIsolated` is about the customers between two visits, and needs the
customer at hand in the states between.

`RadarScan_proofs`.  For any number of threads, scans and retries: `TypeOK`,
`RecommendationMatches`, `ReportIsFaithful` and `OpenSignalsBounded`.  All rest on
`Owned`: a scan under way is RUNNING, is run by one thread and is neither queued nor
given up, and signals never go away nor change their type (`SignalsKept`), although
no row is locked.  `Matched` says what a thread at a given step knows of the signal it
holds, and that its scan has no recommendation before `Recommend`; `Faithful` says which
risks a thread at a given step has looked for (`Passed`) and that those that stood
throughout are among its flags; `Bounded` says that while a thread is about to insert
a signal there is no open one of the type and nobody else is about to insert one,
which makes the first half, one open signal at most, inductive.

`MobileSession_proofs`.  For any customers, offers, number of functions under way and
interleaving: `OwnDataShown`, `ConsentIsInformed` and `ContextIsCurrent`, with nothing
assumed of the user, and `ScansAreShown`, the first conjunct of `ScansEnd`.  All rest on
the form of what is under way (`Shapes`) and on `Bystander`: a step leaves the other
functions as they are, except that it may mark them.  `OwnSafe` says that what a
function has read or found is of the customer who is logged in, of nobody, or of a
function that is marked as one from before a logout, and that behind the login form
there is nothing but a login that was not answered and functions so marked.
`ConsentSafe` says that the report in which a choice was made is still the one at hand
unless the function is marked.  `ContextSafe` says of each load that what it has read is
current or that it is marked as late (`LoadJob`), and that a context that is not current
has a load to come, or a reason that `missed` or `strayed` names (`Owed`).

Model-checked only: the liveness properties (`HandlersReturn`,
`ConfirmedResolves`, `ScansFinish`, `ScannedAgain`, `ScansEnd`), which are out of the
prover's reach.  Every invariant that a passing run checks is proved, and so are the
action properties.

## Findings

1. A declined action can take effect (`workflow_declined_race`).
2. Two concurrent transactions can lose a change of the balance
   (`ledger_lost_update`).
3. After 16h a customer whose M-Sinh loi account is not ACTIVE is not scanned
   (`scheduler_skips`).

Observations that no run is about, or that a property excuses by name:

- Two concurrent `create_budget` requests both find no overlapping budget and both
  insert one, and every debit is then charged to both (`CB/main.py:384`).
- With more than a hundred transactions in the months of the baseline the oldest
  months are cut off, and a SPENDING_ANOMALY is reported that is none
  (`CB/main.py:140`; `ReachesBack` in `AnomaliesAreReal`).  With more than a hundred in
  the lookback days the forecast takes the habits for smaller than they are (`Known` in
  `ForecastComesTrue`).
- A recurring event of a category that the spending history includes as well, such
  as HEALTH, is counted twice in the forecast, and an event of today that has
  been debited already is forecast again; both make the forecast lower than what
  comes (`ForecastComesTrue` is an equality without them, an inequality with).
- `ratio()` rounds to a hundredth of a percent, so that a rise of a little less than a
  fifth counts as one (`FR/app/financial_engine/utils.py:10`; the factors 20000 and
  23999 in `AnomaliesAreReal`).
- A facility that is ACTIVE but past its expiry is offered and then refused
  (`FR/app/agent/candidates.py:195`; `Expired` in `OffersAreSound`), and only the
  first event that the balance does not cover is funded.
- Two options that two scans offered for the same event can both be drawn: confirming
  asks for neither the balance nor the signal, and a selected option does not expire
  (`FR/app/agent/local_runtime.py:560`).
- An event that is due after the 14 days of the window and before the next salary is
  not among the obligations of the liquidity analysis
  (`FR/app/agent/local_runtime.py:66`; the window in `Assurance`).
- With a small enough contribution the extended deadline is past the year 9999: `date`
  raises, `run` takes the `ValueError` for the lack of a goal, and a drifting goal is not
  reported (`FR/app/financial_engine/goal.py:83`, `local_runtime.py:322`; `Simulated`).
- A statement that fails on a live connection makes the unlock raise, and the advisory
  lock stays with the pooled connection.  The process that keeps it takes it again in
  every cycle; others are locked out until the connection breaks or the process is
  restarted (`FR/scheduler.py:54`; `failures` in `LockGivenUp`).
- EXTEND_DEADLINE may bring the deadline forward, and INCREASE_CONTRIBUTION lower
  the contribution, for a goal that is behind its linear schedule although its
  contributions suffice (`FR/app/financial_engine/goal.py:62`, `:83`).
- A scan may set a signal back from ACTIONED to SHOWN
  (`FR/app/agent/local_runtime.py:467`; `excused` in `OpenSignalsBounded`).
- Deleting a customer takes the idempotency records of those whose operations
  contain its id, after which a retry is applied again (`CB/admin.py:196`; `lost` in
  `AppliedOnce`).  The owner of the account that a transaction or a facility refers
  to is not checked by the admin API.
- The page of the mobile app (`frontend-mobile/src/app.js`): see the exceptions in the table above.  A function that
  was under way at logout writes its answer into the page of the next customer
  (`app.js:13`); of two loads that cross, the older answer may come last (`:15`); a sheet
  may describe the option of a newer report under the same letter (`:39`).  An option
  whose tool needs no confirmation (`create_reminder`, `review_term_saving`) has been
  executed when the sheet asks to confirm it, the confirmation then fails, and the page
  does not load; a confirmation whose execution failed is shown like one that
  succeeded (`:40`).  Each submission of a form makes an idempotency key of its own, so
  that a second submission after a lost answer is a second payment; the reminders of a
  customer are kept after logout, and of two overlapping chats the later answer
  overwrites the last entry.

## Not modelled

Options that need no write of Core Banking (`review_term_saving`, deposits and loans of
`prepare_funding_option`) mark a signal ACTIONED without an effect; `ActionWorkflow` has
the tools that write, and what `ReportsTrue` says is said of them.  `CoreRecords` has
`create_reminder` as the write under a key; a repeated `update_goal` that changes nothing
writes no row of its own and only records its key.

Recurring events and settings of Core Banking (each written by one unconditional
statement), validation of input by Pydantic, the wording of recommendations and
the LLM's output, the chat, which is a single call without tools that write, the
admin proxy, which keeps nothing, runtime adapters and configuration, deployment.
Of the mobile app, rendering.

What the models take from outside the repository: InnoDB's snapshots and row
locks, PostgreSQL's read committed level and advisory locks, SQLAlchemy's session
(columns written only if changed, connections tested when taken from the pool),
FastAPI's thread pool, the single thread of a page.

## Plan

Done: the action workflow and its contract, the ledger, the admin's records, the
scan, the scheduler, the engine against a customer's life, a session of the mobile
app; every invariant and action property is proved.  What is left is an abstract
specification of a scan (a row that is created, runs and ends with a report that is
faithful), which `RadarScan` implements and `Scheduler` and `MobileSession` use.
