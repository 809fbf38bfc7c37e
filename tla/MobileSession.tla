---------------------------- MODULE MobileSession ----------------------------
(***************************************************************************)
(* A session of the mobile front end: the state it keeps of the customer   *)
(* who is logged in, its asynchronous functions, and what the two services *)
(* answer them.                                                            *)
(*                                                                         *)
(* The page runs one thread; functions interleave where they await.  What  *)
(* a function read before is held in its job, and the rest of the state is *)
(* what it finds when it goes on.  The user begins whatever the page lets  *)
(* begin: nothing waits for a function under way, not even logging out.    *)
(* Every request may be refused, and the answer of one that was carried    *)
(* out may be lost.                                                        *)
(***************************************************************************)
EXTENDS Naturals

CONSTANTS
    Customers,    \* those of the login form
    Jobs,         \* identities of functions under way
    Offers,       \* what reports offer: the ids of the options, the letters
                  \* of which are the same in every report, and those of them
                  \* that are free, whose tools ask for no confirmation
    Attempts,     \* how often the status of a scan is asked for
    MaxStarts,    \* bound on what the user begins
    MaxReports    \* bound on the reports of scans

None == "NONE"
Direct == "ACTIVATE_M_SINH_LOI"
Kinds == {"login", "scan", "select", "prepare", "submit", "answer"}

ASSUME ConstantsAssumption ==
    /\ None \notin Customers
    /\ Attempts \in Nat \ {0}
    /\ \A o \in Offers : o.free \subseteq o.options

VARIABLES
    id,         \* S.id
    ctx,        \* S.ctx: whose context, and how many writes it reflects
    radar,      \* S.radar
    modal,      \* what the sheet over the page shows
    open,       \* whether the pages are shown, and not the login form
    scanning,   \* whether the scanning indicator is shown
    page,       \* what the radar page shows
    job,        \* the functions under way
    version,    \* Core Banking: writes made for each customer
    latest,     \* agent: the latest report of each customer
    reports,    \* agent: reports so far
    drafts,     \* agent: options that wait for an answer
    answered,   \* agent: reports with an option that was answered
    unsettled,  \* customers for whom Core Banking may still carry out a write
                \* that the agent has given up
    starts,     \* what the user has begun
    missed,     \* history: the last write has no answer or no load, or one
                \* was made while the last load was under way
    strayed     \* history: which of ctx and radar was last assigned by a
                \* function that was under way when somebody logged out

shown == <<id, ctx, radar, modal, open, scanning, page>>
services == <<version, latest, reports, drafts, answered, unsettled>>
vars == <<id, ctx, radar, modal, open, scanning, page, job,
          version, latest, reports, drafts, answered, unsettled, starts, missed, strayed>>

NoContext == [of |-> None, version |-> 0]
NoReport == [of |-> None, number |-> 0, options |-> {}, free |-> {}]
Choice(report, option) == [report |-> report, option |-> option]
NoChoice == Choice(NoReport, None)

\* choice: the option a select or an answer is about; context and report: what
\* a load has been answered, or a scan has found; marks: what has happened
\* since it began, "stray" (somebody has logged out), "replaced" (radar has been
\* assigned) and "late" (a write was made since the load began).
Idle == [kind |-> "none", step |-> "idle", of |-> None, choice |-> NoChoice, yes |-> FALSE,
         attempt |-> 0, context |-> NoContext, report |-> NoReport, read |-> {},
         marks |-> {}]

\* A sheet has the marks of the function that showed it.
NoModal == [kind |-> "none", choice |-> NoChoice, title |-> NoChoice, marks |-> {}]
Form == [NoModal EXCEPT !.kind = "form"]
Sheet(kind, choice, title, marks) ==
    [kind |-> kind, choice |-> choice, title |-> title, marks |-> marks]

Stray(it) == "stray" \in it.marks

Init ==
    /\ id = None
    /\ ctx = NoContext
    /\ radar = NoReport
    /\ modal = NoModal
    /\ open = FALSE
    /\ scanning = FALSE
    /\ page = "empty"
    /\ job = [j \in Jobs |-> Idle]
    /\ version = [c \in Customers |-> 0]
    /\ latest = [c \in Customers |-> NoReport]
    /\ reports = 0
    /\ drafts = {}
    /\ answered = {}
    /\ unsettled = {}
    /\ starts = 0
    /\ missed = FALSE
    /\ strayed = {}

-----------------------------------------------------------------------------
(* What the user begins; the sheet covers the page while it is shown *)

Begin(j, new) ==
    /\ job[j] = Idle
    /\ starts < MaxStarts
    /\ job' = [job EXCEPT ![j] = new]
    /\ starts' = starts + 1
    /\ UNCHANGED <<services, missed, strayed>>

Asked(kind) == [Idle EXCEPT !.kind = kind, !.step = "asked", !.of = id]

\* The button is disabled until the function returns.
Login(j) ==
    /\ ~open /\ modal = NoModal
    /\ \A i \in Jobs : job[i].kind # "login"
    /\ \E c \in Customers : id' = c
    /\ Begin(j, [Asked("login") EXCEPT !.of = id'])
    /\ UNCHANGED <<ctx, radar, modal, open, scanning, page>>

\* Those of hit meet with what mark names.
Marked(hit, mark) ==
    [i \in Jobs |-> IF i \in hit THEN [job[i] EXCEPT !.marks = @ \cup {mark}] ELSE job[i]]

\* Mutant: the report is kept.
Logout_KeepsReport ==
    /\ open /\ modal = NoModal
    /\ id' = None /\ ctx' = NoContext
    /\ open' = FALSE
    /\ page' = "empty"
    /\ job' = Marked({j \in Jobs : job[j] # Idle}, "stray")
    /\ strayed' = {}
    /\ UNCHANGED <<radar, modal, scanning, services, starts, missed>>

\* From the account menu, a sheet that is closed.
Logout ==
    /\ open /\ modal = NoModal
    /\ id' = None /\ ctx' = NoContext /\ radar' = NoReport
    /\ open' = FALSE
    /\ page' = "empty"
    /\ job' = Marked({j \in Jobs : job[j] # Idle}, "stray")
    /\ strayed' = {}
    /\ UNCHANGED <<modal, scanning, services, starts, missed>>

Scan(j) ==
    /\ open /\ modal = NoModal
    /\ Begin(j, Asked("scan"))
    /\ scanning' = TRUE
    /\ page' = "hidden"
    /\ UNCHANGED <<id, ctx, radar, modal, open>>

\* selectRec; whose report it is decides whose selection it is.
Select(j) ==
    /\ open /\ modal = NoModal
    /\ page = "report"
    /\ \E o \in radar.options :
          Begin(j, [Asked("select") EXCEPT
                       !.choice = Choice(radar, o),
                       !.marks = IF "report" \in strayed THEN {"stray"} ELSE {}])
    /\ UNCHANGED shown

\* The forms to spend, to withdraw and to edit the profile, recurring events
\* and goals; the customer is the one of the moment of submission.
OpenForm ==
    /\ open /\ modal = NoModal
    /\ modal' = Form
    /\ UNCHANGED <<id, ctx, radar, open, scanning, page, job, services, starts, missed, strayed>>

CloseModal ==
    /\ modal # NoModal
    /\ modal' = NoModal
    /\ UNCHANGED <<id, ctx, radar, open, scanning, page, job, services, starts, missed, strayed>>

Submit(j) ==
    /\ modal = Form
    /\ Begin(j, Asked("submit"))
    /\ UNCHANGED shown

\* prepareMSinhLoi: a form too, the action of which belongs to no report.
Prepare(j) ==
    /\ modal = Form
    /\ LET own == [of |-> id, number |-> starts, options |-> {Direct}, free |-> {}]
       IN Begin(j, [Asked("prepare") EXCEPT !.choice = Choice(own, Direct)])
    /\ UNCHANGED shown

\* confirmAction; the sheet is shown over the login form too.
Confirm(j) ==
    /\ modal.kind = "confirm"
    /\ \E yes \in BOOLEAN :
          Begin(j, [Asked("answer") EXCEPT !.choice = modal.choice, !.yes = yes,
                                           !.marks = modal.marks \cap {"stray"}])
    /\ UNCHANGED shown

-----------------------------------------------------------------------------
(* Scans *)

At(j, kind, step) == job[j].kind = kind /\ job[j].step = step

Returns(j) == job' = [job EXCEPT ![j] = Idle]

\* A scan of the user or of the scheduler has completed.
Stored(report) ==
    /\ reports < MaxReports
    /\ reports' = reports + 1
    /\ latest' = [latest EXCEPT ![report.of] = report]

Report(c, offer) ==
    [of |-> c, number |-> reports + 1, options |-> offer.options, free |-> offer.free]

ScheduledScan ==
    /\ \E c \in Customers, offer \in Offers : Stored(Report(c, offer))
    /\ UNCHANGED <<shown, job, version, drafts, answered, unsettled, starts, missed, strayed>>

ScanStarted(j) ==
    /\ At(j, "scan", "asked")
    /\ job' = [job EXCEPT ![j].step = "running"]
    /\ UNCHANGED <<shown, services, starts, missed, strayed>>

ScanCompletes(j) ==
    /\ At(j, "scan", "running")
    /\ \E offer \in Offers :
          LET report == Report(job[j].of, offer)
          IN /\ Stored(report)
             /\ job' = [job EXCEPT ![j].step = "completed", ![j].report = report]
    /\ UNCHANGED <<shown, version, drafts, answered, unsettled, starts, missed, strayed>>

\* Mutant: the status is asked for until the scan has ended.
MoreAttempts_Always(j) == TRUE

MoreAttempts(j) == job[j].attempt + 1 < Attempts

StillRunning(j) ==
    /\ At(j, "scan", "running")
    /\ MoreAttempts(j)
    /\ job' = [job EXCEPT ![j].attempt = IF @ < Attempts THEN @ + 1 ELSE @]
    /\ UNCHANGED <<shown, services, starts, missed, strayed>>

\* Function j assigns those of ctx and radar.
Assigns(j, parts) ==
    strayed' = IF Stray(job[j]) THEN strayed \cup parts ELSE strayed \ parts

\* Function j returns, having assigned radar.
Replaces(j) ==
    job' = [Marked({i \in Jobs : job[i].kind = "select"}, "replaced") EXCEPT ![j] = Idle]

ShowReport(j) ==
    /\ At(j, "scan", "completed")
    /\ radar' = job[j].report
    /\ page' = "report"
    /\ scanning' = FALSE
    /\ Assigns(j, {"report"})
    /\ Replaces(j)
    /\ UNCHANGED <<id, ctx, modal, open, services, starts, missed>>

ShowError(j) ==
    /\ page' = "error"
    /\ scanning' = FALSE
    /\ Returns(j)
    /\ UNCHANGED <<id, ctx, radar, modal, open, services, starts, missed, strayed>>

GiveUp(j) == At(j, "scan", "running") /\ ~MoreAttempts(j) /\ ShowError(j)

\* A request is not answered, or the scan has failed.
ScanFails(j) == job[j].kind = "scan" /\ ShowError(j)

-----------------------------------------------------------------------------
(* load() *)

\* Function j, in jobs, loads the page; the customer is the one of the moment.
LoadsIn(jobs, j) ==
    job' = [jobs EXCEPT ![j].step = "loading", ![j].of = id]

ReadContext(j) ==
    LET c == job[j].of IN
    /\ job[j].step = "loading" /\ "context" \notin job[j].read
    /\ c # None
    /\ job' = [job EXCEPT ![j].read = @ \cup {"context"},
                          ![j].context = [of |-> c, version |-> version[c]]]
    /\ UNCHANGED <<shown, services, starts, missed, strayed>>

\* Without an answer there is no report.
ReadLatest(j) ==
    /\ job[j].step = "loading" /\ "latest" \notin job[j].read
    /\ \E report \in {NoReport} \cup (IF job[j].of = None THEN {} ELSE {latest[job[j].of]}) :
          job' = [job EXCEPT ![j].read = @ \cup {"latest"}, ![j].report = report]
    /\ UNCHANGED <<shown, services, starts, missed, strayed>>

\* The sheet after an answer: closed, or what a drawing or M-Sinh loi brought;
\* the latter renders the report first, which fails without one.
Closing(j) ==
    IF job[j].kind # "answer" THEN {modal}
    ELSE {NoModal}
         \cup (IF job[j].yes THEN {Sheet("notice", job[j].choice, NoChoice, job[j].marks)} ELSE {})
         \cup (IF job[j].yes /\ job[j].report = NoReport THEN {modal} ELSE {})

Loaded(j) ==
    /\ job[j].step = "loading" /\ job[j].read = {"context", "latest"}
    /\ ctx' = job[j].context
    /\ radar' = job[j].report
    /\ page' = IF radar' = NoReport THEN page ELSE "report"
    /\ modal' \in Closing(j)
    /\ missed' = ("late" \in job[j].marks)
    /\ Assigns(j, {"context", "report"})
    /\ Replaces(j)
    /\ UNCHANGED <<id, open, scanning, services, starts>>

\* The context is not answered: a toast, and all is left as it was.
LoadFails(j) ==
    /\ job[j].step = "loading"
    /\ missed' = TRUE
    /\ Returns(j)
    /\ UNCHANGED <<shown, services, starts, strayed>>

-----------------------------------------------------------------------------
(* Answers to the other requests *)

LoggedIn(j) ==
    /\ At(j, "login", "asked")
    /\ open' = TRUE
    /\ LoadsIn(job, j)
    /\ UNCHANGED <<id, ctx, radar, modal, scanning, page, services, starts, missed, strayed>>

\* A write for customer c; one that changes nothing leaves the version.
Writes(c) == version' \in {version, [version EXCEPT ![c] = @ + 1]}

\* The agent executes an action for customer c.  Core Banking may refuse, or
\* answer too late, and the agent does not tell the two apart.
Executes(c) ==
    \/ Writes(c) /\ UNCHANGED unsettled
    \/ UNCHANGED version /\ unsettled' = unsettled \cup {c}

\* The functions under way after this step's write, for which loads are late.
AfterWrite ==
    Marked({i \in Jobs : version' # version /\ job[i].step = "loading"}, "late")

\* Mutant: the option is looked up by its place.
Titled_First(choice) ==
    Choice(radar, CHOOSE o \in radar.options : TRUE)

\* recommendations.find, in the report that S.radar is by now.
Titled(choice) == Choice(radar, choice.option)

Choosing(j) == job[j].kind \in {"select", "prepare"} /\ job[j].step = "asked"

\* The draft replaces the one of another option of the report.  A free option
\* is executed at once, and if that fails the report can still be answered.
Drafted(choice) ==
    LET others == {d \in drafts : d.report # choice.report}
    IN /\ choice.report \notin answered
       /\ IF choice.option \in choice.report.free
          THEN /\ drafts' = others
               /\ answered' \in {answered, answered \cup {choice.report}}
               /\ Executes(choice.report.of)
          ELSE /\ drafts' = others \cup {choice}
               /\ UNCHANGED <<answered, version, unsettled>>

\* The sheet asks for a confirmation also of what was executed at once, and the
\* page is not loaded.  Without an option to show, an exception ends selectRec.
Prepared(j) ==
    LET choice == job[j].choice
        title == IF job[j].kind = "prepare" THEN choice ELSE Titled(choice)
    IN /\ Choosing(j)
       /\ Drafted(choice)
       /\ modal' = IF title.option \in title.report.options
                   THEN Sheet("confirm", choice, title, job[j].marks)
                   ELSE modal
       /\ missed' = (missed \/ version' # version)
       /\ job' = [AfterWrite EXCEPT ![j] = Idle]
       /\ UNCHANGED <<id, ctx, radar, open, scanning, page, latest, reports,
                      starts, strayed>>

PreparedUnheard(j) ==
    /\ Choosing(j)
    /\ Drafted(job[j].choice)
    /\ missed' = (missed \/ version' # version)
    /\ job' = [AfterWrite EXCEPT ![j] = Idle]
    /\ UNCHANGED <<shown, latest, reports, starts, strayed>>

\* The write of a form, or the answer to a draft; the execution of what is
\* confirmed may have failed, of which the page takes no notice.
Written(j) ==
    IF job[j].kind = "submit"
    THEN /\ Writes(job[j].of)
         /\ UNCHANGED <<drafts, answered, unsettled>>
    ELSE /\ job[j].choice \in drafts
         /\ drafts' = drafts \ {job[j].choice}
         /\ answered' = answered \cup {job[j].choice.report}
         /\ IF job[j].yes THEN Executes(job[j].choice.report.of)
            ELSE UNCHANGED <<version, unsettled>>

Writing(j) == job[j].kind \in {"submit", "answer"} /\ job[j].step = "asked"

\* Mutant: the page is not loaded again.
Applied_NoLoad(j) ==
    /\ Writing(j)
    /\ Written(j)
    /\ modal' = NoModal
    /\ job' = [AfterWrite EXCEPT ![j] = Idle]
    /\ UNCHANGED <<id, ctx, radar, open, scanning, page, latest, reports, starts, missed, strayed>>

\* A form is closed before the load, the confirmation after it.
Applied(j) ==
    /\ Writing(j)
    /\ Written(j)
    /\ modal' = IF job[j].kind = "submit" THEN NoModal ELSE modal
    /\ LoadsIn(AfterWrite, j)
    /\ UNCHANGED <<id, ctx, radar, open, scanning, page, latest, reports, starts, missed, strayed>>

AppliedUnheard(j) ==
    /\ Writing(j)
    /\ Written(j)
    /\ missed' = TRUE
    /\ job' = [AfterWrite EXCEPT ![j] = Idle]
    /\ UNCHANGED <<shown, latest, reports, starts, strayed>>

\* Core Banking carries out what the agent has reported as failed.
LandsLate ==
    /\ \E c \in unsettled :
          /\ version' = [version EXCEPT ![c] = @ + 1]
          /\ unsettled' = unsettled \ {c}
    /\ missed' = TRUE
    /\ job' = AfterWrite
    /\ UNCHANGED <<shown, latest, reports, drafts, answered, starts, strayed>>

\* Refused, or never received.
Refused(j) ==
    /\ job[j].kind \in {"login", "select", "prepare", "submit", "answer"}
    /\ job[j].step = "asked"
    /\ Returns(j)
    /\ UNCHANGED <<shown, services, starts, missed, strayed>>

-----------------------------------------------------------------------------
Next ==
    \/ Logout \/ OpenForm \/ CloseModal \/ ScheduledScan \/ LandsLate
    \/ \E j \in Jobs :
          \/ Login(j) \/ Scan(j) \/ Select(j) \/ Prepare(j) \/ Submit(j) \/ Confirm(j)
          \/ ScanStarted(j) \/ ScanCompletes(j) \/ StillRunning(j)
          \/ ShowReport(j) \/ GiveUp(j) \/ ScanFails(j)
          \/ ReadContext(j) \/ ReadLatest(j) \/ Loaded(j) \/ LoadFails(j)
          \/ LoggedIn(j) \/ Prepared(j) \/ PreparedUnheard(j)
          \/ Applied(j) \/ AppliedUnheard(j) \/ Refused(j)

Spec == Init /\ [][Next]_vars

\* A request is answered or fails, and a timer fires; that a scan ends is not
\* assumed.
Answered(j) ==
    \/ ScanStarted(j) \/ StillRunning(j) \/ ShowReport(j) \/ GiveUp(j)

FairSpec == Spec /\ \A j \in Jobs : WF_vars(Answered(j))

-----------------------------------------------------------------------------
(* Properties *)

\* What the front end keeps, and the option it asks a confirmation for, are of
\* the customer who is logged in, whatever was under way when another customer
\* logged out, except what such a function has itself assigned or shown since;
\* a selection from such a report and an answer to such a sheet belong to it.
OwnData ==
    open => /\ "context" \notin strayed => ctx.of \in {id, None}
            /\ "report" \notin strayed => radar.of \in {id, None}
            /\ ~Stray(modal) => modal.choice.report.of \in {id, None}

\* The customer confirms the option that the sheet describes, if radar was not
\* assigned nor the page left while the draft was prepared: the title comes from
\* the report at hand when the draft is answered, the action id from the report
\* at hand when the option was chosen, and option ids repeat.  The letter of the
\* option is the same in any case.
ConsentInformed ==
    modal.kind = "confirm" =>
        /\ modal.title.option = modal.choice.option
        /\ modal.marks = {} => modal.title = modal.choice

\* However writes and loads overlap, once none of them is under way the context
\* on the page reflects every write the customer has made, except after an
\* answer that was missed, a free option that was executed, a write that came
\* after it was reported as failed, or a load during which a write was made,
\* until the next load.
ContextCurrent ==
    open /\ ~missed /\ "context" \notin strayed
         /\ (\A j \in Jobs : job[j].kind \notin {"login", "submit", "answer"}) =>
        ctx = [of |-> id, version |-> version[id]]

\* However scans overlap with each other and with loads, the indicator of
\* scanning goes out, even if a scan never ends on the server, and once no scan
\* is under way the page shows a report or an error.
ScansEnd ==
    /\ []((\A j \in Jobs : job[j].kind # "scan") => ~scanning /\ page # "hidden")
    /\ scanning ~> ~scanning
=============================================================================
