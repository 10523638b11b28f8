# flow-doctor in TLA+

flow-doctor is a library that a Python program calls when something failed: it
drops repeats, asks an LLM for a diagnosis, tells people over several channels,
may restart a machine, and keeps a record of all of it in SQLite or DynamoDB.
This directory models the parts whose correctness depends on order,
concurrency, midnight, faults and crashes. Every definition is translated from
the code; `PROJECT.json` maps each one to its lines. Paths below are relative
to `flow_doctor/`.

Run a check with `tlc -config <cfg> <module>`, a proof with `tlapm <module>.tla`.

## 1. The system

| Part | State it keeps | Operations | Hard because |
|---|---|---|---|
| Report pipeline (`core/client.py`, `core/dedup.py`, `core/rate_limiter.py`) | tables reports, actions, decisions; `_last_dispatch_reason`; the notifiers' `resolution` | `report`, `notify_event`, `notify_success`, each also async in another thread | threads share one instance and one store and hold no lock; any store call may raise; a process may die after it stored and before it told |
| SQLite store (`storage/sqlite.py`) | the tables | one committed statement each | today is local, rows are UTC; no transaction spans two calls |
| DynamoDB store (`storage/dynamodb.py`) | one table a fleet shares, three secondary indexes | puts, read-modify-write increments, queries and scans of one page, one paged walk | indexes and replicas lag; the limit cuts before the filter; writers on many machines |
| Log handler (`core/handler.py`) | a bounded queue, a daemon worker, `logging`'s handler lock | `emit`, `_drain`, `shutdown`, `close` | the worker logs through the handler it serves; exit holds the lock |
| Diagnosis (`_run_diagnosis`, `diagnosis/`) | diagnosis rows, diagnoses and what they cost; `_in_diagnosis_streak_alert` | one attempt; the outage detector | limits are read before and paid after a slow call |
| Remediation (`remediation/`) | the gate's counters in memory; the audit table | `decide`, `execute` | acts on machines before it records that it did; several processes |
| GitHub notifier (`notify/github.py`) | `_recent_sends`, `_filed_by_fingerprint`; the tracker | collapse, search, read back, comment, count, create, label | separate requests, a search that lags, several processes |
| Fix pipeline (`fix/`) | a worktree, branches, pull requests, attempts | issue to pull request | partial failure after a push; the owner works in the same checkout |
| Startup (`client.py:266-478`) | the parts wired so far; a thread per `validate()` | the constructor; calls on what it left; `capture_logs` | abandoned calls run on; non-strict construction stops half way |
| Digest, S3 heartbeat, Telegram text, other notifiers, LLM providers, config, scrubber, signatures, otel | little | one service call or a pure function of text | mostly data |

**Interactions.** A host thread (or the handler's worker, or an
`asyncio.to_thread` worker) calls the pipeline on the instance the constructor
returned. The pipeline calls the store, then the diagnosis, then every notifier
in turn, issue filers first; a diagnosed report goes to the remediation gate
last. The outage detector calls the notifier loop itself. Log lines of all of
these come back to the handler. An issue the GitHub notifier labels starts the
fix pipeline in a CI job. Flows over one store see each other through the
cascade query, the dedup query and the cost cap.

What makes each part correct:

- *Pipeline*: a repeat is not delivered; a quiet flow is "saw N, alerted M" with
  a reason that is true; no page that is exempt is held back; every call returns.
- *Log handler*: what it took in is reported, in order, once; it does not hang
  the host and does not feed itself its own lines.
- *Diagnosis*: an outage is paged once and again every day; money and calls
  stay near their caps.
- *Remediation*: daily and per-failure limits hold for what reaches machines,
  and nothing reaches one without an audit row.
- *DynamoDB*: it answers what SQLite would, as soon as an index or a replica has
  caught up and a page is enough; counters are never invented.
- *GitHub*: a finding has one open issue as far as one thread at a time sends it,
  and its counter does not overstate.
- *Fix*: only what is in scope is published; an outcome tells the truth about
  what is left behind; the owner's checkout is never touched.
- *Startup*: it ends within its budget; a notifier that is checked and fails, or
  does not answer in time, is named by a warning (one that is not checked at all
  passes in silence); and a half-wired instance does not alert without limits.

## 2. Modules

| Module | What it is | Code |
|---|---|---|
| `StoreQueries` | the store's queries as operators over tables | `storage/sqlite.py` |
| `ReportPromise` | abstract: who may be paged about a report, and what rows and verdicts may say of it | (specification) |
| `FlowReport` | the three APIs, from call to return; implements `ReportPromise` | `client.py:935-1403`, `1808-2030`, `dedup.py`, `rate_limiter.py` |
| `LogPromise` | abstract: records are reported in order, none skipped, until sealed | (specification) |
| `LogHandler` | emit, queue, worker, shutdown, exit; implements `LogPromise` | `core/handler.py` |
| `Diagnosis` | an attempt, its caps, the outage detector | `client.py:1442-1664` |
| `Remediation` | gate, executor, audit trail | `remediation/`, `client.py:1768-1806` |
| `DynamoStore` | the DynamoDB table, its indexes and every call on it | `storage/dynamodb.py` |
| `TrackerPromise` | abstract: when a send may note, count, file or label an issue | (specification) |
| `GithubIssues` | `send()` request by request, over a tracker; implements `TrackerPromise` | `notify/github.py`, `dedup.py:192-231` |
| `FixPromise` | abstract: what auto-fix may publish and say | (specification) |
| `FixPipeline` | generate-fix from issue to pull request; implements `FixPromise` | `fix/` |
| `Startup` | constructor, preflight, calls on the result, log captures | `client.py:266-933`, `2083-2106`, `2264-2284` |
| `FlowReportProofs`, `LogHandlerProofs`, `DiagnosisProofs`, `RemediationProofs`, `GithubProofs`, `DynamoProofs`, `StartupProofs`, `FixPipelineProofs` | the theorems about each, and their inductive invariants | |
| `MC...` | an instance of each for TLC | |

`FlowReport` and `Diagnosis` extend `StoreQueries`; `DynamoStore` instantiates
it as `Sqlite`, so that each of its answers stands beside the one SQLite gives.
`FlowReport` sees a diagnosis as a category or none (`Diagnose`), which is what
`_run_diagnosis` guarantees since it never raises; `Diagnosis` sees the dispatch
of its own alert as one step.

**Granularity.** A step is one access to something threads or processes
share: a store statement, a read or write of a notifier object or a flag, a
send, a git command, an HTTP request, an LLM or AWS call. Python between two
such accesses is part of the later one (in `FixPipeline`, of the earlier one:
the gates that follow a command belong to it). `pc` says which access is next, `call` (or `case`,
`row`, `run`, `doing`) holds the locals of the Python frame. Tables are sequences in
commit order; a row id is a position.

**State and code in `FlowReport`.** `reports`, `actions` and `decisions` are the
tables; `lastReason` is `_last_dispatch_reason`; `resolution` the attribute
`_send_notifications` sets on a Telegram notifier; `call[t].todo` the notifiers
the loop has not reached, in the order of the code's stable sort
(`Before`); `call[t].tally` which of its counters are positive, all that
`_classify_dispatch` looks at. `delivered` is the world outside: messages a
channel has taken, each with the `answer` that came back, a target, the URL of an
issue, or none, which is a `send()` that returned nothing or raised after the
channel had accepted (`SendRefused`, `SendRaised`). The columns
`by` of a report and `sev` of an action are history variables for properties. A
call that is not a duplicate runs
`Call, FindNone, (CheckCascade), SaveReport, (Diagnose)`, then per notifier
`SkipNotifier`, `SuppressCascade` or `CheckBudget` with `Degrade` or
`(SetResolution), Send..., Save...`, and ends in `DecideDispatched`.
The remediation of a diagnosed report follows that step in the code and has a
module of its own; it raises nothing into the call.

**State and code in `LogHandler`.** Records are numbered as they are taken;
`Source` is who wrote one. `lock` is the handler's lock while the exit handlers
hold it: an ordinary `emit` takes and drops it within one step.
`logging.shutdown` and `logging.Handler.handle` are external and modelled from
how the handler is used.

**State and code in `DynamoStore`.** `rows` is the table; a row's fields are the
top-level attributes an index or a filter can see, `payload` and `count` what
the program keeps inside the JSON payload. `indexed` is what the three indexes
show (only items that have a key attribute), some time after the table; `stale[id]`
is what a lagging replica may still answer to `get_item`, which may also not find
the item (`MissItem`). A scan asks a replica too, and nothing bounds how far that
lags: it may answer any page of the table's rows (`Scan`). `First(S, n, order)` is
a page of a query; how many rows fill one varies from page to page.
`doing[t]` holds an increment between its read and its put, or a walk between
two pages. `done` and `raced` are history.

**State and code in `GithubIssues`.** `issues` is the tracker, `index` what the
search endpoint knows of each issue, `recent` and `filed` the notifier's two
memories (lists whose newest members `Trim` keeps), `call[t]` the frame of
`send()` with the issue it found and the count in the body it read. `home` puts
the threads on one instance or on two. The read-back takes three steps (table,
request, dropping a closed entry: `ReadBack`, `GetIssue`, `ForgetFiled`), and
filing takes two: between the POST (`Create`) and `_remember_filed` (`Remember`)
another thread of the instance finds nothing. `by`, `blind`, `noted`, `apart`,
`recurred` and `undisturbed` of an issue and `crossed` are history: who filed it,
whether a lookup of that send had failed, whether the instance was told, whether
any other send of the finding went through the instance meanwhile. `SendOf` is
what a frame amounts to in `TrackerPromise`, which knows nothing of searches,
memories and read-backs: it asked, noted its finding on an issue, or filed one and
was told so.

**State and code in `FixPipeline`.** `run[r]` holds the locals of
`generate_fix`; `trees` the owned worktrees: the paths `git apply` changed and
those a filter, a hook or the tests changed; `caller` the owner's checkout, with
a version per path in HEAD and in the working tree; `branches`, `pulls`,
`comments` and `attempts` what the world sees. `ReadFiles` is all that is read
before the model is asked, the issue's files and the test of each (`TestOf`), in
one step. `Reports` is the code's
"comment, then return", `Returns` a return without a comment or an exception
nobody catches. Every exit runs through `Leave`, the `finally` that removes the
worktree, except `Killed`.

**State and code in `Startup`.** `pc` is the statement of `__init__` that is
next, or how it ended; `wired` the parts that exist; `verdict[n]` what the
notifier's `validate()` came to, `"running"` while its thread lives, which may
be long after the join gave up, `"warned"` when it logged that it could not tell,
`"unchecked"` when it asked nothing: the class keeps the empty method of the base
(`NoCheck`), or `bypass`, FLOW_DOCTOR_SKIP_PREFLIGHT, is set. `Fail` is "raise if strict". `captures` and
`open` are the `capture_logs` contexts, `current` is `_log_handler`.

**Data.** Signatures, categories, failures and paths are model values; a scope
pattern is the path it admits. An LLM answer, a send, a playbook match, an issue
body and a patch are choices. Times are integer ticks; a day has `DayLen`
of them, `ZoneOffset` is local minus UTC.

**Faults.** Any store call may raise and a process may die between any two
steps, at most `MaxFaults` times in a behaviour. In the SQLite store a statement
commits by itself; a call that raised is taken not to have committed. Anything
sent to a service may be carried out without an answer: a message to a channel
(which is no fault of the budget in `FlowReport`, any send may end so), every
request that changes something at GitHub, a push.

## 3. What is checked

All bounds are `Max...` constants of the modules.

| Run | Instance | Shows |
|---|---|---|
| `report_one_thread` | one thread, 2 notifiers (Telegram configured before GitHub), 5 kinds of call, 2 calls, 3 instants: within the cooldown, at its end and past it, over a midnight; sends that lose their answer, 1 fault; 517k states | `OncePerWindow`: within a cooldown a signature is stored once. `DecisionMatchesStore`, `QuietMeansQuiet`, `RecipientsAccounted`: the decision trail against rows, deliveries and answers. `AlertNamesItsIssue`. `PagedOnce`: no page is repeated. `KeepsReportPromise`: refinement of `ReportPromise`. `EveryCallReturns` under fairness |
| `report_two_threads` | two threads of one instance, one notifier, 2 calls each, 2 days of one tick and no cooldown beyond the instant, 1 fault; 1.7M states, symmetric threads | `OnePerThreadPerWindow`: what dedup still promises when both threads race. `BudgetOverrunBounded`: alerts that a channel accepted and answered exceed the daily budget by one per other thread at most, and by one per thread for the fault |
| `report_cascade` | an upstream flow and its dependant, one call each: errors of two signatures and a warning; the dependant has an archive for warnings; 3 instants, inside the window, at its end and past it, and over a midnight; 1 fault; 889k states | `CascadeHasUpstream`; `KeepsReportPromise` with two flows, two threads and an archive |
| `log_handler` | 2 host threads, queue of 3, 6 records, 3 closes and the exit; 32k states | refinement of `LogPromise`, loss, order, feedback, `CloseReturns`, `TakenIsReported` under fairness |
| `diagnosis` | 2 flows, 4 attempts, 1 midnight, 1 store error; 940k states | `StreakPagedOnce`, `LlmBudgetBounded`, `CostOverrunBounded`, `AlertFlagOwned` |
| `remediation` | 2 processes, 4 kinds of failure, 2 decisions each, a midnight, a fault; 910k states | `EffectsAudited`, `DailyCapHeld`, `FailureCapHeld` |
| `fix_pipeline` | 2 runs over one checkout, one of them dry; 3 paths, 2 of them in scope and the third the test of both; 5 issues, 3 patches (one whose headers name more than git changes, one out of scope), residue that overlaps the patch; 1 edit or commit of the owner, 1 fault or kill; 3.0M states | `KeepsFixPromise`: refinement of `FixPromise`. `LeftoversTold`: rows, comments, exit codes and worktrees against branches and pull requests. `FixMatchesItsBase` |
| `github_issues` | 2 threads on one instance or two, 2 texts one of which restates the other, 3 sends, a memory of 2, any one request refused or carried out without an answer, issues closed and search answers of any age; 1.27M states, symmetric | `OneOpenPerInstance`: no second issue while the search lags. `CountHonest`: the counter, the comments and what happened. `KeepsTrackerPromise`: refinement of `TrackerPromise` |
| `dynamo_store` | 2 threads, 3 rows out of all seven entities and two flows, pages of 1 or 2 rows and walks of 2 pages, a midnight, 2 increments or walks, one walk at a time; 547k states, symmetric | `AnswersMatchSqlite`: every read against `StoreQueries`. `IncrementsCounted`, `WalkMissesNothing` under concurrent writes and lagging replicas |
| `startup` | 3 configured notifiers, one of them disabled and one without a check, or none checked; budget of 2 ticks, strict or not; 2 threads, 2 calls, 3 captures; 461k states | `PreflightHonest`, `AlertsLimited`, `CaptureInScope`; `StartupEnds` under fairness |
| `finding_dynamo_daily_cap` | `remediation` over the DynamoDB count, one process, no fault | violates `DailyCapHeld` (section 5) |
| `finding_dynamo_hidden_failure` | 2 reports of a flow | violates `RecentFailureSeen` (section 5) |

The type invariants of `FlowReport`, `Remediation` and `FixPipeline` are checked
by a run as well; all are proved (section 4).

**Why the bounds are enough.** Every hazard here is a race between two actors or
one fault against one actor, around one boundary (a midnight, a limit, a
cooldown, a full queue, the end of a page, a search index). So there are two
actors, one fault, limits of 1 to 3 so that two calls reach them, more records
than the queue holds, more rows than a page, and a
clock that crosses a midnight and the end of a cooldown. With a page of one row a
walk that began over two rows meets a third between its pages and the limit of
pages before the end. `report_one_thread` keeps the notifiers
that depend on each other, and `report_cascade` has the archive. `ZoneOffset` is 0
in every run: other zones are in the theorems only. Every action of every
module fires in some passing run. `report_one_thread` has no second thread
because what it checks is about one call and its faults; two threads break
`OncePerWindow` (section 5) and `AlertNamesItsIssue`, which no document promises
for shared notifiers. Each property has a mutant: a plausible bug of the code
under which the run fails.

**Fairness.** `FlowReport`: weak fairness of each thread's steps inside a call.
Sends and store calls have timeouts, so each returns or raises. `LogHandler`:
weak fairness of taking a record and of emitting; strong fairness of
`ReportDone`, since a report writes finitely many log lines before it
returns; weak fairness of `JoinReturns`, a join with a timeout. The host's own
calls, time and faults get none. A worker that waits for the lock is fair only
once the lock is free. `Startup`: weak fairness of the constructor's own steps and
of time, and none of `Validated`: that an endpoint answers is what the code may
not rely on. `DynamoStore`, `GithubIssues` and `FixPipeline` state none:
nothing in the code waits for an index to catch up, and the git and test commands of a fix
run have no timeout of their own that would bound the run, so a run that hangs is what the
code allows. The runs of these three and of `startup` end at their
bounds, so deadlock is not checked there.

## 4. What is proved

Every type invariant, every safety invariant the runs check and all four
refinements are theorems: TLAPS checks them for every value of the constants
that satisfies the named assumptions (`ClockAssumption`, `ConfigAssumption`,
`NotifierAssumption`, `HandlerAssumption`, `DiagnosisAssumption`,
`RemediationAssumption`, `GithubAssumption`, `DynamoAssumption`,
`StartupAssumption`, `FixAssumption`), so for every number of threads, flows,
notifiers, calls, rows, ticks and faults.

Where an assumption is more than a type: the set of threads is finite (a bound
counts it), in `Remediation` not empty either; a notifier that names an issue
neither files nor records one (`NotifierAssumption`: Telegram, GitHub and S3 are
three classes); only a report's item has a top-level `error_signature` and only
an action's an `action_type` (`DynamoAssumption`).

**Report pipeline** (`FlowReportProofs`).

- `TypeCorrect`: the types, with `Located`, a frame stays on the notifiers of
  its own instance.
- `DedupPerThread`: `OnePerThreadPerWindow`. The property speaks of stored
  reports only, and `SaveReport` stores without looking: it is not inductive.
  `DedupInv` adds what makes the insert safe. `Searched`: a thread between query
  and insert still has no report of its own in the window, since only it
  inserts reports that carry its name and it is not at the insert twice;
  the window only moves forward (`ReportsPast`, no report is from the future).
  `DedupOnce` reads `OncePerWindow` off the same invariant for one thread.
- `DecisionsBacked`, `EveryoneHeard`, `CascadesFounded`: from `TrailInv`. A
  decision is written from counters that only the frame holds, so the
  invariant says what a frame in the loop has earned: each counter stands for a
  row and, for "sent", a message (`Backed`), and each notifier the loop is done
  with and that wants the report has a row (`Heard`). Rows and messages are
  never removed and a report keeps its severity and cascade (`Grown`), so what
  one frame holds survives every step of another.
- `SilenceHonest`: `QuietMeansQuiet`. A suppressed report reached nobody; one
  recorded "delivery_failed" may have reached a channel whose answer was lost, and
  no other. `QuietInv` adds that while no store call failed a message about a
  report is counted, as sent if it was answered and as failed if not, or about to
  be, and that a report in its thread's hands is decided by nobody else except as
  the original of a repeat.
- `AlertsName`: `AlertNamesItsIssue`, if each flow is called by one thread, of
  issues whose filing was answered with their URL. The
  order of the loop carries it: from the first notifier that names an issue on,
  no filer is to come (`IssueLoop`), and a `resolution` was written by the frame
  that reads it, which is what two threads would break.
- `BudgetHolds`: `BudgetOverrunBounded` is about alerts, the limiter counts rows.
  `BudgetInv` bounds the rows plus the alerts cleared and not yet recorded;
  midnight only empties the first set. `Losses` leads from alerts to rows: those a
  channel accepted and answered are recorded as sent, about to be (`Unwritten`),
  or lost to a fault, which costs at most the threads of one flow (`Lost`).
- `NobodyPagedTwice`: `PagedOnce`, from `PageInv`. The property looks at a thread
  about to send, and the row that would tell it of an earlier send may be lost.
  `PageFrames` keeps what the thread itself knows: no notifier still to come in
  its loop has accepted the report, and one it is at has passed the gates (asked
  for the severity, and for cascades if it is one). `Origins` says of a message
  that it is about a stored report, and who sent it.
- `PromiseKept`: `KeepsReportPromise`, step by step. `SaveReport` is `File`, the
  sends are `Page`, or `Archive` while a repeat is recorded; a "sent" row is
  `Acknowledge`, a decision `Judge`, a fault `Falter`; all else stutters. The case
  that takes the invariants above is `Judge`: a report is judged once, "fired"
  means that a channel said it was paged and, until the first fault,
  "delivery_failed" that none said so, any other verdict that it reached none.
- `CallsAdvance`, `CallsGoOn`: the part of `EveryCallReturns` that is not about
  fairness. `StepsLeft` bounds the steps a call has to go: six for each notifier
  still to come, and those before the loop and after it. Every step of the call
  lowers it and no step of anybody else raises it, so no call loops; and a call
  inside the dedup query or the loop always has a next choice, for which the loop
  needs a least element among the notifiers to come (`Smallest`).

**Log handler** (`LogHandlerProofs`). `HandlerInvariant`: `HandlerInv`, from it
`TypeCorrect`. `QueueInOrder` says the queue holds exactly the numbers from the
one after the worker's up to the last taken, and after a close the first
sentinel sits at the place the numbering gives it, whatever stands behind. From
it follow `CloseLosesNothing`, `StormDoesNotFeedItself` (with `Counted`, which
accounts for the line the worker is about to log) and `HandlerKeepsPromise`,
the refinement: `Get`, the log lines and the joins are stutters, `Capture` is
`Take` or a stutter, the first sentinel is `Seal`.

**Diagnosis** (`DiagnosisProofs`).

- `TypeCorrect`; `DetectorNeverStuck`: `AlertFlagOwned`, inductive once `pc` and
  `alerting` are known to be functions (`FlagInv`); the case that matters is a
  store error while the alert is sent.
- `CostHolds`, `LlmBudgetHolds`: the budgets look at rows, and the rows come
  after the calls. `CostInv` adds the threads between check and row to the cost.
  For the LLM the chain is longer: what was asked is recorded, about to be, or
  lost to a fault (`AskedInv`, of every moment on, since midnight may fall
  anywhere), and what is asked or admitted fits the budget (`BudgetInv`).
- `OutagePaged`: `StreakPagedOnce`, if each flow is called by one thread and no
  store call raised. A thread that is deciding holds the newest row of its flow
  (`Answered`), so nobody adds to the run it counts; a run is paged or its last
  row is still being decided (`Complete`). With two threads the row of one may
  complete the run while the other's, newer, is looked at first: the outage is
  then not paged (section 5).

**Remediation** (`RemediationProofs`), all from `RemediationInv`.

- `AuditComplete`: `EffectsAudited`. `AuditInv` claims of every moment on, not
  only of the beginning, that effects are audited, about to be, or lost to a
  fault, which costs at most the threads of one process.
- `DailyCap`: `DailyCapHeld` over SQLite (over DynamoDB it is false, section 5).
  The gate counts rows, the limit is on effects: `AuditInv` from today's
  midnight turns one into the other, `CapInv` adds the threads already cleared.
- `FailureCap`: `FailureCapHeld`. The gate counts by the day of the decision and
  the effect comes after midnight; `DecisionInv` and `DoneInv` keep the count of
  the day the decision was taken on, done or granted.

**GitHub** (`GithubProofs`).

- `TypeCorrect`, with `TargetInv` and the tables' bound through `Trim`.
- `OneOpen`: `OneOpenPerInstance`, if the table has room for every fingerprint
  (`Roomy`); a smaller one forgets an issue the search may not show yet. Of the
  issues an instance was told of it counts those that are open and were filed
  while no other send of the finding went through it (`Firm`). `NewestInv`: such
  an issue is held in the table, or a later one was filed. `LookedInv`: a send
  past its read-back has seen that each of them is closed or followed by a later
  one, unless a lookup failed; a closed issue stays closed. `CrossInv`: of two
  overlapping sends each counts as crossed, so that none of the two is firm.
- `Counts`: `CountHonest`. `ReadInv` bounds the count a send has read and not
  yet patched, and makes it the body's while nobody comes between; `CommentInv`
  counts the sends between the comment and the patch.
- `TrackerKept`: `KeepsTrackerPromise`, under `Roomy` again. `File` is allowed by
  `LookedInv`, `Remember` is `Tell`, the bounds of `Count` are those of `CountInv`, and `RightInv` says
  that what the table holds or a search or read-back has found is an issue of the
  finding it is taken for, whatever part of the fingerprint the search matched.
  Lookups that succeed, collapsed searches and reindexing are stutters; one that
  fails is `Miss`.

**DynamoDB store** (`DynamoProofs`).

- `DynamoTypes`, `IncrementsNeverInvented`: types and `IncrementsCounted`, from
  `StoreInv`. A count is at most the increments completed (`done`), and so is
  what an increment in flight has read and what a replica may still answer;
  while a row was never raced, at most one increment is in flight and it has
  read the present count.
- `AnswersMatch`: `AnswersMatchSqlite`, a comparison of two sets of queries in
  one state; it needs `Attributes` (which entity carries which key) and that a
  partition no longer than a page is the page (`PageWhole`). Of a scan it says that
  any rows a replica answers with are SQLite's, and all of them if it has them.
- `WalkComplete`: `WalkMissesNothing` speaks of finished walks. `WalkInv` says of
  a walk under way that all it answers with is no older than the key it resumes
  at, and every outcome seen at its start is answered or older than that key.
  Keys do not change and rows do not leave an index (`WalkStays`), so arrivals do
  no harm. `Extreme` finds the last row of a page.

**Startup** (`StartupProofs`). `StartupTypes`, `NoFalseVerdict`,
`DegradedIsSilent`, `CaptureNests`: `TypeOK`, `PreflightHonest`, `AlertsLimited`,
`CaptureInScope`, all from `LifeInv`. Its `StartInv` says what is settled at each
place of the constructor: every notifier before `next` is `Known` (named by a
warning, or its credential is good, or it is one that is not checked), or is the one being joined, which a list
that names a notifier twice makes necessary; and which parts are wired by then.
`CaptureInv` says that an open context remembers the youngest of the older open
ones: closing the youngest then restores the right handler. `ConstructorBounded` is
the safety part of `StartupEnds`: `ToGo`, four steps for each entry of the
notify list, six for the parts and what is left of the budget, is lowered by
every step of the constructor and every tick of the clock, and raised by
nothing, also not by a `validate()` that answers late.

**Fix pipeline** (`FixPipelineProofs`).

- `FixTypes`, `Leftovers`, `FixBase` and `PipelineKeepsPromise`: `FixPipeline`'s
  `TypeOK`, `LeftoversTold`, `FixMatchesItsBase` and `KeepsFixPromise`, all from
  `FixInv`, which says of each run, in three parts, what its place implies.
  `Outcomes`: nothing is published before `push`, and whatever passed the scope
  guard stays in scope, which carries the guard's answer over the five commands
  that follow it to the branch; "skipped" and "created" are said only with
  nothing published, or with branch and pull request there. `Told`: a row or a
  comment exists only at places where it is true. `Based`: as long as the
  owner's edit count has not moved since the read, the working tree is what was
  read, and after the dirty check HEAD is the working tree on the inventory;
  `CreateWorktree` turns this into `Faithful`, a fact about two snapshots that no
  later edit can touch. For the refinement all steps are stutters but the push
  (`Publish`), the pull request (`OpenPull`) and the two ends of a run.

**Only model-checked**: liveness (`EveryCallReturns`, `CloseReturns`,
`TakenIsReported`, `StartupEnds`), since fairness reasoning needs ENABLED, which
is out of this prover's reach; of the first, `CallsAdvance` and `CallsGoOn` prove
what does not need it, of the last `ConstructorBounded`. No module uses a RECURSIVE operator. The
library's induction theorems take an operator as a parameter and cannot be
used; where a proof needs more than the step of a behaviour (the newest row of a
page, the first row of a run, what a filter keeps) it takes a least
counterexample (`Least`, `Extreme`, `Smallest`, from the well-foundedness of strict
inclusion or of `<`) or states the run of the fold (`Runs`).

## 5. Where code and documents disagree

Two have a run that finds the behaviour; `PROJECT.json` quotes the lines.

1. `finding_dynamo_daily_cap`: over DynamoDB the daily limit on remediations
   counts zero for ever, because the filter names an attribute the items keep
   inside their payload.
2. `finding_dynamo_hidden_failure`: `has_recent_failure` over DynamoDB looks at
   one row, the oldest of the flow, and filters afterwards: a warning, an
   action or a decision stored before the failure hides it.

The others were met while modelling; the models behave like the code, and the
properties above are stated so that they hold for it.

- `notify_success()` never updates `last_dispatch_reason()`, whose docstring
  includes it (`client.py:1095-1096`, `1005`).
- The ERROR line at the first degraded alert of a day is lost when exempt pages
  pushed the count past the limit: `today_count == limit` is then never true
  (`rate_limiter.py:132-135`, `152`).
- Budgets documented as UTC days (`base.py:64`) are counted from the host's local
  midnight (`sqlite.py:373`).
- At interpreter exit the closing thread joins the worker with the lock held that
  the worker's next log line needs; 5 seconds and the rest of the queue are lost
  (`handler.py:125-130`). `CloseReturns` holds by the timeout only.
- Two failed attempts of one flow committed together step over "exactly N", and
  the outage is not paged (`client.py:1580-1602`).
- `commit_and_push` says test residue never rides the fix
  (`pr_creator.py:101-104`). It stages by path: what the tests wrote into a file
  of the inventory is committed with the patch (`residue` of a branch).
- `_bump_occurrences` takes it that the recurrence comment is there
  (`github.py:452-454`); `send()` ignores whether it was posted.
- A notifier without a check of its own (`notify/base.py:164-173`), or any under
  FLOW_DOCTOR_SKIP_PREFLIGHT (`github.py:119`, `s3.py:184`), passes preflight like
  one that was validated, without a warning. `PreflightHonest` is about the others.
- East of UTC the limiter's cut, local midnight compared with UTC stamps, lies in
  the future between local and UTC midnight: nothing counts (`sqlite.py:373`).
- A message that a channel took while its answer was lost is recorded "failed"
  (`telegram.py:205-217`), an issue so filed is named by no alert, and the next
  occurrence may be delivered again. No document promises otherwise.
- `NoFeedback` covers what `handler.py:73-81` covers, flow-doctor's loggers and its
  LLM call. Lines of a notifier's HTTP library are taken in like the host's.
- Overlapping `capture_logs` contexts of two threads restore each other's
  handlers (`client.py:2099-2106`); a removed handler may stay in force.
- Degraded mode is described as "no notifiers" (`client.py:272-273`); a failure
  after `client.py:312` leaves them wired. `AlertsLimited` shows that nothing is
  sent through them before the limiter exists; from then on the instance alerts
  although it is not healthy.

Two concurrent first reports of one signature are both delivered: the code takes
no lock, and the repository's README states the dedup rule without threads.
`OncePerWindow` is therefore claimed for one thread, and
`OnePerThreadPerWindow` is what remains. For the same reason two processes that
share nothing but the search may each file an issue, and so may two threads of one
instance: one's search and read-back fall between the other's POST and its
`_remember_filed` (`github.py:227-239`), or it drops the entry another has just put
in the place of a closed one (`github.py:328-359`). `OneOpenPerInstance` counts the
issues filed while no other send of their finding went through the instance.

## 6. Not modelled

Signature normalisation, scrubbing, message layout, truncation, config validation, prompt
assembly, provenance, OpenTelemetry and the test recorder are functions of text
or of a fixed config, better tested than model-checked. Slack, e-mail, web
push and S3 are one request each; the pipeline sees `send` accepted, refused or
raised, the last two with or without the message having arrived. The heartbeat is one put. LLM providers are an answer or an error.

In the modelled parts: the deploy-drift rewriting of a diagnosis, the
remediation's Telegram message, schema migration and read-only reporting
(`history`, `status`, `log_summary`) are left out; none changes state a property
reads. In `FixPipeline` a glob is the set of paths it matches, quoting and
header syntax are a patch's two readings (`git`, `headers`), and the Telegram
ping and the labels of a pull request are part of the step before them. In
`DynamoStore` the table exists; `create_table` and item size limits are not
modelled, and all three indexes take a row over at once.

## 7. What could come next

1. `Remediation`: an abstract audit trail as a refinement, which states for all
   playbooks at once what `EffectsAudited` says of each moment.
2. Composition: `FlowReport` with `Diagnosis` in place of the choice in
   `Diagnose`, so that the detector's alert runs through the notifier loop; and
   the store as a constant of `FlowReport`, as `Backend` is one of `Remediation`,
   with `DynamoStore`'s reads as the second choice.
3. What the theorems of section 4 ask for as hypotheses: `OneOpen` for a table
   smaller than the set of fingerprints, with the entries `Trim` dropped counted;
   a bound on unpaged outages for several threads per flow.
4. Telegram truncation and S3 keys as operators over small inputs, against
   reference definitions.

A new run takes the place of a finding once fixed, or of `report_cascade`,
merged into `report_two_threads`.
