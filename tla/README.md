# Verification of GrowthSent

GrowthSent audits websites.  A request puts a crawl job into a durable queue in
MongoDB, serverless invocations work the queue off under leases, and a data
plane of Durable Objects and containers reads the Common Crawl archive in long
batch runs.  None of its processes lives long enough to hold a lock: everything
that has to be true of the system is held together by conditional updates,
leases that expire, and tasks that are repeated.  That is what the modules here
model, what TLC checks on small instances, and what TLAPS proves for every
instance.  Around this core stands the rest of the product, from sign-in to the
printed report; its modules model each part's own concurrency, faults and
limits.

Run a configuration with `tlc -config AuditJobs_site.cfg MCAuditJobs.tla`, and
check the proofs with `tlapm AuditJobsProofs.tla`.  `PROJECT.json` lists the
runs, the source lines each definition stands for, the hazards and the theorems.

## 1. The system

### 1.1 Components with state and concurrency

**Durable audit jobs** (`lib/services/audit.service.ts`,
`lib/jobs/crawl-admission.ts`).
*State:* `crawlJobs` (status, attempts, leaseId, leaseExpiresAt, nextAttemptAt),
`crawlAdmission` (one document per active claim, quota window, target cooldown,
and one queue document with `activeCount`), the audit lease on `websites`, and
the results in `scans`, `pages`, `issues` and `seoIssueHistory`.
*Operations:* createCrawlJob (authorise, admit in one transaction),
claimCrawlJob, the website lease, heartbeat, persistResults in one transaction
behind a lease fence, markAttemptFailed, deferForCommonCrawlAdmission,
releaseCrawlAdmission, and the deletions in `lib/websites/service.ts` and
`lib/auth/user.ts`.
*Hard:* every invocation may stop anywhere, lose its lease and go on, or learn
late that a commit had taken effect; releases follow failures in operations of
their own; deletions cut across everything; a TTL index deletes admission
documents behind the code's back.
*Correct when:* capacity is never given twice, one actor has one open audit per
target, attempts bound crawls, what has ended stays so, a result is stored
exactly with its job's completion, the issue history of a site is never
rewritten from an older crawl, and every job finally gets a result.

**Immediate dispatch and scheduler** (`lib/jobs/immediate-audit.ts`,
`runner.ts`, `cron-worker.ts`).  After the response to a request an invocation
processes the new job by name if one of three leased execution slots is free;
every minute a scheduler call claims the oldest due job.  The slot lease (five
minutes) is not renewed.  Correct when a dispatch that is refused or dies costs
nothing but time.

**Archive admission** (`lib/crawler/common-crawl-admission.ts`).  A retrieval
from the archive takes a lease on its requester's document and one on a global
slot; nothing renews them; the retrieval's own deadline has to be shorter.
Correct when there are never more than two retrievals at a time, and one per
requester.

**Legacy scans** (`lib/scans/service.ts`).  The same lease protocol as the audit
jobs without admission and website lease, on `scans`.  The scheduler does not
reach it any more (`runner.ts`); it is still reachable by id.

**Shared backlink protection** (`lib/backlinks/shared-protection.ts`).  A quota
document per user and minute, and a cache entry that is leased to one loader for
12 seconds and then readable for 60.  Correct when no loader publishes over its
successor and no reader gets an expired entry.

**Issue lifecycle** (`syncIssueLifecycle` in `audit.service.ts`,
`lib/services/issue.service.ts`).  Issues become ongoing, resolved, reopened or
new as audits of a site are published, and a user resolves them by hand in
between.

**Crawler, fetcher and archive reader** (`lib/crawler/`).  A breadth-first crawl
in parallel batches with limits on pages, depth and queue, robots rules and a
sitemap seed; each fetch follows redirects under the address rules, pinned to
the address it has validated; the archive reader takes records with two workers
under one deadline and shared byte budgets.  Correct when no connection leaves
the public network, a crawl has every page it could reach once, and a retried
or late answer never takes another record's place.

**Accounts and integrations** (`lib/auth/`, `lib/websites/service.ts`,
`lib/integrations/google.ts`).  Sessions, OAuth states bound to a browser, users
found by subject or address, websites, stored tokens and their refresh, caches
per instance with loads in flight.  Every handler reads before it writes, and
nothing but two deletions is a transaction.  Correct when what is deleted stays
out, racing sign-ins end in one account, a state is used once, and a late refresh
never reaches a newer connection.

**API gate** (`api/`, `lib/api/router.ts`, `lib/ratelimit/limiter.ts`).  One
instance: the memoised provisioning of indexes, the shared connection, the rate
limiter's window, and per route the order of its checks, while accounts are
deleted in between.  Correct when nothing is served before the indexes are
there, and a website's data goes to its owner.

**Console** (`src/src/App.tsx`, `src/src/components/dashboard/`).  One page with
handlers suspended at their awaits, a list and a selection, polls on intervals,
and panels whose answers come in any order.

**Link index reads** (`lib/backlinks/`, `workers/`, `apps/`).  Immutable tables,
read through workers that rank rows in a bounded heap, JSON files that may appear
between two answers, and the worker's response cache.  Correct when pages have the
scores of the best rows, row by row, and a report's answers tell of one index.  Rows
of equal scores have no order of their own anywhere.

**Regional ramp** (`deployment/common-crawl-cloudflare-r2-standard1-regional-ramp`).
One lane is a coordinator Durable Object with one durable record, woken by
alarms; it polls the tasks in flight, each in a fixed container slot with a
runner that executes one task at a time, and starts the next.  A task's output is
an immutable R2 prefix that ends with a completion marker.
*State:* the coordinator's record (`state`, `next_local_task_number`, `in_flight`,
`retry`, counts, `terminal_failure`), each slot's launch and terminal records,
its container and runner, the prefixes.
*Hard:* the coordinator awaits slot after slot and writes its record once at the
end, so a restart or an operator's repair in between meets an old record; a
status read or a start answer may be lost; containers stop and restart; slots are
reused; a prefix with payload and no marker can neither be reused nor rewritten.
*Correct when:* no task is lost, none is reported as completed without its
marker, slots are not oversubscribed, a task given up stays so, and a lane ends.

**Regional start admission**
(`...hundred-thousand-self-recovery/src/admission.ts`).  Paces container starts
of all lanes of a placement group, with exponential backoff.

**One-shot launches and JSON builds** (`...10-wat-canary`, `...standard1-benchmark`,
`workers/growthsent-domain-json`).  Durable objects that start one container, for
ever once; a queue consumer that starts a bucket's build in a shared container
and polls a status that says whose it is to nobody.

**WAT ingestion** (`tools/common_crawl_wat_ingest_gcp_25k.py`,
`tools/common_crawl_backlink_derive_gcp_25k.py`).  Batch workers lease a shard by
conditional object writes (ETag) and publish parts before a marker.  Not modelled.

### 1.2 Components without

The SEO rules and the score, the readiness checks, the reports on search and
traffic and the printed audit are functions of what was fetched.  They are
modelled where the function joins answers of requests that run together and may
fail, or has a boundary a test hardly meets (`SiteScore`, `AiReadiness`,
`SearchReports`, `TrafficSummary`, `AuditReport`).  Administration, command line,
dataset builders and verifiers, operator scripts, the monitoring engine and the
dormant scaffold under `src/modules` are listed in `PROJECT.json` with the reason
for leaving each out.

### 1.3 How they interact

```
 request -> API -> AuditJobs.Admit --(after())--> immediate dispatch --+
                                                                       v
 scheduler, every minute ---------> FindNext ----------------> Claim, attempt
                                                                       |
          website lease <---- one audit per site ----------------------+
          archive admission <-- jobs read from the archive ------------+
          fetch and crawl, analyse, publish in one transaction --------+
 deletion of a website or an account --> jobs, results, leases

 regional ramp: alarm -> status of each slot -> startTask -> runner -> R2 prefix
                start admission <-- each slot before it starts its container
                operator -> quarantineStaleInFlightTasks -> the same record
```

The application and the data plane share no state at run time; the artifacts of
the second are read-only inputs of the first.  The services share documents only
where `AuditJobs` has them: the claims and the queue counter of the admission
transaction, the website lease, the results.  That is why the modules of the
others can be checked one by one.

## 2. The modules

| Module | Models |
| --- | --- |
| `AuditJobs` | the audit queue: admission, leases, attempts, publication, release, deletion |
| `AuditQueue` | what that queue promises: the abstract specification |
| `MCAuditJobs` | the requests and the symmetry of its runs |
| `AuditJobsProofs` | its theorems on types, capacity, attempts, takeovers, claims and results, and the refinement of `AuditQueue` |
| `CommonCrawlAdmission` | the archive admission, with a clock |
| `RegionalRamp`, `RegionalRampProofs` | one lane of the regional ramp, and its theorems |
| `CrawlAdmission` | the admission transaction taken apart: reads, conflicts, repetitions, quota, cooldown |
| `ImmediateSlots` | the leased execution slots of immediate audits |
| `SharedBacklinks` | the persistent quota and the leased cache entry of backlink reads |
| `Scans` | the legacy scans, a second implementation of `AuditQueue` |
| `IssueLifecycle` | the history of a site's issues under publication and resolution by hand |
| `ServicesProofs` | the theorems of the last four and of the two admissions |
| `PageFetch`, `SiteCrawl`, `ArchiveRead` | one fetch, one crawl, one archive retrieval |
| `MCServices` | the instance of these nine, one per behaviour |
| `Accounts` | sessions, sign-in, accounts, websites, events |
| `GoogleIntegration` | a website's connection to Google, its tokens, caches and loads |
| `ApiGate` | provisioning, rate limit, and the checks of every route |
| `ApiProofs` | the theorems of these three |
| `Dashboard`, `ConsolePanels` | the console page; one of its panels |
| `TopRows` | ranking rows under a memory limit |
| `LinkReads`, `LinkReports`, `BacklinkSample` | paging, reporting and sampling links |
| `LinkWorker`, `Links` | the limits the first two share; the three together |
| `LinkProofs` | the theorem of the links |
| `SiteScore`, `AiReadiness`, `Claims` | what an audit claims of a site, and the two together |
| `SearchReports`, `TrafficSummary`, `AuditReport` | reports on search and traffic; the PDF's layout |
| `StartAdmission`, `OneShotLaunch`, `DomainJsonBuild`, `Fleet` | what starts the batch work, and the three together |
| `PlatformProofs` | the theorems of the console, the fetcher, the archive reader and of what starts the batch work |
| `ContentProofs` | the theorems of the crawl and of what an audit claims |
| `Lists`, `ListTheorems` | operators on sequences that the modules share, and what is proved of them |
| `SmallInputs` | every input the two instances enumerate |
| `MCPlatform` | the instance of the seventeen components listed since `MCServices`, one per behaviour |

### 2.1 AuditJobs

One variable per field that the protocol reads: `status`, `attempts`, `lease`,
`leaseLive`, `delayed` are columns of `crawlJobs` by job; `claim` and
`activeCount` are the admission documents; `sites`, `siteLease`, `siteLive`,
`users` the documents of that name; `published` the jobs whose results are
stored.  `pc` and `at` say where an invocation stands between two database
operations.  `crawls` and `overtaken` are history: no action reads them.

Every action is one MongoDB operation or one transaction.  Those of the code's
functions that make several operations are several actions with a `pc` between
them: `claimCrawlJob` is Claim, TakeSiteLease or MissSiteLease, CheckSite and
RequeueSiteBusy or FailSiteGone; `markAttemptFailed` is MarkRetry, or MarkFailed
followed by ReleaseClaim and ReleaseSlot.  `persistResults` is the one action
Publish, because the code runs it as one transaction; its commit may be reported
as a failure although it took effect, and then the invocation goes on as after a
failure.

Deadlines are Booleans (`leaseLive`, `siteLive`, `delayed`) that actions of their
own let pass at any moment: the model has every timing, also those in which an
invocation pauses past its lease and comes back.  A worker is a lease id; after
an invocation ends, the id may be drawn again once no document carries it, which
is what a fresh random id amounts to.

Left out: the hourly quota and the target cooldown (they refuse a request, and Refuse
may happen at any time; `CrawlAdmission` has them), the rules that order the queue
beyond the oldest due job, the content of results.

### 2.2 AuditQueue

Jobs enter a bounded set with one open job per key, end once, completed or
failed, and may be deleted.  `ImplementsQueue` is the refinement: a job is open
while it is queued, crawling or analysing, and its key is its actor and target.
Leases, retries, releases and crashes are stuttering steps.

### 2.3 CommonCrawlAdmission

Here safety is a matter of time, so the module has a clock: `leaseLeft[d]` is what
remains of the lease in document d, `elapsed` the time a call has spent since its
first lease or in its retrieval, and LeasesTick lets time pass while nobody has
reached a bound.  The retrieval's bound (`Deadline`) is in the code.  That little time
(`SetupTime`) passes between the first lease and the start of the retrieval is an
assumption: two database operations lie in between, and the driver is configured
with timeouts for connecting and for selecting a server only
(`lib/db/mongodb.ts:37`).  A retrieval ends at its deadline here; that requests it
had under way are aborted with it is taken from the provider.

### 2.4 RegionalRamp

`record` is the coordinator's durable record, `alarm` the alarm handler between
its reading and its writing of that record, `slot[s]` a container with its
runner, launch record and terminal record, `prefix` R2.  Counts of tasks are sets
here, so that the properties can ask which ones.

An alarm snapshots the record (AlarmFires), polls (PollUnreachable, PollFailure
or PollQuiet), and starts a task (StartReconciled, StartDeferred, or StartBegins
and then StartRuns or StartFails in the slot).  The poll of all slots is one
step: each slot is read once, a slot's own steps commute with the reads of other
slots, and what the poll finds is what some instant shows.  A call of startTask
may outlive the coordinator's wait for it, when the wait is limited, throws or ends
with the coordinator: it stays in `asked` of its slot if it has not written its
launch record yet, and may still do so (LeavesCall, AbandonedStart), and in `calls`
after that.

The operator's quarantineStaleInFlightTasks is three actions, because it reads the
record, asks slot after slot and writes (RepairReads, RepairAsks, RepairWrites); an
alarm may run in between, and the other way round.

`forgotten` is history: the tasks whose waiting retry another task's failure has
replaced (Replaces), which is the one way in which a task is lost.

Faults of every kind (unreadable status, lost answer, container stop, refused
start, failed upload, coordinator restart) are bounded together by `MaxFaults`,
and `Crashes`, `Restarts`, `SlowCalls`, `Guarded` switch kinds off.

Left out: the delays between retries (a retry is due whenever the alarm fires),
the counter that only sets the delay of a reconciliation, the difference between
a container that runs and one whose recorded state says so, and the functions
resumeInterruptedTask and resumeQuarantinedPartialTask, which are unreachable:
the failure classes they ask for are taken by the retry and quarantine cases
that the alarm tests first.

### 2.5 The services (MCServices)

`CrawlAdmission` opens the step that `AuditJobs` takes as one: a request reads quota,
target, claim and queue under its transaction's snapshot with the time taken before the
first try, and commits if nothing it wrote was written meanwhile. A conflict repeats
it.  `AdmitsAtomically` says that a commit does what one uninterrupted admission would
do.  `ImmediateSlots` has a clock.  Nobody renews a slot's lease of five minutes, so the
limit on audits rests on the platform, which ends an invocation after a time that is set
outside the code.  Run and theorem assume that this time is shorter than the lease
(`Duration < SlotLease`); with a longer one an audit would go on beside the next holder
of its slot.  `SharedBacklinks` splits the quota into its conditional increment, its
insertion and its second increment, and the cache into lease, load and publication. 
`Scans` is the older lease protocol; its refinement mapping to `AuditQueue` is that of
the audit jobs with every scan its own key. `IssueLifecycle` keeps what publications and
users have said of each issue as history, against which the records are compared.

### 2.6 Accounts, integrations and the API

In `Accounts` and `GoogleIntegration` a request is a slot with a program counter,
one action per database operation, and requests of any kind interleave.  The
constant `Indexed` says whether an operator has provisioned the unique indexes; the
run has them.  An instance keeps one report for each website and kind, a full report
of the provider and the search intelligence, each in a cache of its own; only the
intelligence lets a second call join the load in flight.

`ApiGate` describes a route by the sequence of its checks, translated route by
route from `router.ts`, and runs requests through them: a check reads what is
there at that moment, and the account may be gone at the next.  The start and the
callback of a sign-in, signing out and the callback of an integration are routes like the
others.  A request without a session cookie is refused without a wait for the database.
What a route does not catch is answered 500, as where a website has no connection to
Google or an event is of a website that is gone; 200 stands for every success.

### 2.7 The console

A React callback up to its next await is one action; the answers to requests in
flight come in any order.  Interval handles are the set `live` and the reference
that names one of them.  `ConsolePanels` runs four ways of handling a late
answer, as the panels do.

### 2.8 Links

`TopRows` reads column chunks in any order into a heap of `offset + limit` rows.

Links are numbers of rows in a table of scores, best first.  Nothing in the code
orders rows of one score, so `Rankings` has every order of them: the JSON of a
domain is in one, every reading of the table in another, and the older worker keeps
of equal rows those that arrive first.  Pages of one walk may come from several.
Shares are in hundredths, rounded as `toFixed(2)` does, either way on a tie
(`Hundredths`).

`LinkReads` follows one client through the pages of a domain while a cache entry,
a JSON file and the table serve it.  `LinkReports` lets the answers of a report
come from different sources.  `BacklinkSample` has overlapping requests share a
bounded cache.  An index that `LinkReports` may have counts the same links in all its
tables, as the job that materializes them does
(`tools/common_crawl_link_index_materialize_v1.py:370`): the links of the top pages
are no more than all, and a domain that is not in the summary is in no table.
The third worker (`apps/link-intelligence-worker`), one unordered SELECT per domain
behind a cache of one answer, is not modelled.

### 2.9 Fetching, crawling, claims and reports

Hosts, pages and records are small values; addresses are octets or groups, because the
reserved blocks of IPv4 and IPv6 (local, private, documentation, discard, multicast, and
those that carry an IPv4 address) are compared bit by bit.  `SiteCrawl` fetches a batch
in any order and queues its links in the batch's order.  `ArchiveRead` counts a chunk
when it arrives, whichever of two workers and whichever attempt asked for it. 
`SiteScore` takes the results of a crawl one by one into `titles`, a sequence of groups
as the code's map has them, and into the list of issues, and scores them with the code's
weights and rounding.  `AiReadiness` has three workers that share a cursor ask for the
files of a site, any of which may fail, and weighs the checks that could be made.  Both
know what the site really has, so that a claim can be held against it.  `SearchReports`
fails any request of a report.  The lengths in `AuditReport` are points, and a text is
its number of lines.

### 2.10 Starting batch work

`StartAdmission` logs grants and reports as the object met them; lanes report
late, or never.  `OneShotLaunch` restarts the object at any await.
`DomainJsonBuild` is the consumer and one container of the pool, which a poll or a
run starts again when it has gone.

## 3. What is checked

Runs that pass:

| Run | Instance | Shows |
| --- | --- | --- |
| `site` | two jobs of one saved website, two invocations, two attempts, one fault, TTL, deletions | `CapacityCovered`, `HolderNotOvertaken`, `NoOrphanResult`, `PublishedWhenCompleted`, `NoLiveTakeover` |
| `claims` | three anonymous jobs for two claims and two queue slots, one kind read from the archive; two invocations, one fault | `TypeOK`, `CrawlsWithinAttempts`, `OneOpenPerClaim`, `TerminalIsFinal`, `ImplementsQueue` |
| `progress` | two jobs of one claim, three invocations, two attempts, lost leases | `SettledOrStranded`, `SlotsDrain` |
| `ramp_lane` | two slots, two tasks, three faults: crashes, restarts, lost answers, calls nobody waits for, an operator's repair | `TypeOK`, `AccountedFor`, `LaneSound`, `SettledStaysSettled` |
| `ramp_progress` | two slots, three tasks, two faults, credentials that elapse | `SlotsDistinct`, `LaneEnds` |
| `services` | three processes on one service: archive calls, admissions, dispatches, cached reads; two scans and two workers; four audits of two issues; one fetch, one crawl or one retrieval of every input | `GlobalLimit`, `OnePerRequester`, `LimitsHold`, `AdmitsAtomically`, `SlotLimit`, `ReadsBounded`, `RowsNeverOlder`, `ResultOfOneAttempt`, `ScansImplementQueue`, `HistoryIsTrue`, `FetchContained`, `CrawlReachesAll`, `ArchiveExact` |
| `platform` | one of seventeen components, with two or three processes and one or two faults | the properties of the next table |

A property of `platform`, and each of the last three of `services`, is about the
components named with it, and true of the behaviours of the others:

| Property | Of | Says |
| --- | --- | --- |
| `AccountsHold` | `Accounts` | a deleted account authenticates nobody who comes later; racing sign-ins end in one account; an OAuth state signs in once |
| `IntegrationsHold` | `GoogleIntegration` | stored tokens belong to this very connection; one load at a time, and no one waits for none |
| `GateHolds` | `ApiGate` | indexes before service, provisioned once; fewer than twice the limit in any time as long as a window; private data to its owner |
| `ConsoleHolds` | `Dashboard` | no interval is forgotten; the selected site is listed |
| `SettledShowsCurrent` | `ConsolePanels` | a link or backlink panel that has settled shows the domain it is asked about |
| `LinksServed` | `LinkReads`, `LinkReports`, `BacklinkSample` | pages with the scores of the best rows, row by row; reports as the index has it, shares to half a hundredth; honest samples |
| `FetchContained` | `PageFetch` | connections only to public addresses, tokens to no other host, bodies within the limit |
| `CrawlReachesAll` | `SiteCrawl` | no page twice, none that could be reached left out |
| `ArchiveExact` | `ArchiveRead` | records in their places, bytes within the budget |
| `ClaimsHold` | `SiteScore`, `AiReadiness` | nothing is claimed that was not seen; scores fall with issues and ignore what could not be observed |
| `ReportsTellTheData` | `TopRows`, `SearchReports`, `TrafficSummary`, `AuditReport` | the best rows; changes only between reported rows of adjoining periods; parts that add up; on paper no finding divided that fits a page |
| `FleetStarts` | `StartAdmission`, `OneShotLaunch`, `DomainJsonBuild` | grants spaced after failures; one start; one build per container |

Runs that end in a violation, each of which is a finding (section 5): `stranded`,
`delete_leak`, `ramp_lost_task`, `ramp_crash`, `ramp_repair`.

Every property of a passing run has a mutant in `PROJECT.json`: a plausible bug
in one definition (a fence that is dropped, a release that is forgotten, a
comparison that is off by one) under which the same run finds the property
violated.  The modules hold further ones beside the definitions they replace,
one or more for each component behind a joint property.

### Bounds, and why they are enough

*AuditJobs.*  Two jobs and two invocations are what the races take: the invocation
that lost its lease and the one that took the job over, or two jobs of one
website, one claim or one queue slot.  `claims` has a third job because a full
queue and a disputed claim take three; it has one attempt for each, and retries
are the subject of `site` and `progress`.  `MAX_ATTEMPTS` is 3 in the code and 2
there, which tells a first attempt from a last one.  `queueCap` is 25 and 2 here,
so that the queue does fill up.  `MaxFaults` bounds crashes and failed operations;
lost leases are not bounded.  `claims` has no TTL index, because with it the claim
of an open job may be deleted (section 5); `site` has it.  The theorems of section
4 do without these bounds.

*The services.*  Archive admission: a tick is 24 seconds, so the lease of two minutes is
5, the deadline of 90 seconds is rounded down to 3 and one tick is left for the set-up;
the run keeps `SetupTime + Deadline < LeaseTime`, the proofs' assumption.  Three calls
of two requesters compete for one slot: one is inside, one waits, one has lost its
lease.  Admission: three requests, of a user with a quota of 2 or a guest with 1, for
one target and a queue of 2, in windows of two ticks: every limit is met, and a window
may turn between the first try and its repetition. Dispatches, readers and processes are
three, the one overtaken, the one that overtook it, and the next.  Four audits with an
event limit of 4 make a history overflow.

*The platform.*  Two requests or handlers, the number at which each of the races above
happens, three where a limit takes one more (the rate limiter's window, builds and
launches with one client too many).  Tables have four to six rows and pages of one to
three, so that pages end inside, at and after the table and the JSON's rows, and equal
scores lie on both sides of a page's end.  Sites have five pages and depth 2, archives
three records, reports a few rows of two periods whose keys agree in part; addresses lie
on both sides of each reserved block's limits.  The rate limiter has two requests to a
window and a clock of three ticks, in which a window ends and the next one begins: a
burst of four requests on the health route meets both sides of that.  The scheduler's
route takes two requests, and a route of each other kind of check sequence one
(`GateWorkloads`): what a check must stand there is the deletion of the account and the
loss of the connection between two checks.  The remaining routes are definitions of
`ApiGate` made of the same checks.  Two jobs let the answer of one meet the poll of the
next in the console.  Scores are of one or two pages, the number at which a title can
repeat; readiness has the code's three workers. `SmallInputs` lists every input.

*RegionalRamp.*  Two slots are the number at which one task's failure meets another's
retry.  `ramp_lane` has two tasks and three faults of every kind but the credential
guard, which ends a lane early and is in `ramp_progress`: a retry is replaced, a start
is refused to it, a late start of it is found and moves the next task back.  The
second task starts beside the first or in its slot, as the first is still under way
or has been counted.  `ramp_progress` has a third task, one still to start while the
others are settled or retried, and two faults, enough for every pair of them.
Retries are limited to 3 of 12 starts and 2 of 3 runs, so that both limits are
reached within the faults.  The theorems of section 4 do without these bounds.

### Fairness

The services and the components of the platform are checked for safety only, so
they assume no fairness.

*AuditJobs* (`FairSpec`).  The scheduler calls the worker every minute
(`docs/deployment.md`), hence weak fairness of FindNext by some invocation; an
invocation that has not crashed goes on; delays pass; a lease that no invocation
renews runs out.  Requests, dispatches, lost heartbeats and deletions need never
happen.  The progress runs have targets that are fetched directly: nothing in the
code bounds how often the archive may defer a job, so a job that reads from it
may wait for ever.  They have no crash either, because a crash in the last attempt
strands the job; that is the finding `stranded`.  SettledOrStranded says what is
left of progress with it.

*RegionalRamp* (`FairSpec`).  The platform delivers alarms and calls, and a
runner's process ends, by its hard timeout at the latest.  The run `ramp_progress`
assumes that a startTask call, limited to 30 seconds, ends before a task that
another call started in the same slot has run to its end (`SlowCalls = FALSE`),
and excludes coordinator crashes and containers that restart by themselves,
because either one can stop a lane for ever (section 5).

## 4. What is proved

For any numbers of jobs, invocations, websites, actors, targets, tasks, slots and
requesters, and any limits:

| Theorem | Property |
| --- | --- |
| `AuditJobsProofs!TypeCorrect` | `TypeOK` |
| `AuditJobsProofs!TerminalStays` | `TerminalIsFinal` |
| `AuditJobsProofs!CapacityIsCovered` | `CapacityCovered` |
| `AuditJobsProofs!CrawlsAreBounded` | `CrawlsWithinAttempts` |
| `AuditJobsProofs!NoTakeover` | `NoLiveTakeover` |
| `AuditJobsProofs!ClaimsAreExclusive` | `OneOpenPerClaim`, where no TTL index removes claims |
| `AuditJobsProofs!ResultsMatchJobs` | `PublishedWhenCompleted` |
| `AuditJobsProofs!NoResultIsOrphaned` | `NoOrphanResult` |
| `AuditJobsProofs!ResultsAreInOrder` | `HolderNotOvertaken` |
| `AuditJobsProofs!QueueIsImplemented` | `ImplementsQueue`, where no TTL index removes claims |
| `ServicesProofs!TypeCorrect` | the type invariant of `CommonCrawlAdmission` |
| `ServicesProofs!RequestersAreSerial` | `OnePerRequester` |
| `ServicesProofs!GlobalLimitHolds` | `GlobalLimit` |
| `RegionalRampProofs!TypeCorrect` | `TypeOK` |
| `RegionalRampProofs!PoolNeverOversubscribed` | `SlotsDistinct` |
| `RegionalRampProofs!CountedHasMarker` | `CountedIsMarked` |
| `RegionalRampProofs!NoTaskIsLost` | `AccountedFor`: no task is lost but one whose waiting retry was replaced |
| `RegionalRampProofs!LaneReportsMarkers` | `LaneSound` |
| `RegionalRampProofs!SettledOnce` | `SettledStaysSettled` |
| `ServicesProofs!AdmissionLimits` | `LimitsHold` |
| `ServicesProofs!AdmissionIsAtomic` | `AdmitsAtomically` |
| `ServicesProofs!ResultsAreOfOneAttempt` | `ResultOfOneAttempt` |
| `ServicesProofs!CrawlsAreBounded` | `ScanCrawlsBounded` |
| `ServicesProofs!ScansAreAQueue` | `ScansImplementQueue` |
| `ServicesProofs!SlotsLimitAudits` | `SlotLimit`, where an invocation ends within the lease of its slot |
| `ServicesProofs!HistoriesAreTrue` | `HistoryIsTrue` |
| `ServicesProofs!ReadsAreBounded` | `ReadsBounded` |
| `ServicesProofs!RowsOnlyGrowNewer` | `RowsNeverOlder` |
| `ApiProofs!SignInsAreSafe` | `AccountsHold` (`DeletedStaysOut`, `SignInsConverge`, `StateUsedOnce`) |
| `ApiProofs!ConnectionsAreOwn` | `IntegrationsHold` (`TokensOfOwnConnections`, `OneLoadAtATime`) |
| `ApiProofs!GateIsKept` | `GateHolds` (`ReadyBeforeServed`, `BurstBounded`, `OnlyOwnersServed`) |
| `PlatformProofs!ConsoleKeepsUp` | `ConsoleHolds` (`NoLostTimer`, `SelectionListed`) |
| `PlatformProofs!PanelsShowTheirInput` | `SettledShowsCurrent` |
| `PlatformProofs!FetchesAreContained` | `FetchContained` |
| `PlatformProofs!ArchiveReadsAreExact` | `ArchiveExact` |
| `PlatformProofs!FleetStartsOnce` | `FleetStarts` |
| `ContentProofs!CrawlsReachAll` | `CrawlReachesAll` |
| `ContentProofs!ClaimsAreHonest` | `ClaimsHold` |
| `LinkProofs!LinksAreServed` | `LinksServed` (`PagesInOrder`, `ReportsWhole`, `SampleHonest`) |

Every safety property of a passing run is stated by one of these theorems, but for
`ReportsTellTheData`.  `MCServices` and `MCPlatform` extend the proved components, so
that the runs and the theorems name the same definitions, and let one component at a
time move; `Claims`, `Links` and `Fleet` compose components whose properties a run
checks as one.

**AuditJobs.**  The base is `LeaseInv`: types, *a lease is recorded exactly while
an attempt runs and was counted* (`LeasedRuns`), and *an invocation works on a job
that was admitted, and releases one that has failed* (`WorkersPlaced`).  Without
the first, the refund of an attempt could make the counter negative; without the
second, a release might be for a job that is still open.  One lemma per group of
variables shows that a step keeps it (JobsStep, AdmissionStep, SitesStep,
WorkersStep, HistoryStep).  JobsStep also yields how a status may move, which is
`TerminalIsFinal`.

`CapacityCovered` is inductive on top of it: the sum of open jobs and of
invocations between a failure mark and its release is paid for.  A mark moves one
unit from the first term to the second, which is possible for one invocation only
because the mark asks for the lease; a release removes one unit of the second and
one of `activeCount`.

`CrawlsWithinAttempts` counts the crawls of a job and the invocations that hold
an attempt without having crawled yet.  A claim adds one to both sides, a crawl
moves one between the terms, and a refund removes an invocation whether or not
its update finds the lease still there, so it never takes back more than it
gives up.

`NoLiveTakeover` needs that a lease that runs is somebody's (`LiveIsLeased`): such
a job is running, and the claim filter passes it over.

`OneOpenPerClaim` follows from `ClaimsOwned`, the claim document of an open job's
key names that job.  A release happens in an operation of its own, after another
job may have taken the claim; it leaves that claim alone because it compares the
job id, and its own job is not open any more (`WorkersPlaced`).

`PublishedWhenCompleted` and `NoOrphanResult` are inductive together: a deletion
takes all stored jobs of a website, and a published job is a stored one because it
is completed.

`HolderNotOvertaken` is inductive with `SiteLeasesPlaced`: an invocation leases
the site of its own job only, and is marked as overtaken only after it has passed
that lease.  Who publishes holds the lease, so nobody whom it overtakes does; and
who has been overtaken never returns to the point where it would take a lease.

`ImplementsQueue` uses `CapacityCovered` (a job that is admitted finds room among
the open jobs, because `activeCount` is at least their number), `ClaimsOwned` (no
open job has its key) and `LeasedRuns` (whoever ends a job under its lease ends an
open one).

**CommonCrawlAdmission.**  `LeasesInTime` says that a call which has not released yet
is recorded in each document it owns, and that the lease there still has the time
the call may take.  It needs both halves of the clock, the age of the call and
what is left of the lease, and the assumption on `SetupTime`.  From it follows that
nobody takes over a document of a running retrieval; `Owning` adds that each
retrieval owns a slot, and distinct retrievals own distinct ones, so the slots
bound their number.

**RegionalRamp.**  `RampInv` holds in lanes of any width: a record, and the
record that an alarm has read, give each task in flight a slot of its own, count
only tasks whose marker is in R2, and pass over no number twice; a runner that
has succeeded has written its marker, and the task a runner writes is written by
no other.  `TypeOK`, `SlotsDistinct` and `CountedIsMarked` follow.
`LaneInv` adds, for lanes of any width too, what a record leaves out.  `Whole` says
that the tasks a record accounts for, together with the forgotten ones, are a stretch
that begins with the first task and reaches to the next one, and that there is no gap
below any of them: a retry never waits beyond the next task, so that the next task that
follows from a late start leaves nothing out.  `Sorted` says what a pass over the tasks
in flight has made of them: some are counted, some remain, and at most the one it ends
at is open.  `Deciding` is that with the task which an alarm is about to start, and
while an alarm is between reading and writing a lane that still runs, the record it
will overwrite is the one it has read.  An operator's repair stops the lane, and what
it has read accounts for all tasks.  Each record that an alarm writes `Follows` the one
it read: it is whole again, and goes `Onward`, no settled task taken up and the
next task moved back only by the late start of a task that was passed.  `AccountedFor`,
`LaneSound` and `SettledStaysSettled` follow.  A task is forgotten at one point only,
where a failure replaces the waiting retry of another (`Replaces`); that this does
happen is the finding `ramp_lost_task`.

**CrawlAdmission.**  `AdmissionInv` has a count for each limit: the queue document
counts the open claims exactly (`QueueCounts`), an hour's document counts the hour's
admissions exactly unless it was deleted too late for anybody of that hour to ask
again (`HoursCount`), a cooldown that is not over has its document or a later one's
(`CooldownsStand`), and a claim is of a job that was admitted (`ClaimsAdmitted`).
Each is read under a snapshot, and `SnapshotFresh` says that what a transaction
read is what it would read now, unless a conflict with it is already certain.
That is also why a commit is an uninterrupted admission.  The hours need the
assumption `TxnTime <= Window`: a transaction that outlives the hour whose counter
it increments could find the counter removed by its TTL and begin it again.  With
a transaction time of nearly two windows TLC finds the quota exceeded.  In the
code the window is an hour (`crawl-admission.ts:9`) and a request tries three times
(`crawl-admission.ts:12`).

**The services.**  *Scans:* `ScanInv` says that a lease is recorded while an
attempt runs, that whoever holds it is at work on that scan, and that the pages
and issues of a completed scan are of one attempt; on top of it the refinement of
`AuditQueue` needs one lemma per action.  *ImmediateSlots:* `HeldSlots`, what is
left of a slot's lease and the age of its audit add up to the lease, so that a
slot is not taken while its audit lives.  *IssueLifecycle:* the record of an issue
ends in the event its status says (`TrueRecord`), the log ends in its latest
publication (`LogKeepsTheLatest`), and while an audit publishes, the active issues
are those of its snapshot but for the ones resolved by hand since
(`SnapshotHolds`).  *SharedBacklinks:* `QuotaCounts`, the count of a minute is
the number of its reads that have passed, and `LoaderLeased`, the entry is leased to
the reader that loads last and, while it loads, its lease has not run out.

**The API.**  *Accounts:* `UsersInv` says that a subject or an address has one account,
when the indexes are there, that a deleted account stays deleted, that a request in the
middle of a sign-in has in hand an account of its subject or one deleted since, and that
no request runs as an account deleted before it came. `StatesInv` ties the uses of a
login state to its presence, and `SitesInv` says that a site is saved once where there
are indexes.  *GoogleIntegration:* `TokensInv` is about every copy of the integration's
document, the stored one and those that calls have in hand: its tokens are of accounts
connected to the document of that id.  A refresh writes by id, hence into the document
it is about.  `LoadsInv` says that the entry of an instance names exactly the call that
loads there.  *ApiGate:* `ProvisionInv`; `ServedInv`, a request has kept every check
before the one it is at, with the lemma `RoutesGuarded` that each route of the API has
the check its resource asks for; and `WindowInv` for the rate limit: the requests since
the present window began are at most the limit, and so are those of earlier windows in
any time that reaches into the present one, because it began more than a window after
the one before the last had ended.

**The platform.**  *Dashboard:* the interval the console's poller runs is the one its
ref names.  *ConsolePanels:* a request whose answer will count asks about the present
input.  *OneShotLaunch*, *DomainJsonBuild* and *StartAdmission:* `LaunchInv`,
`BuildInv`, and `PacingInv`: the object's record says when the next grant may be and how
many failures there have been in a row, in agreement with the log of grants and
reports.  *PageFetch:* `FetchInv`, an address that is pinned has passed the guard, a
connection goes to the address that is pinned, and nothing of a body is kept but what
was counted.  *ArchiveRead:* `ArchiveInv`, one request at a time of a worker
(`OneCaller`), a chunk over the budget sent its worker home (`BudgetBroken`), the
collection in use is the latest that is usable (`CollectionInUse`), and a record taken
is read or being read (`RecordsPlaced`).

**The crawl.**  `CrawlInv` has five parts.  Types; no URL is visited or queued
twice (`VisitedOnce`); the queue is ordered by depth, spans at most two depths,
and no page crawled is deeper than what is queued (`Layered`); the root is there
(`Rooted`); and what a page links to, within the depth, is visited or queued no
deeper than one more than the page, unless the queue had no room and said so
(`Covered`).  `Layered` is what makes a crawl in batches breadth-first: a batch takes
from the front, its links are appended behind what was queued, so that nothing is
found later at a smaller depth.  When the queue is empty, `Covered` closes the set of
pages under links, hence every URL within the depth is there, at its distance.
The links of a batch are queued by two nested recursions over sequences; lemmas
`EnqueuingSolves`, `CollectingSolves` and `BatchCollected` say what they come to.

**The claims of an audit.**  *SiteScore:* `ScoreInv` says that `titles` has one group
for each title seen, with each of its pages once (`TitlesTold`), and that the
issues listed are those the results justify, duplicates exactly where two pages
share a title (`IssuesTold`).  That a further issue never raises the score and a
further clean page never lowers it is arithmetic on the code's formula: the deductions
divided by the square root of the number of pages, rounded, are monotone
(`DeductionIs`, `ScoreIs`, `ScoreOrder`, `FullScore`).  The attempt to prove that a
score is 100 *exactly* when there are no issues failed for a good reason: from 16
pages on a single informational issue weighs 2/sqrt(16) = 0.5, which rounds away.
The property says so now (`ScoreHonest` asks for it below 16 pages).
*AiReadiness:* `ReadinessInv` says that the files asked for are those before the
cursor and a worker stops only behind the last (`FilesAsked`), so that a report is
made of all of them; that an answer is the site's own unless its request failed
(`AnswersOwn`); and that the report is the score of the statuses found.  The agents
a robots file names are computed by a recursion over its lines (`NamedAgents`,
`AgentsAreNamed`); the weights of the checks add up to what the report divides by
(`WeightOfChecks`, `ScoredTruly`).

**Links.**  *LinkReads:* `ReadsInv` says that a cached answer to the service is a
whole one, from the JSON or from a reading of the table, which needs that the worker's
limit is no more than what the JSON keeps (`WorkerMax <= TopN`: both are 100), and that
the reader has the scores before the page it asks for row by row and, if all its pages
came from one ranking, the rows of that ranking.  A window of a ranking joins the one
before it in this sense whichever rankings they are of (`OrderJoined`,
`WindowsJoined`).  *LinkReports:* `ReportInv` says that each answer so far is an error
or what is so, whichever source it came from (`AnswersTrue`, `FetchedTrue`), that a
report given is made of the answers of all its endpoints (`ReportComplete`), and that a
walk has the scores before its offset row by row (`WalkHas`).  A share is within half a
hundredth of the page's part (`HundredthsNear`); that the shares add up to no more than
100 and half a hundredth for each page is a sum over a window of a list against the
sum of the list (`SharesOfWhole`, on `ScaledSum`); that the kinds of anchors add up to
the anchors is
`KindsOfWhole`, on `SumOfFive`.  *BacklinkSample:* `SampleInv` says that each entry of
the cache holds what the query of its key fetches, no key twice, within the bound
(`WithoutKept`, `StoredKept`; filtering keeps the order, `FilteredPlaces`), and that a
request that is answered has what its own query fetches, or nothing and says so.
That two pages share no observation needs that a host's observations are distinct
(`SampleOK`) and that the windows of two pages do not meet (`PagesApart`).

**Induction.**  Two lemmas of `ListTheorems` stand in for the library's induction
theorems, which take an operator as a parameter: a non-empty set of numbers has a
least one (`LeastNumber`), so that an induction is an argument about the least
exception; and a recursive function satisfies its equation (`RecursionSolved`).  On
them rest the lemmas on the operators of `Lists` (what a filtered sequence has and in
which order, what a sum is and how it grows), and through them the recursive
definitions of the crawl, the score, the readiness report and the reports of links.

The proofs rest on the constants' assumptions (`ConstantsAssumption`,
`AdmissionAssumption`, and the `...OK` operator of each component, which
`MCServices` and `MCPlatform` assume of their instances), which TLC evaluates on
every run, and on the library's facts about finite sets and well-founded orders.

**Only model-checked.**  Liveness (`SettledOrStranded`, `SlotsDrain`,
`LaneEnds`), since neither fairness nor ENABLED is in the prover's reach.  Of the
platform, `ReportsTellTheData`: `TopRows`
declares a RECURSIVE operator, the heap's sifting, which takes the SMT prover away
from every module that reaches it; the reports of search, traffic and print sort,
filter and fold sequences with the library's operators, whose facts take operators as
parameters.

## 5. Findings

In the audit queue:

- *A job stays running for ever* (`stranded`).  The claim filter asks for attempts
  left also when the lease of a running job has expired
  (`audit.service.ts:89`), so an invocation that dies in the last attempt leaves a
  job that nothing ends and whose slot nothing frees.
- *Queue slots leak* (`delete_leak`).  Deleting a website or an account, or failing
  a job because its website is gone, leaves `activeCount` one too high for ever; 25
  such events close the queue.  So does an invocation that stops between the
  failure mark and the release: with `MaxFaults = 1` in `AuditJobs_progress.cfg`,
  `SlotsDrain` is violated.
- *Two open audits of one claim.*  The TTL index deletes a claim one hour after it
  was made, whether or not its job is still open: with `ClaimTtl = TRUE` in
  `AuditJobs_claims.cfg`, `OneOpenPerClaim` is violated.

In the regional ramp:

- *A task is lost* (`ramp_lost_task`): the record's single retry is overwritten.
- *A lane never ends* after a coordinator restart at the wrong moment
  (`ramp_crash`), or after a container that restarted by itself: with
  `Restarts = TRUE` in `RegionalRamp_progress.cfg`, `LaneEnds` is violated.
- *A repaired lane comes back* (`ramp_repair`): an alarm in progress overwrites
  the operator's record.
- *A task given up is started again.*  The retry of a start that stands for the
  retry of a task sets the next task to the one after it, so the next task moves
  back and what lies between is taken up again: with `MaxFaults = 3` and two slots,
  or when the starts are used up (`MaxAttempts = 1` and `MaxRuntimeAttempts = 1`),
  `RegionalRamp_progress.cfg` violates `QuarantineIsFinal`.  The definition is kept
  for that; `ramp_lane` checks and `SettledOnce` proves what holds of a lane that runs
  (`SettledStaysSettled`): a task that was settled is not taken up by the record that
  passed it, and the next task moves back in this one case.

In the other modules, found while they were written; the definitions are kept in
them for a run of one's own:

- *An acknowledged bucket was not built* (`AckedIsBuilt` of `DomainJsonBuild`).  The
  container's status does not say whose it is, and says nothing after a restart; a
  consumer that polls it takes another bucket's result, or an empty one, for its own
  (`workers/growthsent-domain-json/src/index.ts:64`).
- *A poll outlives its component* (`CleanedUpOnUnmount` of `Dashboard`).  The URL
  bar starts its interval when the answer to its request comes, mounted or not;
  `App.tsx:645` says that polling is cleaned up on unmount.
- *Pages of links may repeat or miss a row.*  The JSON of a domain is ordered by score
  only (`tools/build_domain_json_v1.py:159`), and so are the rows the workers keep
  (`workers/link-intelligence/src/heap.ts:31`): of rows that tie, one may come on two
  pages of a walk and another on none.  `PagesInOrder` and `ReportsWhole` say what is
  left, scores row by row.
- *Shares may add up to more than 100.*  Each is rounded by itself
  (`link-intelligence.service.ts:390`): six pages of one link each make 100.02.
- *The previous period is shown as the current one.*  When Google Analytics reports a row
  for the previous period only, its figures are taken for the current ones, with a
  change of 0 (`google.ts:1407`).  `ReportsTellTheData` asks for a change only where
  both periods were reported.
- *A panel shows another site's data.*  A refresh by hand in the search and
  readiness panels, and every request of the analytics panel, is neither cancelled
  nor numbered (`SearchPerformanceView.tsx:445`, `AiReadinessView.tsx:188`).

`CapacityCovered`, which all of the queue's leaks keep, says that these errors
are on the safe side: the queue closes too early, never too late.

## 6. Plan

Done: the queue with its abstract specification, the services around it, the
archive admission, one lane of the ramp, and twenty components of the product; a
theorem for every safety property the passing runs check but one.  What is left is
its proof:

1. `TopRows`: a heap of the best rows, with its sifting as a recursive function.
2. `SearchReports`, `TrafficSummary` and `AuditReport`, with their folds and filters
   as those of `Lists`.

### Not modelled

WAT ingestion: its lease is a conditional write per shard and its publication the
parts-then-marker order that `RegionalRamp` has with its runner.  The dataset
builders and verifiers are sequential transformations of files with checksums.
Administration, command line and public reports read what the other components
store.  Operator scripts are run by hand.  The scaffold under `src/modules` is not
mounted.  Inside the modelled parts, wording, formats, HTML and Parquet decoding,
password hashing, response shapes and presentation are left out: they are content
of data, which unit tests reach better than a state space does.
