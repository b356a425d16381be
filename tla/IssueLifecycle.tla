--------------------------- MODULE IssueLifecycle ---------------------------
(***************************************************************************)
(* The history of a website's issues (AuditService.syncIssueLifecycle and  *)
(* IssueService.resolveIssue).  An audit observes which issues the site    *)
(* has, and later publishes: in one transaction it reads the active        *)
(* records, touches, reopens or creates one for each issue it found, and,  *)
(* if the crawl was complete, resolves the others.  The website lease lets *)
(* one audit at a time do so (AuditJobs).  Users resolve records in        *)
(* between; a record that was written since the transaction's snapshot     *)
(* makes it start again.                                                   *)
(***************************************************************************)
EXTENDS Naturals, Sequences, FiniteSets, SequencesExt

CONSTANTS
  IssueKeys,    \* rule and URL
  MaxAudits, MaxResolves,  \* bounds
  EventLimit    \* ISSUE_HISTORY_EVENT_LIMIT

LifecycleOK ==
  /\ IsFiniteSet(IssueKeys)
  /\ {MaxAudits, MaxResolves, EventLimit} \subseteq Nat \ {0}

VARIABLES
  history,      \* seoIssueHistory: status and events, by key
  audit,        \* the audit in progress: what it found, and whether it was complete
  auditPc, audits, resolves,
  activeSeen,   \* the active records its transaction has read
  touched,      \* records written by users since then
  reported      \* history: what publications and users say is there

lifeVars == <<history, audit, auditPc, audits, resolves, activeSeen, touched, reported>>

NoRecord == [status |-> "none", events |-> <<>>]
Active == {k \in IssueKeys : history[k].status = "active"}
\* Bugs for the run to find: $slice keeps the earliest events, and (below) an incomplete
\* crawl resolves what it did not see.
LogEarliest(events, e) == IF Len(events) < EventLimit THEN Append(events, e) ELSE events
\* $slice keeps the latest events.
Log(events, e) == LET all == Append(events, e) IN
  SubSeq(all, IF Len(all) > EventLimit THEN Len(all) - EventLimit + 1 ELSE 1, Len(all))

LifecycleInit ==
  /\ history = [k \in IssueKeys |-> NoRecord]
  /\ audit = [found |-> {}, complete |-> FALSE]
  /\ auditPc = "idle"
  /\ audits = 0 /\ resolves = 0
  /\ activeSeen = {} /\ touched = {} /\ reported = {}

\* The crawl, and the analysis of what it fetched.  isSuccessfulCrawlForLifecycle, here
\* complete, asks that the root page was fetched with a status from 200 to 399.
Observe(found, complete) ==
  /\ auditPc = "idle" /\ audits < MaxAudits
  /\ audit' = [found |-> found, complete |-> complete]
  /\ auditPc' = "observed"
  /\ audits' = audits + 1
  /\ UNCHANGED <<history, resolves, activeSeen, touched, reported>>

\* The transaction's snapshot.
ReadActive ==
  /\ auditPc = "observed"
  /\ auditPc' = "publishing"
  /\ activeSeen' = Active
  /\ touched' = {}
  /\ UNCHANGED <<history, audit, audits, resolves, reported>>

ToWrite == audit.found \cup (IF audit.complete THEN activeSeen ELSE {})

MissingFromAny(k) == k \in activeSeen \ audit.found
Missing(k) == audit.complete /\ k \in activeSeen \ audit.found

\* What becomes of a record: it goes on, reoccurs, is detected, is resolved, or is
\* left alone.
Synced(k) ==
  LET old == history[k] IN
  CASE k \in audit.found /\ k \in activeSeen -> old
    [] k \in audit.found \ activeSeen /\ old.status = "resolved" ->
         [status |-> "active", events |-> Log(old.events, "reoccurred")]
    [] k \in audit.found \ activeSeen /\ old.status = "none" ->
         [status |-> "active", events |-> <<"detected">>]
    [] Missing(k) ->
         [status |-> "resolved", events |-> Log(old.events, "resolved")]
    [] OTHER -> old

SyncIssues ==
  /\ auditPc = "publishing" /\ touched \cap ToWrite = {}
  /\ history' = [k \in IssueKeys |-> Synced(k)]
  /\ reported' = audit.found \cup (IF audit.complete THEN {} ELSE reported)
  /\ auditPc' = "idle"
  /\ audit' = [found |-> {}, complete |-> FALSE]
  /\ activeSeen' = {} /\ touched' = {}
  /\ UNCHANGED <<audits, resolves>>

\* A write conflict, a lost lease, a crash: nothing of the transaction remains, and it,
\* or the whole attempt, is repeated.
Abort ==
  /\ auditPc = "publishing"
  /\ auditPc' = "observed"
  /\ activeSeen' = {} /\ touched' = {}
  /\ UNCHANGED <<history, audit, audits, resolves, reported>>

\* resolveIssue does not ask for the status.
ResolveIssue(k) ==
  /\ history[k].status # "none" /\ resolves < MaxResolves
  /\ history' = [history EXCEPT ![k] = [status |-> "resolved",
                                        events |-> Append(@.events, "resolved")]]
  /\ reported' = reported \ {k}
  /\ resolves' = resolves + 1
  /\ touched' = IF auditPc = "publishing" THEN touched \cup {k} ELSE {}
  /\ UNCHANGED <<audit, auditPc, audits, activeSeen>>

LifecycleNext ==
  \/ \E found \in SUBSET IssueKeys, complete \in BOOLEAN : Observe(found, complete)
  \/ ReadActive \/ SyncIssues \/ Abort
  \/ \E k \in IssueKeys : ResolveIssue(k)

LifecycleSpec == LifecycleInit /\ [][LifecycleNext]_lifeVars

-----------------------------------------------------------------------------
\* A record's status is what its last event says, and an issue never reoccurs without
\* having been resolved, although users resolve records while an audit publishes.
StatusMatchesEvents ==
  \A k \in IssueKeys : LET h == history[k] IN h.status # "none" =>
    /\ h.status = "resolved" <=> Last(h.events) = "resolved"
    /\ \A i \in 2..Len(h.events) : h.events[i] = "reoccurred" => h.events[i - 1] = "resolved"

\* The active records are exactly what publications and users have reported: an
\* incomplete crawl hides none, a complete one leaves none behind, and a user's
\* resolution is never undone by an audit that had read the record before.
ActiveAsReported == Active = reported

\* Both: what the console lists as open is open, and its history says how it became so.
HistoryIsTrue == StatusMatchesEvents /\ ActiveAsReported
=============================================================================
