-------------------------- MODULE AuditJobsProofs --------------------------
(***************************************************************************)
(* Proofs of the properties of AuditJobs, for any numbers of jobs,         *)
(* invocations, websites, actors and targets, and any limits.              *)
(***************************************************************************)
EXTENDS AuditJobs, TLAPS, FiniteSetTheorems

USE ConstantsAssumption

-----------------------------------------------------------------------------
(***************************************************************************)
(* Types and leases                                                        *)
(***************************************************************************)
LEMMA LeaseInit == Init => LeaseInv
  BY DEF Init, LeaseInv, TypeOK, JobsTypeOK, AdmissionTypeOK, SitesTypeOK,
         WorkersTypeOK, HistoryTypeOK, LeasedRuns, WorkersPlaced, Status, PC,
         Stored, Active, Running, Terminal, Releasing

\* The actions that write no job document.
LEMMA QuietActions ==
  ASSUME NEW w \in Workers,
         \/ FindNext(w) \/ ClaimMissed(w) \/ TakeSiteLease(w) \/ MissSiteLease(w)
         \/ CheckSite(w) \/ BeginCrawl(w) \/ ArchiveBusy(w)
         \/ \E label \in Failing : Throw(w, label)
         \/ LeaseLost(w) \/ MarkNothing(w) \/ ReleaseClaim(w) \/ ReleaseSlot(w)
         \/ ReleaseSite(w) \/ Crash(w) \/ CatchFails(w)
  PROVE  UNCHANGED jobVars
  BY DEF FindNext, ClaimMissed, TakeSiteLease, MissSiteLease, CheckSite, BeginCrawl,
         ArchiveBusy, Throw, LeaseLost, MarkNothing, ReleaseClaim, ReleaseSlot,
         ReleaseSite, Crash, CatchFails

\* How the status of a job may move.
StatusOnward ==
  \A j \in Jobs :
    /\ status[j] \notin {"none", "authorised"} => status'[j] \notin {"none", "authorised"}
    /\ status[j] \in Terminal => status'[j] \in {status[j], "deleted"}
    /\ status[j] = "deleted" => status'[j] = "deleted"
    /\ status'[j] \in Active => status[j] \in Active \/ Admit(j)

JobsOnward == JobsTypeOK' /\ LeasedRuns' /\ StatusOnward

LEMMA JobsStep ==
  ASSUME LeaseInv, [Next]_vars
  PROVE  JobsOnward
<1> USE DEF LeaseInv, TypeOK, JobsTypeOK, LeasedRuns, StatusOnward, JobsOnward,
            Status, Stored, Active, Running, Terminal
<1>0. ASSUME UNCHANGED jobVars PROVE JobsOnward
  BY <1>0 DEF jobVars
<1>1. ASSUME NEW j \in Jobs, NEW r \in Requests, Authorise(j, r) PROVE JobsOnward
  BY <1>1 DEF Authorise
<1>2. ASSUME NEW j \in Jobs, Admit(j) PROVE JobsOnward
  <2>1. /\ status[j] = "authorised" /\ status' = [status EXCEPT ![j] = "queued"]
        /\ UNCHANGED <<req, attempts, lease, leaseLive, delayed>>
    BY <1>2 DEF Admit
  <2>2. JobsTypeOK' /\ LeasedRuns'
    BY <2>1
  <2>3. StatusOnward
    BY <1>2, <2>1
  <2> QED
    BY <2>2, <2>3
<1>3. ASSUME NEW j \in Jobs, Refuse(j) PROVE JobsOnward
  BY <1>3 DEF Refuse
<1>4. ASSUME NEW w \in Workers, Claim(w) PROVE JobsOnward
  <2>1. at[w] \in Jobs /\ attempts[at[w]] \in 0..MaxAttempts
    BY <1>4 DEF Claim, WorkersTypeOK
  <2>2. attempts[at[w]] + 1 \in 1..MaxAttempts /\ status[at[w]] \in Active
    BY <1>4, <2>1 DEF Claim, Claimable
  <2>3. JobsTypeOK'
    BY <1>4, <2>1, <2>2 DEF Claim
  <2>4. LeasedRuns' /\ StatusOnward
    BY <1>4, <2>1, <2>2 DEF Claim
  <2> QED
    BY <2>3, <2>4
<1>5. ASSUME NEW w \in Workers, pc[w] # "idle", Requeue(w, at[w]), UNCHANGED req
      PROVE  JobsOnward
  <2>1. CASE Holds(w, at[w])
    <3>1. at[w] \in Jobs /\ w # Nobody
      BY <1>5 DEF WorkersTypeOK
    <3>2. attempts[at[w]] \in 1..MaxAttempts /\ status[at[w]] \in Running
      <4>1. attempts[at[w]] > 0 /\ status[at[w]] \in Running
        BY <2>1, <3>1 DEF Holds
      <4>2. attempts[at[w]] \in 0..MaxAttempts
        BY <3>1
      <4> QED
        BY <4>1, <4>2
    <3>3. /\ req' = req
          /\ status' = [status EXCEPT ![at[w]] = "queued"]
          /\ delayed' = [delayed EXCEPT ![at[w]] = TRUE]
          /\ attempts' = [attempts EXCEPT ![at[w]] = @ - 1]
          /\ lease' = [lease EXCEPT ![at[w]] = Nobody]
          /\ leaseLive' = [leaseLive EXCEPT ![at[w]] = FALSE]
      BY <1>5, <2>1 DEF Requeue, DropLease
    <3>4. attempts' \in [Jobs -> 0..MaxAttempts]
      BY <3>1, <3>2, <3>3
    <3>5. JobsTypeOK'
      BY <3>1, <3>2, <3>3, <3>4
    <3>6. LeasedRuns'
      BY <3>1, <3>2, <3>3
    <3>7. StatusOnward
      BY <3>1, <3>2, <3>3
    <3> QED
      BY <3>5, <3>6, <3>7
  <2>2. CASE ~Holds(w, at[w])
    <3>1. UNCHANGED jobVars
      BY <1>5, <2>2 DEF Requeue, jobVars
    <3> QED
      BY <1>0, <3>1
  <2> QED
    BY <2>1, <2>2
<1>6. ASSUME NEW w \in Workers, RequeueSiteBusy(w) \/ Defer(w) PROVE JobsOnward
  BY <1>5, <1>6 DEF RequeueSiteBusy, Defer, WorkersTypeOK
<1>7. ASSUME NEW w \in Workers, FailSiteGone(w) PROVE JobsOnward
  <2>1. CASE Holds(w, at[w])
    <3>1. at[w] \in Jobs /\ status[at[w]] \in Running
      BY <1>7, <2>1 DEF FailSiteGone, Holds, WorkersTypeOK
    <3>2. /\ req' = req /\ attempts' = attempts /\ delayed' = delayed
          /\ status' = [status EXCEPT ![at[w]] = "failed"]
          /\ lease' = [lease EXCEPT ![at[w]] = Nobody]
          /\ leaseLive' = [leaseLive EXCEPT ![at[w]] = FALSE]
      BY <1>7, <2>1 DEF FailSiteGone, DropLease
    <3> QED
      BY <3>1, <3>2
  <2>2. CASE ~Holds(w, at[w])
    <3>1. UNCHANGED jobVars
      BY <1>7, <2>2 DEF FailSiteGone, jobVars
    <3> QED
      BY <1>0, <3>1
  <2> QED
    BY <2>1, <2>2
<1>8. ASSUME NEW w \in Workers, MarkAnalysing(w) PROVE JobsOnward
  BY <1>8 DEF MarkAnalysing, LeaseHeld, Holds, WorkersTypeOK
<1>9. ASSUME NEW w \in Workers, Publish(w) PROVE JobsOnward
  BY <1>9 DEF Publish, MayPublish, LeaseHeld, Holds, DropLease, WorkersTypeOK
<1>10. ASSUME NEW w \in Workers, MarkRetry(w) PROVE JobsOnward
  BY <1>10 DEF MarkRetry, Failing, Holds, DropLease, WorkersTypeOK
<1>11. ASSUME NEW w \in Workers, MarkFailed(w) PROVE JobsOnward
  BY <1>11 DEF MarkFailed, Failing, Holds, DropLease, WorkersTypeOK
<1>12. ASSUME NEW w \in Workers, Heartbeat(w) PROVE JobsOnward
  BY <1>12 DEF Heartbeat
<1>13. ASSUME NEW j \in Jobs, LeaseExpires(j) \/ DelayElapses(j) PROVE JobsOnward
  BY <1>13 DEF LeaseExpires, DelayElapses
<1>14. ASSUME NEW gone \in SUBSET Jobs, \A j \in gone : status[j] \in Stored,
              DeleteJobs(gone)
       PROVE  JobsOnward
  <2>1. /\ req' = req /\ attempts' = attempts
        /\ status' = [j \in Jobs |-> IF j \in gone THEN "deleted" ELSE status[j]]
        /\ lease' = [j \in Jobs |-> IF j \in gone THEN Nobody ELSE lease[j]]
        /\ leaseLive' \in [Jobs -> BOOLEAN] /\ delayed' \in [Jobs -> BOOLEAN]
    BY <1>14 DEF DeleteJobs
  <2>2. JobsTypeOK'
    <3>1. /\ req' \in [Jobs -> Request \cup {NoRequest}]
          /\ attempts' \in [Jobs -> 0..MaxAttempts]
      BY <2>1
    <3>2. status' \in [Jobs -> Status]
      BY <2>1
    <3>3. lease' \in [Jobs -> Workers \cup {Nobody}]
      BY <2>1
    <3>4. \A j \in Jobs : status'[j] # "none" => req'[j] \in Request
      BY <1>14, <2>1
    <3> QED
      BY <2>1, <3>1, <3>2, <3>3, <3>4
  <2>3. LeasedRuns'
    BY <2>1
  <2>4. StatusOnward
    BY <2>1
  <2> QED
    BY <2>2, <2>3, <2>4
<1>15. ASSUME Deletion PROVE JobsOnward
  BY <1>14, <1>15 DEF Deletion, DeleteWebsite, DeleteUserAccount
<1>16. ASSUME \/ \E s \in Sites : SiteLeaseExpires(s)
              \/ \E k \in Actors \X Targets : ClaimExpires(k)
       PROVE  UNCHANGED jobVars
  BY <1>16 DEF SiteLeaseExpires, ClaimExpires
<1>17. UNCHANGED vars => UNCHANGED jobVars
  BY DEF vars
<1> QED
  <2> HIDE DEF JobsOnward
  <2> QED
  BY QuietActions, <1>0, <1>1, <1>2, <1>3, <1>4, <1>6, <1>7, <1>8, <1>9, <1>10,
     <1>11, <1>12, <1>13, <1>15, <1>16, <1>17
  DEF Next, Worker, Attempt, Requesting, Time

\* Claims and the queue document are written by admission, publication, release
\* and the TTL monitor only.
LEMMA AdmissionQuiet ==
  ASSUME NEW w \in Workers,
         \/ FindNext(w) \/ Claim(w) \/ ClaimMissed(w) \/ TakeSiteLease(w)
         \/ MissSiteLease(w) \/ CheckSite(w) \/ RequeueSiteBusy(w)
         \/ FailSiteGone(w) \/ BeginCrawl(w) \/ ArchiveBusy(w) \/ Defer(w)
         \/ \E label \in Failing : Throw(w, label)
         \/ MarkAnalysing(w) \/ LeaseLost(w) \/ MarkRetry(w) \/ MarkFailed(w)
         \/ MarkNothing(w) \/ ReleaseSite(w) \/ Heartbeat(w) \/ Crash(w)
         \/ CatchFails(w)
  PROVE  UNCHANGED claimVars
  BY DEF FindNext, Claim, ClaimMissed, TakeSiteLease, MissSiteLease, CheckSite,
     RequeueSiteBusy, FailSiteGone, BeginCrawl, ArchiveBusy, Defer, Throw,
     MarkAnalysing, LeaseLost, MarkRetry, MarkFailed, MarkNothing, ReleaseSite,
     Heartbeat, Crash, CatchFails

LEMMA RequestQuiet ==
  ASSUME \/ \E j \in Jobs : \/ \E r \in Requests : Authorise(j, r)
                            \/ Refuse(j) \/ LeaseExpires(j) \/ DelayElapses(j)
         \/ \E s \in Sites : SiteLeaseExpires(s)
         \/ Deletion
         \/ UNCHANGED vars
  PROVE  UNCHANGED claimVars /\ UNCHANGED <<pc, at, overtaken>>
  BY DEF Authorise, Refuse, LeaseExpires, DelayElapses, SiteLeaseExpires,
     Deletion, DeleteWebsite, DeleteUserAccount, DeleteJobs, vars, workVars, histVars

LEMMA AdmissionStep ==
  ASSUME LeaseInv, [Next]_vars
  PROVE  AdmissionTypeOK'
<1> USE DEF LeaseInv, TypeOK, AdmissionTypeOK, WorkersTypeOK
<1>1. ASSUME NEW j \in Jobs, Admit(j) PROVE AdmissionTypeOK'
  <2>1. /\ claim' = [claim EXCEPT ![KeyOf(j)] = j]
        /\ activeCount' = activeCount + 1
    BY <1>1 DEF Admit
  <2>2. claim' \in [Actors \X Targets -> Jobs \cup {NoJob}]
    BY <2>1
  <2>3. activeCount' \in Nat
    BY <2>1
  <2> QED
    BY <2>2, <2>3
<1>2. ASSUME NEW w \in Workers, Publish(w) \/ ReleaseClaim(w) \/ ReleaseSlot(w)
      PROVE  AdmissionTypeOK'
  BY <1>2 DEF Publish, ReleaseClaim, ReleaseSlot, ReleaseClaimOf, ReleaseSlotOf
<1>3. ASSUME NEW k \in Actors \X Targets, ClaimExpires(k) PROVE AdmissionTypeOK'
  BY <1>3 DEF ClaimExpires
<1>4. UNCHANGED claimVars => AdmissionTypeOK'
  BY DEF claimVars
<1> HIDE DEF LeaseInv, AdmissionTypeOK
<1> QED
  BY AdmissionQuiet, RequestQuiet, <1>1, <1>2, <1>3, <1>4
  DEF Next, Worker, Attempt, Requesting, Time

\* Websites and their leases, the users, and the stored results.
LEMMA SitesStep ==
  ASSUME LeaseInv, [Next]_vars
  PROVE  SitesTypeOK'
<1> USE DEF LeaseInv, TypeOK, SitesTypeOK, WorkersTypeOK
<1>1. ASSUME NEW w \in Workers, TakeSiteLease(w) \/ ReleaseSite(w) \/ Heartbeat(w)
      PROVE  SitesTypeOK'
  <2>1. CASE TakeSiteLease(w)
    BY <2>1 DEF TakeSiteLease
  <2>2. CASE ReleaseSite(w)
    BY <2>2 DEF ReleaseSite
  <2>3. CASE Heartbeat(w)
    BY <2>3 DEF Heartbeat
  <2> QED
    BY <1>1, <2>1, <2>2, <2>3
<1>2. ASSUME NEW w \in Workers, Publish(w) PROVE SitesTypeOK'
  BY <1>2 DEF Publish, siteVars
<1>3. ASSUME NEW s \in Sites, SiteLeaseExpires(s) PROVE SitesTypeOK'
  BY <1>3 DEF SiteLeaseExpires
<1>4. ASSUME NEW gone, NEW lost, DeleteSites(gone), DeleteJobs(lost),
             users' \subseteq users
      PROVE  SitesTypeOK'
  <2>1. sites' \subseteq sites /\ published' \subseteq published
    BY <1>4 DEF DeleteSites, DeleteJobs
  <2>2. siteLease' \in [Sites -> Workers \cup {Nobody}]
    BY <1>4 DEF DeleteSites
  <2>3. siteLive' \in [Sites -> BOOLEAN]
    BY <1>4 DEF DeleteSites
  <2> QED
    BY <1>4, <2>1, <2>2, <2>3
<1>8. Deletion => SitesTypeOK'
  <2> HIDE DEF LeaseInv, SitesTypeOK
  <2> QED
    BY <1>4 DEF Deletion, DeleteWebsite, DeleteUserAccount
<1>5. ASSUME NEW w \in Workers,
             \/ FindNext(w) \/ Claim(w) \/ ClaimMissed(w)
             \/ MissSiteLease(w) \/ CheckSite(w) \/ RequeueSiteBusy(w)
             \/ FailSiteGone(w) \/ BeginCrawl(w) \/ ArchiveBusy(w) \/ Defer(w)
             \/ \E label \in Failing : Throw(w, label)
             \/ MarkAnalysing(w) \/ LeaseLost(w) \/ MarkRetry(w) \/ MarkFailed(w)
             \/ MarkNothing(w) \/ ReleaseClaim(w) \/ ReleaseSlot(w) \/ Crash(w)
             \/ CatchFails(w)
      PROVE  UNCHANGED <<siteVars, published>>
  BY <1>5 DEF FindNext, Claim, ClaimMissed, MissSiteLease, CheckSite,
     RequeueSiteBusy, FailSiteGone, BeginCrawl, ArchiveBusy, Defer, Throw,
     MarkAnalysing, LeaseLost, MarkRetry, MarkFailed, MarkNothing, ReleaseClaim,
     ReleaseSlot, Crash, CatchFails
<1>6. ASSUME \/ \E j \in Jobs : \/ \E r \in Requests : Authorise(j, r)
                                \/ Admit(j) \/ Refuse(j)
                                \/ LeaseExpires(j) \/ DelayElapses(j)
             \/ \E k \in Actors \X Targets : ClaimExpires(k)
             \/ UNCHANGED vars
      PROVE  UNCHANGED <<siteVars, published>>
  BY <1>6 DEF Authorise, Admit, Refuse, LeaseExpires, DelayElapses, ClaimExpires, vars
<1>7. UNCHANGED <<siteVars, published>> => SitesTypeOK'
  BY DEF siteVars
<1> HIDE DEF LeaseInv, SitesTypeOK
<1> QED
  BY <1>1, <1>2, <1>3, <1>5, <1>6, <1>7, <1>8
  DEF Next, Worker, Attempt, Requesting, Time

\* An invocation leaves its job, or goes on to a place where it releases nothing.
LEMMA MoveOn ==
  ASSUME LeaseInv, StatusOnward, NEW w \in Workers, pc[w] # "idle",
         \/ Idle(w) \/ Leave(w)
         \/ \E label \in PC \ Releasing : Goto(w, label)
  PROVE  WorkersTypeOK' /\ WorkersPlaced' /\ overtaken' \subseteq Workers
<1> USE DEF LeaseInv, TypeOK, WorkersTypeOK, WorkersPlaced, StatusOnward,
            HistoryTypeOK
<1>1. CASE Idle(w)
  BY <1>1 DEF Idle, PC, Releasing, Terminal
<1>2. ASSUME NEW label \in PC \ Releasing, Goto(w, label)
      PROVE  WorkersTypeOK' /\ WorkersPlaced' /\ overtaken' \subseteq Workers
  BY <1>2 DEF Goto, Releasing, Terminal
<1>3. "unwind" \in PC \ Releasing
  BY DEF PC, Releasing
<1> QED
  BY <1>1, <1>2, <1>3 DEF Leave

\* Every action of an invocation but the choice of a job, the publication and
\* the two that lead to a release.
LEMMA MovingActions ==
  ASSUME NEW w \in Workers,
         \/ Claim(w) \/ ClaimMissed(w) \/ TakeSiteLease(w) \/ MissSiteLease(w)
         \/ CheckSite(w) \/ RequeueSiteBusy(w) \/ FailSiteGone(w)
         \/ BeginCrawl(w) \/ ArchiveBusy(w) \/ Defer(w)
         \/ \E label \in Failing : Throw(w, label)
         \/ MarkAnalysing(w) \/ LeaseLost(w) \/ MarkRetry(w) \/ MarkNothing(w)
         \/ ReleaseSlot(w) \/ ReleaseSite(w) \/ Crash(w) \/ CatchFails(w)
  PROVE  /\ pc[w] # "idle"
         /\ \/ Idle(w) \/ Leave(w)
            \/ \E label \in PC \ Releasing : Goto(w, label)
<1> USE DEF PC, PreCrawl, Failing, Releasing
<1>1. CASE Claim(w)
  BY <1>1 DEF Claim
<1>2. CASE ClaimMissed(w) \/ RequeueSiteBusy(w) \/ FailSiteGone(w)
           \/ ReleaseSite(w) \/ Crash(w)
  BY <1>2 DEF ClaimMissed, RequeueSiteBusy, FailSiteGone, ReleaseSite, Crash
<1>3. CASE TakeSiteLease(w) \/ MissSiteLease(w) \/ CheckSite(w)
  BY <1>3 DEF TakeSiteLease, MissSiteLease, CheckSite
<1>4. CASE BeginCrawl(w) \/ ArchiveBusy(w) \/ MarkAnalysing(w)
  BY <1>4 DEF BeginCrawl, ArchiveBusy, MarkAnalysing
<1>5. CASE \E label \in Failing : Throw(w, label)
  BY <1>5 DEF Throw
<1>6. CASE Defer(w) \/ LeaseLost(w) \/ MarkRetry(w) \/ MarkNothing(w)
           \/ ReleaseSlot(w) \/ CatchFails(w)
  BY <1>6 DEF Defer, LeaseLost, MarkRetry, MarkNothing, ReleaseSlot, CatchFails
<1> QED
  BY <1>1, <1>2, <1>3, <1>4, <1>5, <1>6

WorkersOnward == WorkersTypeOK' /\ WorkersPlaced' /\ overtaken' \subseteq Workers

LEMMA WorkersStep ==
  ASSUME LeaseInv, [Next]_vars
  PROVE  WorkersOnward
<1>0. StatusOnward
  BY JobsStep DEF JobsOnward
<1> USE DEF LeaseInv, TypeOK, WorkersTypeOK, WorkersPlaced, HistoryTypeOK, WorkersOnward
<1>1. ASSUME UNCHANGED <<pc, at, overtaken>> PROVE WorkersOnward
  BY <1>0, <1>1 DEF StatusOnward, Releasing, Terminal
<1>2. ASSUME NEW w \in Workers, NEW j \in Jobs, Select(w, j),
             status'[j] \notin {"none", "authorised"}, UNCHANGED overtaken
      PROVE  WorkersOnward
  BY <1>0, <1>2 DEF Select, StatusOnward, PC, Releasing, Terminal
<1>3. ASSUME NEW w \in Workers, FindNext(w) PROVE WorkersOnward
  BY <1>2, <1>3
  DEF FindNext, Claimable, JobsTypeOK, Running, jobVars, histVars
<1>4. ASSUME NEW j \in Jobs, Admit(j) PROVE WorkersOnward
  <2>1. status'[j] = "queued"
    BY <1>4 DEF Admit, JobsTypeOK
  <2>2. UNCHANGED overtaken
    BY <1>4 DEF Admit, histVars
  <2>3. CASE UNCHANGED workVars
    BY <1>1, <2>2, <2>3 DEF workVars
  <2>4. ASSUME NEW w \in Workers, Select(w, j) PROVE WorkersOnward
    BY <1>2, <2>1, <2>2, <2>4
  <2> QED
    BY <1>4, <2>3, <2>4 DEF Admit
<1>5. ASSUME NEW w \in Workers, MarkFailed(w) \/ ReleaseClaim(w)
      PROVE  WorkersOnward
  <2>1. /\ pc[w] # "idle" /\ at[w] \in Jobs
        /\ \E label \in Releasing : Goto(w, label)
    BY <1>5 DEF MarkFailed, ReleaseClaim, Failing, Releasing
  <2>2. status'[at[w]] \in {"failed", "deleted"}
    BY <1>5, <2>1
    DEF MarkFailed, ReleaseClaim, jobVars, JobsTypeOK, Releasing
  <2>3. WorkersTypeOK' /\ overtaken' \subseteq Workers
    BY <2>1 DEF Goto, PC
  <2>4. ASSUME NEW v \in Workers, v # w
        PROVE  pc'[v] = pc[v] /\ at'[v] = at[v]
    BY <2>1, <2>4 DEF Goto
  <2>5. at'[w] = at[w]
    BY <2>1 DEF Goto
  <2>6. WorkersPlaced'
    BY <1>0, <2>2, <2>4, <2>5 DEF StatusOnward, Releasing, Terminal
  <2> QED
    BY <2>3, <2>6
<1>6. ASSUME NEW w \in Workers, Publish(w) PROVE WorkersOnward
  <2>1. /\ pc[w] = "persist" /\ at[w] \in Jobs
        /\ \E label \in PC \ Releasing : pc' = [pc EXCEPT ![w] = label]
    BY <1>6 DEF Publish, AfterAttempt, PC, Failing, Releasing
  <2>2. at' = at \/ (at' = [at EXCEPT ![w] = NoJob] /\ pc' = [pc EXCEPT ![w] = "idle"])
    BY <1>6 DEF Publish, AfterAttempt
  <2>3. overtaken' \subseteq Workers
    BY <1>6 DEF Publish, Rivals
  <2>4. WorkersTypeOK'
    BY <2>1, <2>2 DEF PC
  <2>5. ASSUME NEW v \in Workers, pc'[v] # "idle"
        PROVE  /\ pc[v] # "idle" /\ at'[v] = at[v]
               /\ pc'[v] \in Releasing => pc[v] \in Releasing
    BY <2>1, <2>2, <2>5 DEF PC
  <2>6. WorkersPlaced'
    BY <1>0, <2>5 DEF StatusOnward, Releasing, Terminal
  <2> QED
    BY <2>3, <2>4, <2>6
<1>7. ASSUME NEW w \in Workers, Heartbeat(w)
      PROVE  UNCHANGED <<pc, at, overtaken>>
  BY <1>7 DEF Heartbeat, workVars, histVars
<1>8. ASSUME \/ \E j \in Jobs : \/ \E r \in Requests : Authorise(j, r)
                                \/ Refuse(j) \/ LeaseExpires(j) \/ DelayElapses(j)
             \/ \E s \in Sites : SiteLeaseExpires(s)
             \/ \E k \in Actors \X Targets : ClaimExpires(k)
             \/ Deletion
             \/ UNCHANGED vars
      PROVE  UNCHANGED <<pc, at, overtaken>>
  BY <1>8 DEF Authorise, Refuse, LeaseExpires, DelayElapses, SiteLeaseExpires,
     ClaimExpires, Deletion, DeleteWebsite, DeleteUserAccount, DeleteJobs, vars,
     workVars, histVars
<1> HIDE DEF LeaseInv, WorkersOnward
<1> QED
  <2>1. ASSUME NEW w \in Workers, Worker(w) PROVE WorkersOnward
    BY MovingActions, MoveOn, <1>0, <1>1, <1>3, <1>5, <1>6, <1>7, <2>1
    DEF Worker, Attempt, WorkersOnward
  <2> QED
    BY <1>1, <1>4, <1>8, <2>1 DEF Next, Requesting, Time

LEMMA HistoryStep ==
  ASSUME LeaseInv, [Next]_vars
  PROVE  crawls' \in [Jobs -> Nat] /\ faults' \in 0..MaxFaults
<1> DEFINE Typed == crawls' \in [Jobs -> Nat] /\ faults' \in 0..MaxFaults
<1> USE DEF LeaseInv, TypeOK, HistoryTypeOK
<1>1. ASSUME NEW w \in Workers, BeginCrawl(w) PROVE Typed
  <2>1. crawls' = [crawls EXCEPT ![at[w]] = @ + 1] /\ faults' = faults
    BY <1>1 DEF BeginCrawl
  <2>2. at[w] \in Jobs /\ crawls[at[w]] \in Nat
    BY <1>1 DEF BeginCrawl, WorkersTypeOK
  <2>3. crawls' \in [Jobs -> Nat]
    BY <2>1, <2>2
  <2> QED
    BY <2>1, <2>3
<1>2. ASSUME NEW w \in Workers, Publish(w) \/ Crash(w) \/ CatchFails(w) PROVE Typed
  <2>1. /\ crawls' = crawls
        /\ faults' = faults \/ (faults < MaxFaults /\ faults' = faults + 1)
    BY <1>2 DEF Publish, Crash, CatchFails
  <2> QED
    BY <2>1
<1>3. ASSUME NEW w \in Workers,
             \/ FindNext(w) \/ Claim(w) \/ ClaimMissed(w) \/ TakeSiteLease(w)
             \/ MissSiteLease(w) \/ CheckSite(w) \/ RequeueSiteBusy(w)
             \/ FailSiteGone(w) \/ ArchiveBusy(w) \/ Defer(w)
             \/ \E label \in Failing : Throw(w, label)
             \/ MarkAnalysing(w) \/ LeaseLost(w) \/ MarkRetry(w) \/ MarkFailed(w)
             \/ MarkNothing(w) \/ ReleaseClaim(w) \/ ReleaseSlot(w)
             \/ ReleaseSite(w) \/ Heartbeat(w)
      PROVE  UNCHANGED <<crawls, faults>>
  BY <1>3 DEF FindNext, Claim, ClaimMissed, TakeSiteLease, MissSiteLease, CheckSite,
     RequeueSiteBusy, FailSiteGone, ArchiveBusy, Defer, Throw, MarkAnalysing,
     LeaseLost, MarkRetry, MarkFailed, MarkNothing, ReleaseClaim, ReleaseSlot,
     ReleaseSite, Heartbeat, histVars
<1>4. ASSUME \/ \E j \in Jobs : \/ \E r \in Requests : Authorise(j, r)
                                \/ Admit(j) \/ Refuse(j)
                                \/ LeaseExpires(j) \/ DelayElapses(j)
             \/ \E s \in Sites : SiteLeaseExpires(s)
             \/ \E k \in Actors \X Targets : ClaimExpires(k)
             \/ Deletion
             \/ UNCHANGED vars
      PROVE  UNCHANGED <<crawls, faults>>
  BY <1>4 DEF Authorise, Admit, Refuse, LeaseExpires, DelayElapses, SiteLeaseExpires,
     ClaimExpires, Deletion, DeleteWebsite, DeleteUserAccount, DeleteJobs, vars,
     histVars
<1>5. UNCHANGED <<crawls, faults>> => Typed
  OBVIOUS
<1> HIDE DEF LeaseInv, Typed
<1>6. Typed
  BY <1>1, <1>2, <1>3, <1>4, <1>5 DEF Next, Worker, Attempt, Requesting, Time
<1> QED
  BY <1>6 DEF Typed

LEMMA LeaseStep == LeaseInv /\ [Next]_vars => LeaseInv'
  BY JobsStep, AdmissionStep, SitesStep, WorkersStep, HistoryStep
  DEF LeaseInv, TypeOK, JobsOnward, WorkersOnward, HistoryTypeOK

\* Every variable keeps its type; attempts needs LeasedRuns for that, because an
\* attempt is only refunded to the invocation whose claim counted it.
THEOREM TypeCorrect == Spec => []TypeOK
<1>1. LeaseInv => TypeOK
  BY DEF LeaseInv
<1> QED
  BY LeaseInit, LeaseStep, <1>1, PTL DEF Spec

\* A completed or failed job is never reopened, by whatever stale invocation,
\* takeover or lost acknowledgement: every write to a job is fenced by a lease
\* id, and a job that has ended carries none.
THEOREM TerminalStays == Spec => TerminalIsFinal
<1>1. LeaseInv /\ [Next]_vars
        => [\A j \in Jobs : status[j] \in Terminal
              => status'[j] \in {status[j], "deleted"}]_vars
  BY JobsStep DEF JobsOnward, StatusOnward
<1> QED
  BY LeaseInit, LeaseStep, <1>1, PTL DEF Spec, TerminalIsFinal

-----------------------------------------------------------------------------
(***************************************************************************)
(* Capacity                                                                *)
(***************************************************************************)
LEMMA SmallerByOne ==
  ASSUME NEW S, NEW T, NEW x, IsFiniteSet(S), x \in S, T \subseteq S \ {x}
  PROVE  Cardinality(T) <= Cardinality(S) - 1
<1>1. IsFiniteSet(S \ {x}) /\ Cardinality(S \ {x}) = Cardinality(S) - 1
  BY FS_RemoveElement
<1>2. Cardinality(T) <= Cardinality(S \ {x})
  BY <1>1, FS_Subset
<1> QED
  BY <1>1, <1>2

LEMMA LargerByOne ==
  ASSUME NEW S, NEW T, NEW x, IsFiniteSet(S), T \subseteq S \cup {x}
  PROVE  Cardinality(T) <= Cardinality(S) + 1
<1>1. /\ IsFiniteSet(S \cup {x}) /\ Cardinality(S) \in Nat
      /\ Cardinality(S \cup {x}) \in {Cardinality(S), Cardinality(S) + 1}
  BY FS_AddElement, FS_CardinalityType
<1>2. IsFiniteSet(T) /\ Cardinality(T) <= Cardinality(S \cup {x})
  BY <1>1, FS_Subset
<1>3. Cardinality(T) \in Nat
  BY <1>2, FS_CardinalityType
<1> QED
  BY <1>1, <1>2, <1>3

LEMMA FiniteParts ==
  /\ IsFiniteSet(OpenJobs) /\ Cardinality(OpenJobs) \in Nat
  /\ IsFiniteSet(ReleasingNow) /\ Cardinality(ReleasingNow) \in Nat
<1>1. OpenJobs \subseteq Jobs /\ ReleasingNow \subseteq Workers
  BY DEF OpenJobs, ReleasingNow
<1> QED
  BY <1>1, FS_Subset, FS_CardinalityType DEF ConstantsAssumption

LEMMA FinitePartsNext ==
  /\ IsFiniteSet(OpenJobs') /\ Cardinality(OpenJobs') \in Nat
  /\ IsFiniteSet(ReleasingNow') /\ Cardinality(ReleasingNow') \in Nat
<1>1. OpenJobs' \subseteq Jobs /\ ReleasingNow' \subseteq Workers
  BY DEF OpenJobs, ReleasingNow
<1> QED
  BY <1>1, FS_Subset, FS_CardinalityType DEF ConstantsAssumption

\* A step that opens no job and starts no release needs no more capacity.
LEMMA CapacityKept ==
  ASSUME CapacityCovered, activeCount \in Nat, activeCount' = activeCount,
         OpenJobs' \subseteq OpenJobs, ReleasingNow' \subseteq ReleasingNow
  PROVE  CapacityCovered'
<1>1. /\ Cardinality(OpenJobs') <= Cardinality(OpenJobs)
      /\ Cardinality(ReleasingNow') <= Cardinality(ReleasingNow)
  BY FiniteParts, FS_Subset
<1> QED
  BY <1>1, FiniteParts, FinitePartsNext DEF CapacityCovered

LEMMA CapacityStep ==
  ASSUME LeaseInv, CapacityCovered, [Next]_vars
  PROVE  CapacityCovered'
<1>0. /\ activeCount \in Nat
      /\ status \in [Jobs -> Status] /\ pc \in [Workers -> PC]
      /\ \A w \in Workers : pc[w] # "idle" => at[w] \in Jobs
  BY DEF LeaseInv, TypeOK, AdmissionTypeOK, JobsTypeOK, WorkersTypeOK
<1>1. CASE \E j \in Jobs : Admit(j)
  <2>1. PICK j \in Jobs : Admit(j)
    BY <1>1
  <2>2. j \notin OpenJobs /\ OpenJobs' = OpenJobs \cup {j}
    BY <1>0, <2>1 DEF Admit, OpenJobs, Active, Running
  <2>3. ReleasingNow' = ReleasingNow
    BY <1>0, <2>1 DEF Admit, Select, Fresh, workVars, ReleasingNow, Releasing
  <2>4. activeCount' = activeCount + 1
    BY <2>1 DEF Admit
  <2>5. Cardinality(OpenJobs') = Cardinality(OpenJobs) + 1
    BY <2>2, FiniteParts, FS_AddElement
  <2> QED
    BY <1>0, <2>3, <2>4, <2>5, FiniteParts DEF CapacityCovered
<1>2. CASE ~ \E j \in Jobs : Admit(j)
  <2>1. OpenJobs' \subseteq OpenJobs
    BY <1>2, JobsStep DEF JobsOnward, StatusOnward, OpenJobs
  <2>2. ASSUME NEW w \in Workers, Publish(w) PROVE CapacityCovered'
    <3>1. at[w] \in OpenJobs /\ at[w] \notin OpenJobs'
      BY <1>0, <2>2
      DEF Publish, MayPublish, LeaseHeld, Holds, LeaseInv, LeasedRuns, OpenJobs,
          Active, Running
    <3>2. ReleasingNow' \subseteq ReleasingNow
      BY <1>0, <2>2 DEF Publish, AfterAttempt, ReleasingNow, Releasing
    <3>3. Cardinality(OpenJobs') <= Cardinality(OpenJobs) - 1
      BY <2>1, <3>1, FiniteParts, SmallerByOne
    <3>4. Cardinality(ReleasingNow') <= Cardinality(ReleasingNow)
      BY <3>2, FiniteParts, FS_Subset
    <3>5. activeCount' >= activeCount - 1
      BY <1>0, <2>2 DEF Publish, ReleaseSlotOf
    <3>6. activeCount' \in Nat
      BY <1>0, <2>2 DEF Publish, ReleaseSlotOf
    <3> QED
      BY <1>0, <3>3, <3>4, <3>5, <3>6, FiniteParts, FinitePartsNext
      DEF CapacityCovered
  <2>3. ASSUME NEW w \in Workers, MarkFailed(w) PROVE CapacityCovered'
    <3>1. at[w] \in OpenJobs /\ at[w] \notin OpenJobs'
      BY <1>0, <2>3
      DEF MarkFailed, Failing, Holds, LeaseInv, LeasedRuns, OpenJobs, Active, Running
    <3>2. ReleasingNow' \subseteq ReleasingNow \cup {w} /\ w \notin ReleasingNow
      BY <1>0, <2>3 DEF MarkFailed, Failing, Goto, ReleasingNow, Releasing
    <3>3. Cardinality(OpenJobs') <= Cardinality(OpenJobs) - 1
      BY <2>1, <3>1, FiniteParts, SmallerByOne
    <3>4. Cardinality(ReleasingNow') <= Cardinality(ReleasingNow) + 1
      BY <3>2, FiniteParts, LargerByOne
    <3>5. activeCount' = activeCount
      BY <2>3 DEF MarkFailed, claimVars
    <3> QED
      BY <1>0, <3>3, <3>4, <3>5, FiniteParts, FinitePartsNext DEF CapacityCovered
  <2>4. ASSUME NEW w \in Workers, ReleaseSlot(w) PROVE CapacityCovered'
    <3>1. w \in ReleasingNow /\ ReleasingNow' \subseteq ReleasingNow \ {w}
      BY <1>0, <2>4 DEF ReleaseSlot, Leave, Idle, Goto, ReleasingNow, Releasing
    <3>2. Cardinality(ReleasingNow') <= Cardinality(ReleasingNow) - 1
      BY <3>1, FiniteParts, SmallerByOne
    <3>3. Cardinality(OpenJobs') <= Cardinality(OpenJobs)
      BY <2>1, FiniteParts, FS_Subset
    <3>4. activeCount' >= activeCount - 1 /\ activeCount' \in Nat
      BY <1>0, <2>4 DEF ReleaseSlot, ReleaseSlotOf
    <3> QED
      BY <1>0, <3>2, <3>3, <3>4, FiniteParts, FinitePartsNext DEF CapacityCovered
  <2>5. ASSUME UNCHANGED activeCount, ReleasingNow' \subseteq ReleasingNow
        PROVE  CapacityCovered'
    BY <1>0, <2>1, <2>5, CapacityKept
  <2>6. ASSUME NEW w \in Workers,
               Idle(w) \/ Leave(w) \/ \E label \in PC \ Releasing : Goto(w, label)
        PROVE  ReleasingNow' \subseteq ReleasingNow
    BY <1>0, <2>6 DEF Idle, Leave, Goto, ReleasingNow, Releasing
  <2>7. ASSUME NEW w \in Workers, FindNext(w) \/ ReleaseClaim(w) \/ Heartbeat(w)
        PROVE  UNCHANGED activeCount /\ ReleasingNow' \subseteq ReleasingNow
    BY <1>0, <2>7 DEF FindNext, Select, ReleaseClaim, Goto, Heartbeat, claimVars,
       workVars, ReleasingNow, Releasing
  <2>8. ASSUME \E k \in Actors \X Targets : ClaimExpires(k)
        PROVE  UNCHANGED activeCount /\ ReleasingNow' \subseteq ReleasingNow
    BY <2>8 DEF ClaimExpires, workVars, ReleasingNow
  <2>9. ASSUME UNCHANGED claimVars /\ UNCHANGED <<pc, at, overtaken>>
        PROVE  UNCHANGED activeCount /\ ReleasingNow' \subseteq ReleasingNow
    BY <2>9 DEF claimVars, ReleasingNow
  <2>10. ASSUME NEW w \in Workers, Worker(w) PROVE CapacityCovered'
    BY <2>2, <2>3, <2>4, <2>5, <2>6, <2>7, <2>10, AdmissionQuiet, MovingActions
    DEF Worker, Attempt, claimVars
  <2> QED
    BY <1>2, <2>5, <2>8, <2>9, <2>10, RequestQuiet DEF Next, Requesting, Time
<1> QED
  BY <1>1, <1>2

LEMMA CapacityInit == Init => CapacityCovered
<1> SUFFICES ASSUME Init PROVE CapacityCovered
  OBVIOUS
<1>1. OpenJobs = {} /\ ReleasingNow = {} /\ activeCount = 0
  BY DEF Init, OpenJobs, Active, Running, ReleasingNow, Releasing
<1> QED
  BY <1>1, FS_EmptySet DEF CapacityCovered

\* The queue document pays for every open job and for every failed one that is
\* still being released: the fenced mark that precedes each decrement is done by
\* one invocation only.
THEOREM CapacityIsCovered == Spec => []CapacityCovered
  BY LeaseInit, LeaseStep, CapacityInit, CapacityStep, PTL DEF Spec

-----------------------------------------------------------------------------
(***************************************************************************)
(* Attempts and crawls                                                     *)
(***************************************************************************)
\* An invocation that neither claims nor starts to crawl nor gives an attempt
\* back; it may come nearer to its crawl or give it up.
LEMMA StartingActions ==
  ASSUME NEW w \in Workers, LeaseInv,
         \/ FindNext(w) \/ ClaimMissed(w) \/ TakeSiteLease(w) \/ MissSiteLease(w)
         \/ CheckSite(w) \/ FailSiteGone(w) \/ ArchiveBusy(w)
         \/ \E label \in Failing : Throw(w, label)
         \/ MarkAnalysing(w) \/ LeaseLost(w) \/ Publish(w) \/ MarkRetry(w)
         \/ MarkFailed(w) \/ MarkNothing(w) \/ ReleaseClaim(w) \/ ReleaseSlot(w)
         \/ ReleaseSite(w) \/ Heartbeat(w) \/ Crash(w) \/ CatchFails(w)
  PROVE  /\ UNCHANGED <<attempts, crawls>>
         /\ \A j \in Jobs : Starting(j)' \subseteq Starting(j)
<1>0. pc \in [Workers -> PC] /\ at \in [Workers -> Jobs \cup {NoJob}]
  BY DEF LeaseInv, TypeOK, WorkersTypeOK
<1>1. UNCHANGED <<attempts, crawls>>
  BY DEF FindNext, ClaimMissed, TakeSiteLease, MissSiteLease, CheckSite, FailSiteGone,
     ArchiveBusy, Throw, MarkAnalysing, LeaseLost, Publish, MarkRetry, MarkFailed,
     MarkNothing, ReleaseClaim, ReleaseSlot, ReleaseSite, Heartbeat, Crash,
     CatchFails, jobVars, histVars
<1> DEFINE Nearer ==
      /\ \A v \in Workers \ {w} : pc'[v] = pc[v] /\ at'[v] = at[v]
      /\ pc'[w] \in PreCrawl => pc[w] \in PreCrawl /\ at'[w] = at[w]
<1>2. Nearer
  <2>1. ASSUME Goto(w, "siteCheck") \/ Goto(w, "ready") \/ Goto(w, "siteBusy")
                 \/ Goto(w, "siteGone") \/ Goto(w, "deferring"),
               pc[w] \in PreCrawl
        PROVE  Nearer
    BY <1>0, <2>1 DEF Goto
  <2>2. ASSUME NEW label \in PC \ PreCrawl, Goto(w, label) PROVE Nearer
    BY <1>0, <2>2 DEF Goto
  <2>3. ASSUME Idle(w) \/ Leave(w) PROVE Nearer
    BY <1>0, <2>3 DEF Idle, Leave, Goto, PreCrawl
  <2>4. CASE TakeSiteLease(w) \/ MissSiteLease(w) \/ CheckSite(w) \/ ArchiveBusy(w)
    BY <2>1, <2>4 DEF TakeSiteLease, MissSiteLease, CheckSite, ArchiveBusy, PreCrawl
  <2>5. CASE ClaimMissed(w) \/ FailSiteGone(w) \/ LeaseLost(w) \/ MarkRetry(w)
             \/ MarkNothing(w) \/ ReleaseSlot(w) \/ ReleaseSite(w) \/ Crash(w)
             \/ CatchFails(w)
    BY <2>3, <2>5 DEF ClaimMissed, FailSiteGone, LeaseLost, MarkRetry, MarkNothing,
       ReleaseSlot, ReleaseSite, Crash, CatchFails
  <2>6. CASE \/ MarkAnalysing(w) \/ MarkFailed(w) \/ ReleaseClaim(w)
             \/ \E label \in Failing : Throw(w, label)
    BY <2>2, <2>6 DEF MarkAnalysing, MarkFailed, ReleaseClaim, Throw, Failing, PC,
       Releasing, PreCrawl
  <2>7. CASE FindNext(w)
    BY <1>0, <2>7 DEF FindNext, Select, PreCrawl
  <2>8. CASE Publish(w)
    BY <1>0, <2>8 DEF Publish, AfterAttempt, PreCrawl
  <2>9. CASE Heartbeat(w)
    BY <2>9 DEF Heartbeat, workVars
  <2> QED
    BY <2>4, <2>5, <2>6, <2>7, <2>8, <2>9
<1> QED
  BY <1>1, <1>2 DEF Starting

LEMMA StartingFinite ==
  ASSUME NEW j
  PROVE  /\ IsFiniteSet(Starting(j)) /\ Cardinality(Starting(j)) \in Nat
         /\ IsFiniteSet(Starting(j)') /\ Cardinality(Starting(j)') \in Nat
<1>1. Starting(j) \subseteq Workers /\ Starting(j)' \subseteq Workers
  BY DEF Starting
<1> QED
  BY <1>1, FS_Subset, FS_CardinalityType DEF ConstantsAssumption

LEMMA CrawlsInit == Init => CrawlsWithinAttempts
<1> SUFFICES ASSUME Init, NEW j \in Jobs
             PROVE  /\ crawls[j] + Cardinality(Starting(j)) <= attempts[j]
                    /\ attempts[j] <= MaxAttempts
  BY DEF CrawlsWithinAttempts
<1>1. Starting(j) = {} /\ crawls[j] = 0 /\ attempts[j] = 0
  BY DEF Init, Starting, PreCrawl
<1> QED
  BY <1>1, FS_EmptySet

\* The budget of one job is kept when neither term of it grows by itself.
LEMMA BudgetKept ==
  ASSUME LeaseInv, CrawlsWithinAttempts, NEW j \in Jobs,
         attempts'[j] = attempts[j], crawls'[j] = crawls[j],
         Starting(j)' \subseteq Starting(j)
  PROVE  crawls'[j] + Cardinality(Starting(j)') <= attempts'[j]
<1>1. crawls[j] \in Nat /\ attempts[j] \in 0..MaxAttempts
  BY DEF LeaseInv, TypeOK, HistoryTypeOK, JobsTypeOK
<1>2. Cardinality(Starting(j)') <= Cardinality(Starting(j))
  BY StartingFinite, FS_Subset
<1> QED
  BY <1>1, <1>2, StartingFinite DEF CrawlsWithinAttempts

LEMMA CrawlsStep ==
  ASSUME LeaseInv, LeaseInv', CrawlsWithinAttempts, [Next]_vars
  PROVE  CrawlsWithinAttempts'
<1> DEFINE Budget(j) == crawls'[j] + Cardinality(Starting(j)') <= attempts'[j]
<1>0. /\ pc \in [Workers -> PC] /\ at \in [Workers -> Jobs \cup {NoJob}]
      /\ \A w \in Workers : pc[w] # "idle" => at[w] \in Jobs
      /\ attempts \in [Jobs -> 0..MaxAttempts] /\ crawls \in [Jobs -> Nat]
  BY DEF LeaseInv, TypeOK, WorkersTypeOK, JobsTypeOK, HistoryTypeOK
<1>1. SUFFICES ASSUME NEW j \in Jobs PROVE Budget(j)
  <2>1. \A j \in Jobs : attempts'[j] <= MaxAttempts
    BY DEF LeaseInv, TypeOK, JobsTypeOK
  <2> QED
    BY <1>1, <2>1 DEF CrawlsWithinAttempts
<1>2. ASSUME attempts'[j] = attempts[j], crawls'[j] = crawls[j],
             Starting(j)' \subseteq Starting(j)
      PROVE  Budget(j)
  BY <1>2, BudgetKept
<1>3. crawls[j] + Cardinality(Starting(j)) <= attempts[j]
  BY DEF CrawlsWithinAttempts
<1>4. ASSUME NEW w \in Workers, Claim(w) PROVE Budget(j)
  <2>1. /\ pc[w] = "selected" /\ at' = at /\ crawls' = crawls
        /\ attempts' = [attempts EXCEPT ![at[w]] = @ + 1]
        /\ \E label \in PreCrawl : pc' = [pc EXCEPT ![w] = label]
    BY <1>4 DEF Claim, Goto, PreCrawl
  <2>2. CASE at[w] = j
    <3>1. w \notin Starting(j) /\ Starting(j)' \subseteq Starting(j) \cup {w}
      BY <1>0, <2>1 DEF Starting, PreCrawl
    <3>2. Cardinality(Starting(j)') <= Cardinality(Starting(j)) + 1
      BY <3>1, StartingFinite, LargerByOne
    <3>3. attempts'[j] = attempts[j] + 1
      BY <1>0, <2>1, <2>2
    <3> QED
      BY <1>0, <1>3, <2>1, <3>2, <3>3, StartingFinite
  <2>3. CASE at[w] # j
    <3>1. Starting(j)' \subseteq Starting(j) /\ attempts'[j] = attempts[j]
      BY <1>0, <2>1, <2>3 DEF Starting
    <3> QED
      BY <1>2, <2>1, <3>1
  <2> QED
    BY <2>2, <2>3
<1>5. ASSUME NEW w \in Workers, RequeueSiteBusy(w) \/ Defer(w) PROVE Budget(j)
  <2>1. /\ pc[w] \in PreCrawl /\ at[w] \in Jobs /\ crawls' = crawls
        /\ Idle(w) \/ Leave(w)
        /\ Requeue(w, at[w])
    BY <1>0, <1>5 DEF RequeueSiteBusy, Defer, PreCrawl
  <2>2. \/ attempts' = attempts
        \/ attempts' = [attempts EXCEPT ![at[w]] = @ - 1]
    BY <2>1 DEF Requeue
  <2>3. /\ \A v \in Workers \ {w} : pc'[v] = pc[v] /\ at'[v] = at[v]
        /\ pc'[w] \notin PreCrawl
    BY <1>0, <2>1 DEF Idle, Leave, Goto, PreCrawl
  <2>4. Starting(j)' \subseteq Starting(j) \ {w}
    BY <2>3 DEF Starting
  <2>5. CASE at[w] = j
    <3>1. w \in Starting(j)
      BY <2>1, <2>5 DEF Starting
    <3>2. Cardinality(Starting(j)') <= Cardinality(Starting(j)) - 1
      BY <2>4, <3>1, StartingFinite, SmallerByOne
    <3>3. attempts'[j] \in {attempts[j], attempts[j] - 1}
      BY <1>0, <2>2, <2>5
    <3> QED
      BY <1>0, <1>3, <2>1, <3>2, <3>3, StartingFinite
  <2>6. CASE at[w] # j
    <3>1. attempts'[j] = attempts[j]
      BY <1>0, <2>1, <2>2, <2>6
    <3> QED
      BY <1>2, <2>1, <2>4, <3>1
  <2> QED
    BY <2>5, <2>6
<1>6. ASSUME NEW w \in Workers, BeginCrawl(w) PROVE Budget(j)
  <2>1. /\ pc[w] = "ready" /\ at' = at /\ pc' = [pc EXCEPT ![w] = "crawling"]
        /\ attempts' = attempts /\ crawls' = [crawls EXCEPT ![at[w]] = @ + 1]
    BY <1>6 DEF BeginCrawl, Goto, jobVars
  <2>2. Starting(j)' \subseteq Starting(j) \ {w}
    BY <1>0, <2>1 DEF Starting, PreCrawl
  <2>3. CASE at[w] = j
    <3>1. w \in Starting(j)
      BY <2>1, <2>3 DEF Starting, PreCrawl
    <3>2. Cardinality(Starting(j)') <= Cardinality(Starting(j)) - 1
      BY <2>2, <3>1, StartingFinite, SmallerByOne
    <3>3. crawls'[j] = crawls[j] + 1
      BY <1>0, <2>1, <2>3
    <3> QED
      BY <1>0, <1>3, <2>1, <3>2, <3>3, StartingFinite
  <2>4. CASE at[w] # j
    <3>1. crawls'[j] = crawls[j]
      BY <1>0, <2>1, <2>4
    <3> QED
      BY <1>2, <2>1, <2>2, <3>1
  <2> QED
    BY <2>3, <2>4
<1>7. ASSUME NEW i \in Jobs, Admit(i) PROVE Budget(j)
  <2>1. UNCHANGED <<attempts, crawls>>
    BY <1>7 DEF Admit, histVars
  <2>2. Starting(j)' \subseteq Starting(j)
    BY <1>0, <1>7 DEF Admit, Select, workVars, Starting, PreCrawl
  <2> QED
    BY <1>2, <2>1, <2>2
<1>8. ASSUME UNCHANGED <<pc, at, attempts, crawls>> PROVE Budget(j)
  BY <1>2, <1>8 DEF Starting
<1>9. ASSUME \/ \E i \in Jobs : \/ \E r \in Requests : Authorise(i, r)
                                \/ Refuse(i) \/ LeaseExpires(i) \/ DelayElapses(i)
             \/ \E s \in Sites : SiteLeaseExpires(s)
             \/ \E k \in Actors \X Targets : ClaimExpires(k)
             \/ Deletion
             \/ UNCHANGED vars
      PROVE  UNCHANGED <<pc, at, attempts, crawls>>
  BY <1>9 DEF Authorise, Refuse, LeaseExpires, DelayElapses, SiteLeaseExpires,
     ClaimExpires, Deletion, DeleteWebsite, DeleteUserAccount, DeleteJobs, vars,
     workVars, histVars, jobVars
<1>10. ASSUME NEW w \in Workers, Worker(w) PROVE Budget(j)
  <2> HIDE DEF Budget
  <2> QED
    BY <1>2, <1>4, <1>5, <1>6, <1>10, StartingActions DEF Worker, Attempt
<1> HIDE DEF Budget
<1> QED
  BY <1>7, <1>8, <1>9, <1>10 DEF Next, Requesting, Time

\* No job's target is crawled more often than its attempts allow, however many
\* invocations carry stale claims of it, wait for a site or for the archive, and
\* give their attempt back.
THEOREM CrawlsAreBounded == Spec => []CrawlsWithinAttempts
  BY LeaseInit, LeaseStep, CrawlsInit, CrawlsStep, PTL DEF Spec


-----------------------------------------------------------------------------
(***************************************************************************)
(* The lease that runs                                                     *)
(***************************************************************************)
LEMMA LiveStep ==
  ASSUME LeaseInv, LiveIsLeased, [Next]_vars
  PROVE  LiveIsLeased'
<1> USE DEF LeaseInv, TypeOK, JobsTypeOK, LiveIsLeased
<1>1. ASSUME UNCHANGED jobVars PROVE LiveIsLeased'
  BY <1>1 DEF jobVars
<1>2. ASSUME UNCHANGED <<lease, leaseLive>> PROVE LiveIsLeased'
  BY <1>2
<1>3. ASSUME NEW j \in Jobs, DropLease(j) PROVE LiveIsLeased'
  BY <1>3 DEF DropLease
<1>4. ASSUME NEW w \in Workers, Claim(w) PROVE LiveIsLeased'
  <2>1. /\ lease' = [lease EXCEPT ![at[w]] = w]
        /\ leaseLive' = [leaseLive EXCEPT ![at[w]] = TRUE]
        /\ at[w] \in Jobs /\ w # Nobody
    BY <1>4 DEF Claim, WorkersTypeOK
  <2> QED
    BY <2>1
<1>5. ASSUME NEW w \in Workers, Heartbeat(w) PROVE LiveIsLeased'
  <2>1. /\ lease' = lease /\ w # Nobody
        /\ \/ leaseLive' = leaseLive
           \/ lease[at[w]] = w /\ leaseLive' = [leaseLive EXCEPT ![at[w]] = TRUE]
    BY <1>5 DEF Heartbeat, Holds
  <2> QED
    BY <2>1
<1>6. ASSUME NEW j \in Jobs, LeaseExpires(j) PROVE LiveIsLeased'
  BY <1>6 DEF LeaseExpires
<1>7. ASSUME NEW gone, DeleteJobs(gone) PROVE LiveIsLeased'
  BY <1>7 DEF DeleteJobs
<1>8. ASSUME NEW w \in Workers,
             \/ RequeueSiteBusy(w) \/ Defer(w) \/ FailSiteGone(w) \/ Publish(w)
             \/ MarkRetry(w) \/ MarkFailed(w)
      PROVE  LiveIsLeased'
  <2>1. at[w] \in Jobs
    BY <1>8 DEF RequeueSiteBusy, Defer, FailSiteGone, Publish, MarkRetry, MarkFailed,
       Failing, WorkersTypeOK
  <2>2. DropLease(at[w]) \/ UNCHANGED <<lease, leaseLive>>
    BY <1>8 DEF RequeueSiteBusy, Defer, FailSiteGone, Publish, MarkRetry, MarkFailed,
       Requeue
  <2> HIDE DEF LiveIsLeased
  <2> QED
    BY <1>2, <1>3, <2>1, <2>2
<1>9. ASSUME NEW w \in Workers, MarkAnalysing(w) PROVE LiveIsLeased'
  BY <1>2, <1>9 DEF MarkAnalysing
<1>10. ASSUME NEW j \in Jobs,
              \/ \E r \in Requests : Authorise(j, r)
              \/ Admit(j) \/ Refuse(j) \/ DelayElapses(j)
       PROVE  LiveIsLeased'
  BY <1>2, <1>10 DEF Authorise, Admit, Refuse, DelayElapses
<1>11. ASSUME \/ \E s \in Sites : SiteLeaseExpires(s)
              \/ \E k \in Actors \X Targets : ClaimExpires(k)
              \/ UNCHANGED vars
       PROVE  LiveIsLeased'
  BY <1>1, <1>11 DEF SiteLeaseExpires, ClaimExpires, vars
<1>12. ASSUME Deletion PROVE LiveIsLeased'
  BY <1>7, <1>12 DEF Deletion, DeleteWebsite, DeleteUserAccount
<1> QED
  <2> HIDE DEF LiveIsLeased
  <2> QED
    BY QuietActions, <1>1, <1>4, <1>5, <1>6, <1>8, <1>9, <1>10, <1>11, <1>12
    DEF Next, Worker, Attempt, Requesting, Time

\* Whoever writes a new lease on a job has claimed it.
LEMMA LeaseMoves ==
  ASSUME LeaseInv, [Next]_vars
  PROVE  \/ \E w \in Workers : Claim(w)
         \/ \A j \in Jobs : lease'[j] \in {lease[j], Nobody}
<1> DEFINE Kept == \A j \in Jobs : lease'[j] \in {lease[j], Nobody}
<1> USE DEF LeaseInv, TypeOK, JobsTypeOK
<1>1. ASSUME UNCHANGED jobVars \/ UNCHANGED lease PROVE Kept
  BY <1>1 DEF jobVars
<1>2. ASSUME NEW gone, DeleteJobs(gone) PROVE Kept
  BY <1>2 DEF DeleteJobs
<1>3. ASSUME NEW w \in Workers,
             \/ RequeueSiteBusy(w) \/ Defer(w) \/ FailSiteGone(w) \/ Publish(w)
             \/ MarkRetry(w) \/ MarkFailed(w) \/ MarkAnalysing(w) \/ Heartbeat(w)
      PROVE  Kept
  BY <1>3 DEF RequeueSiteBusy, Defer, FailSiteGone, Publish, MarkRetry, MarkFailed,
     Requeue, DropLease, MarkAnalysing, Heartbeat
<1>4. ASSUME NEW j \in Jobs,
             \/ \E r \in Requests : Authorise(j, r)
             \/ Admit(j) \/ Refuse(j) \/ DelayElapses(j) \/ LeaseExpires(j)
      PROVE  Kept
  BY <1>1, <1>4 DEF Authorise, Admit, Refuse, DelayElapses, LeaseExpires
<1>5. ASSUME \/ \E s \in Sites : SiteLeaseExpires(s)
             \/ \E k \in Actors \X Targets : ClaimExpires(k)
             \/ UNCHANGED vars
      PROVE  Kept
  BY <1>1, <1>5 DEF SiteLeaseExpires, ClaimExpires, vars
<1>6. ASSUME Deletion PROVE Kept
  BY <1>2, <1>6 DEF Deletion, DeleteWebsite, DeleteUserAccount
<1> HIDE DEF Kept
<1>7. (\E w \in Workers : Claim(w)) \/ Kept
  BY QuietActions, <1>1, <1>3, <1>4, <1>5, <1>6
  DEF Next, Worker, Attempt, Requesting, Time
<1> QED
  BY <1>7 DEF Kept

\* No invocation takes a job over from one whose lease still runs, however stale
\* the candidate it has chosen.
THEOREM NoTakeover == Spec => NoLiveTakeover
<1>1. LeaseInv /\ LiveIsLeased /\ [Next]_vars
        => [\A j \in Jobs : leaseLive[j] /\ lease'[j] # lease[j]
                              => lease'[j] = Nobody]_vars
  <2> SUFFICES ASSUME LeaseInv, LiveIsLeased, [Next]_vars, NEW j \in Jobs,
                      leaseLive[j], lease'[j] # lease[j]
               PROVE  lease'[j] = Nobody
    OBVIOUS
  <2>1. ASSUME NEW w \in Workers, Claim(w) PROVE FALSE
    <3>1. at[w] = j
      BY <2>1 DEF Claim, LeaseInv, TypeOK, JobsTypeOK
    <3>2. status[j] \in Running
      BY DEF LiveIsLeased, LeaseInv, LeasedRuns
    <3> QED
      BY <2>1, <3>1, <3>2 DEF Claim, Claimable, Running
  <2> QED
    BY <2>1, LeaseMoves
<1>2. Init => LiveIsLeased
  BY DEF Init, LiveIsLeased
<1> QED
  BY <1>1, <1>2, LeaseInit, LeaseStep, LiveStep, PTL DEF Spec, NoLiveTakeover

-----------------------------------------------------------------------------
(***************************************************************************)
(* Claims                                                                  *)
(***************************************************************************)
\* What a job was created with is not written again once it is stored.
RequestKept ==
  \A j \in Jobs : status[j] \notin {"none", "authorised"} => req'[j] = req[j]

LEMMA RequestStep ==
  ASSUME LeaseInv, [Next]_vars
  PROVE  RequestKept
<1> USE DEF LeaseInv, TypeOK, JobsTypeOK
<1>1. ASSUME UNCHANGED req PROVE RequestKept
  BY <1>1 DEF RequestKept
<1>2. ASSUME NEW j \in Jobs, Refuse(j) \/ \E r \in Requests : Authorise(j, r)
      PROVE  RequestKept
  BY <1>2 DEF Refuse, Authorise, RequestKept
<1>3. ASSUME NEW w \in Workers,
             \/ Claim(w) \/ RequeueSiteBusy(w) \/ FailSiteGone(w) \/ Defer(w)
             \/ MarkAnalysing(w) \/ Publish(w) \/ MarkRetry(w) \/ MarkFailed(w)
             \/ Heartbeat(w)
      PROVE  UNCHANGED req
  BY <1>3 DEF Claim, RequeueSiteBusy, FailSiteGone, Defer, MarkAnalysing, Publish,
     MarkRetry, MarkFailed, Heartbeat
<1>4. ASSUME \/ \E j \in Jobs : Admit(j) \/ LeaseExpires(j) \/ DelayElapses(j)
             \/ \E s \in Sites : SiteLeaseExpires(s)
             \/ \E k \in Actors \X Targets : ClaimExpires(k)
             \/ Deletion
             \/ UNCHANGED vars
      PROVE  UNCHANGED req
  BY <1>4 DEF Admit, LeaseExpires, DelayElapses, SiteLeaseExpires, ClaimExpires,
     Deletion, DeleteWebsite, DeleteUserAccount, DeleteJobs, vars, jobVars
<1>5. UNCHANGED jobVars => UNCHANGED req
  BY DEF jobVars
<1> HIDE DEF LeaseInv
<1> QED
  BY QuietActions, <1>1, <1>2, <1>3, <1>4, <1>5 DEF Next, Worker, Attempt, Requesting, Time

\* The claim of a job that has just ended, or is being released, is dropped; the
\* claims of other jobs are not.
LEMMA ReleaseKeepsOthers ==
  ASSUME NEW j, NEW i, claim[KeyOf(i)] = i, i # j, ReleaseClaimOf(j)
  PROVE  claim'[KeyOf(i)] = i
<1>1. CASE claim[KeyOf(j)] = j
  <2>1. KeyOf(i) # KeyOf(j)
    BY <1>1
  <2> QED
    BY <1>1, <2>1 DEF ReleaseClaimOf
<1> QED
  BY <1>1 DEF ReleaseClaimOf

LEMMA ClaimsStep ==
  ASSUME LeaseInv, ClaimsOwned, [Next]_vars
  PROVE  ClaimsOwned'
<1>1. SUFFICES ASSUME ~ClaimTtl, NEW i \in OpenJobs' PROVE claim'[KeyOf(i)'] = i
  BY DEF ClaimsOwned
<1>2. /\ claim \in [Actors \X Targets -> Jobs \cup {NoJob}]
      /\ status \in [Jobs -> Status]
      /\ \A j \in Jobs : status[j] # "none" => KeyOf(j) \in Actors \X Targets
  <2>1. \A j \in Jobs : status[j] # "none" => KeyOf(j) \in Actors \X Targets
    BY DEF LeaseInv, TypeOK, JobsTypeOK, Request, KeyOf
  <2> QED
    BY <2>1 DEF LeaseInv, TypeOK, AdmissionTypeOK, JobsTypeOK
<1>3. i \in Jobs /\ status'[i] \in Active
  BY DEF OpenJobs
<1>4. status[i] \in Active \/ Admit(i)
  BY <1>3, JobsStep DEF JobsOnward, StatusOnward
<1>5. CASE Admit(i)
  BY <1>2, <1>3, <1>5 DEF Admit, KeyOf
<1>6. CASE status[i] \in Active
  <2>1. i \in OpenJobs /\ claim[KeyOf(i)] = i
    BY <1>1, <1>3, <1>6 DEF ClaimsOwned, OpenJobs
  <2>2. KeyOf(i)' = KeyOf(i)
    BY <1>3, <1>6, RequestStep DEF RequestKept, KeyOf, Active, Running
  <2>3. ASSUME UNCHANGED claimVars PROVE claim'[KeyOf(i)] = i
    BY <2>1, <2>3 DEF claimVars
  <2>4. ASSUME NEW j \in Jobs, Admit(j) PROVE claim'[KeyOf(i)] = i
    <3>1. KeyOf(i) # KeyOf(j)
      BY <2>1, <2>4 DEF Admit, ClaimHeld
    <3> QED
      BY <2>1, <2>4, <3>1 DEF Admit
  <2>5. ASSUME NEW w \in Workers, Publish(w) PROVE claim'[KeyOf(i)] = i
    <3>1. i # at[w]
      BY <1>2, <1>3, <2>5 DEF Publish, Active, Running
    <3> QED
      BY <2>1, <2>5, <3>1, ReleaseKeepsOthers DEF Publish
  <2>6. ASSUME NEW w \in Workers, ReleaseClaim(w) PROVE claim'[KeyOf(i)] = i
    <3>1. status[at[w]] \in {"failed", "deleted"}
      BY <2>6 DEF ReleaseClaim, LeaseInv, WorkersPlaced, Releasing
    <3>2. i # at[w]
      BY <1>6, <3>1 DEF Active, Running
    <3> QED
      BY <2>1, <2>6, <3>2, ReleaseKeepsOthers DEF ReleaseClaim
  <2>7. ASSUME NEW w \in Workers, ReleaseSlot(w) PROVE claim'[KeyOf(i)] = i
    BY <2>1, <2>7 DEF ReleaseSlot
  <2>8. ~ \E k \in Actors \X Targets : ClaimExpires(k)
    BY <1>1 DEF ClaimExpires
  <2>9. claim'[KeyOf(i)] = i
    BY AdmissionQuiet, RequestQuiet, <2>3, <2>4, <2>5, <2>6, <2>7, <2>8
    DEF Next, Worker, Attempt, Requesting, Time
  <2> QED
    BY <2>2, <2>9
<1> QED
  BY <1>4, <1>5, <1>6

\* Where no TTL index removes claims, no actor ever has two open audits of one
\* target: a claim is given up only for its own job, and not before that ended.
THEOREM ClaimsAreExclusive ==
  ASSUME ~ClaimTtl
  PROVE  Spec => []OneOpenPerClaim
<1>1. Init => ClaimsOwned
  BY DEF Init, ClaimsOwned, OpenJobs, Active, Running
<1>2. ClaimsOwned => OneOpenPerClaim
  BY DEF ClaimsOwned, OneOpenPerClaim
<1> QED
  BY <1>1, <1>2, LeaseInit, LeaseStep, ClaimsStep, PTL DEF Spec

-----------------------------------------------------------------------------
(***************************************************************************)
(* Results                                                                 *)
(***************************************************************************)
ResultsKept ==
  /\ UNCHANGED <<published, sites>>
  /\ \A j \in Jobs : status'[j] = "completed" <=> status[j] = "completed"

\* Only a publication completes a job, and only a deletion removes what it stored.
LEMMA ResultMoves ==
  ASSUME LeaseInv, [Next]_vars, ~Deletion, ~ \E w \in Workers : Publish(w)
  PROVE  ResultsKept
<1> USE DEF LeaseInv, TypeOK, JobsTypeOK, Running, Stored, Active
<1>1. ASSUME NEW w \in Workers,
             \/ FindNext(w) \/ ClaimMissed(w) \/ TakeSiteLease(w) \/ MissSiteLease(w)
             \/ CheckSite(w) \/ BeginCrawl(w) \/ ArchiveBusy(w)
             \/ \E label \in Failing : Throw(w, label)
             \/ LeaseLost(w) \/ MarkNothing(w) \/ ReleaseClaim(w) \/ ReleaseSlot(w)
             \/ ReleaseSite(w) \/ Crash(w) \/ CatchFails(w) \/ Heartbeat(w)
      PROVE  ResultsKept
  BY <1>1 DEF ResultsKept, FindNext, ClaimMissed, TakeSiteLease, MissSiteLease,
     CheckSite, BeginCrawl, ArchiveBusy, Throw, LeaseLost, MarkNothing, ReleaseClaim,
     ReleaseSlot, ReleaseSite, Crash, CatchFails, Heartbeat, jobVars, siteVars
<1>2. ASSUME NEW w \in Workers, Claim(w) PROVE ResultsKept
  BY <1>2 DEF Claim, Claimable, ResultsKept, siteVars, WorkersTypeOK
<1>3. ASSUME NEW w \in Workers, NEW j \in Jobs, at[w] = j, Holds(w, j),
             status[j] \in Running => status'[j] \in Active \cup {"failed"},
             \A i \in Jobs \ {j} : status'[i] = status[i],
             UNCHANGED <<published, sites>>
      PROVE  ResultsKept
  BY <1>3 DEF Holds, LeasedRuns, ResultsKept
<1>4. ASSUME NEW w \in Workers,
             \/ RequeueSiteBusy(w) \/ FailSiteGone(w) \/ Defer(w)
             \/ MarkAnalysing(w) \/ MarkRetry(w) \/ MarkFailed(w)
      PROVE  ResultsKept
  <2>1. at[w] \in Jobs
    BY <1>4 DEF RequeueSiteBusy, FailSiteGone, Defer, MarkAnalysing, MarkRetry,
       MarkFailed, Failing, WorkersTypeOK
  <2>2. UNCHANGED <<published, sites>>
    BY <1>4 DEF RequeueSiteBusy, FailSiteGone, Defer, MarkAnalysing, MarkRetry,
       MarkFailed, siteVars
  <2>3. \/ UNCHANGED status
        \/ /\ Holds(w, at[w])
           /\ \E s \in {"queued", "analysing", "failed"} :
                status' = [status EXCEPT ![at[w]] = s]
    BY <1>4 DEF RequeueSiteBusy, FailSiteGone, Defer, MarkAnalysing, MarkRetry,
       MarkFailed, Requeue, LeaseHeld
  <2>4. CASE UNCHANGED status
    BY <2>2, <2>4 DEF ResultsKept
  <2>5. CASE ~ UNCHANGED status
    BY <1>3, <2>1, <2>2, <2>3, <2>5
  <2> QED
    BY <2>4, <2>5
<1>5. ASSUME NEW j \in Jobs,
             \/ \E r \in Requests : Authorise(j, r)
             \/ Admit(j) \/ Refuse(j) \/ LeaseExpires(j) \/ DelayElapses(j)
      PROVE  ResultsKept
  BY <1>5 DEF Authorise, Admit, Refuse, LeaseExpires, DelayElapses, siteVars, ResultsKept
<1>6. ASSUME \/ \E s \in Sites : SiteLeaseExpires(s)
             \/ \E k \in Actors \X Targets : ClaimExpires(k)
             \/ UNCHANGED vars
      PROVE  ResultsKept
  BY <1>6 DEF SiteLeaseExpires, ClaimExpires, vars, siteVars, jobVars, ResultsKept
<1> HIDE DEF LeaseInv
<1> QED
  BY <1>1, <1>2, <1>4, <1>5, <1>6 DEF Next, Worker, Attempt, Requesting, Time

ResultsInv == PublishedWhenCompleted /\ NoOrphanResult

LEMMA PublishStep ==
  ASSUME LeaseInv, ResultsInv, RequestKept, NEW w \in Workers, Publish(w)
  PROVE  ResultsInv'
<1>1. /\ at[w] \in Jobs /\ status \in [Jobs -> Status]
      /\ req' = req /\ sites' = sites
      /\ status' = [status EXCEPT ![at[w]] = "completed"]
      /\ published' = published \cup {at[w]}
      /\ SiteOf(at[w]) # NoSite => SiteOf(at[w]) \in sites
  BY DEF Publish, MayPublish, siteVars, LeaseInv, TypeOK, WorkersTypeOK, JobsTypeOK
<1>2. PublishedWhenCompleted'
  BY <1>1 DEF ResultsInv, PublishedWhenCompleted
<1>3. NoOrphanResult'
  BY <1>1 DEF ResultsInv, NoOrphanResult, SiteOf
<1> QED
  BY <1>2, <1>3 DEF ResultsInv

\* A deletion takes the results of each website it takes.
LEMMA DeletionStep ==
  ASSUME LeaseInv, ResultsInv, Deletion
  PROVE  ResultsInv'
<1>1. ASSUME NEW lost \in SUBSET Jobs, NEW gone, DeleteJobs(lost),
             sites' = sites \ gone, \A j \in lost : status[j] \in Stored,
             \A j \in Jobs : status[j] \in Stored /\ SiteOf(j) \in gone => j \in lost
      PROVE  ResultsInv'
  <2>1. /\ req' = req /\ published' = published \ lost /\ published \subseteq Jobs
        /\ status' = [j \in Jobs |-> IF j \in lost THEN "deleted" ELSE status[j]]
    BY <1>1 DEF DeleteJobs, LeaseInv, TypeOK, SitesTypeOK
  <2>2. PublishedWhenCompleted'
    BY <2>1 DEF ResultsInv, PublishedWhenCompleted
  <2>3. NoOrphanResult'
    <3>1. \A j \in published : status[j] \in Stored
      BY <2>1 DEF ResultsInv, PublishedWhenCompleted, Stored, Terminal
    <3> QED
      BY <1>1, <2>1, <3>1 DEF ResultsInv, NoOrphanResult, SiteOf
  <2> QED
    BY <2>2, <2>3 DEF ResultsInv
<1>2. ASSUME NEW s \in Sites, DeleteWebsite(s) PROVE ResultsInv'
  BY <1>1, <1>2 DEF DeleteWebsite, DeleteSites
<1>3. ASSUME NEW u \in Accounts, DeleteUserAccount(u) PROVE ResultsInv'
  BY <1>1, <1>3 DEF DeleteUserAccount, DeleteSites
<1> QED
  BY <1>2, <1>3 DEF Deletion

LEMMA ResultsStep ==
  ASSUME LeaseInv, ResultsInv, [Next]_vars
  PROVE  ResultsInv'
<1>1. CASE ResultsKept
  <2>1. published \subseteq Jobs
    BY DEF LeaseInv, TypeOK, SitesTypeOK
  <2>2. \A j \in published : req'[j] = req[j]
    BY <2>1, RequestStep DEF RequestKept, ResultsInv, PublishedWhenCompleted
  <2>3. PublishedWhenCompleted'
    BY <1>1 DEF ResultsKept, ResultsInv, PublishedWhenCompleted
  <2>4. NoOrphanResult'
    BY <1>1, <2>2 DEF ResultsKept, ResultsInv, NoOrphanResult, SiteOf
  <2> QED
    BY <2>3, <2>4 DEF ResultsInv
<1> QED
  BY <1>1, RequestStep, ResultMoves, PublishStep, DeletionStep

LEMMA ResultsInit == Init => ResultsInv
  BY DEF Init, ResultsInv, PublishedWhenCompleted, NoOrphanResult

\* A result is stored exactly for the completed jobs, whether or not the commit
\* was acknowledged and whoever retried after it.
THEOREM ResultsMatchJobs == Spec => []PublishedWhenCompleted
<1>1. ResultsInv => PublishedWhenCompleted
  BY DEF ResultsInv
<1> QED
  BY <1>1, LeaseInit, LeaseStep, ResultsInit, ResultsStep, PTL DEF Spec

\* A deleted website leaves no result behind, and no late publication brings one
\* back: publication asks for the website and its lease in its own transaction.
THEOREM NoResultIsOrphaned == Spec => []NoOrphanResult
<1>1. ResultsInv => NoOrphanResult
  BY DEF ResultsInv
<1> QED
  BY <1>1, LeaseInit, LeaseStep, ResultsInit, ResultsStep, PTL DEF Spec

-----------------------------------------------------------------------------
(***************************************************************************)
(* The order of the results of one website                                 *)
(***************************************************************************)
Past == Beating \cup {"unwind"}

\* Invocation w moves on, and is past its site lease if it was.
Moves(w) ==
  /\ \A v \in Workers \ {w} : pc'[v] = pc[v] /\ at'[v] = at[v]
  /\ \/ pc'[w] = "idle" /\ overtaken' = overtaken \ {w}
     \/ at'[w] = at[w] /\ overtaken' = overtaken /\ (pc[w] \in Past => pc'[w] \in Past)

SitesMove ==
  /\ \A s \in Sites : siteLease'[s] \in {siteLease[s], Nobody}
  /\ \/ UNCHANGED <<pc, at, overtaken>>
     \/ \E w \in Workers : pc[w] # "idle" /\ Moves(w)

LEMMA MovesOn ==
  ASSUME LeaseInv, NEW w \in Workers, pc[w] # "idle",
         \/ Claim(w) \/ ClaimMissed(w) \/ TakeSiteLease(w) \/ MissSiteLease(w)
         \/ CheckSite(w) \/ RequeueSiteBusy(w) \/ FailSiteGone(w)
         \/ BeginCrawl(w) \/ ArchiveBusy(w) \/ Defer(w)
         \/ \E label \in Failing : Throw(w, label)
         \/ MarkAnalysing(w) \/ LeaseLost(w) \/ MarkRetry(w) \/ MarkFailed(w)
         \/ MarkNothing(w) \/ ReleaseClaim(w) \/ ReleaseSlot(w) \/ ReleaseSite(w)
         \/ Crash(w) \/ CatchFails(w)
  PROVE  Moves(w)
<1>0. pc \in [Workers -> PC] /\ at \in [Workers -> Jobs \cup {NoJob}]
  BY DEF LeaseInv, TypeOK, WorkersTypeOK
<1>1. ASSUME Idle(w) \/ Leave(w) \/ \E label \in Past : Goto(w, label) PROVE Moves(w)
  BY <1>0, <1>1 DEF Idle, Leave, Goto, Moves, Past
<1>2. ASSUME pc[w] \notin Past, NEW label, Goto(w, label) PROVE Moves(w)
  BY <1>0, <1>2 DEF Goto, Moves
<1>3. CASE Claim(w) \/ TakeSiteLease(w) \/ MissSiteLease(w) \/ CheckSite(w)
  BY <1>2, <1>3 DEF Claim, TakeSiteLease, MissSiteLease, CheckSite, Past, Beating,
     Failing, Releasing
<1>4. CASE \/ BeginCrawl(w) \/ ArchiveBusy(w) \/ MarkAnalysing(w) \/ MarkFailed(w)
           \/ ReleaseClaim(w) \/ \E label \in Failing : Throw(w, label)
  BY <1>1, <1>4 DEF BeginCrawl, ArchiveBusy, MarkAnalysing, MarkFailed, ReleaseClaim,
     Throw, Past, Beating, Releasing
<1>5. CASE \/ ClaimMissed(w) \/ RequeueSiteBusy(w) \/ FailSiteGone(w) \/ Defer(w)
           \/ LeaseLost(w) \/ MarkRetry(w) \/ MarkNothing(w) \/ ReleaseSlot(w)
           \/ ReleaseSite(w) \/ Crash(w) \/ CatchFails(w)
  BY <1>1, <1>5 DEF ClaimMissed, RequeueSiteBusy, FailSiteGone, Defer, LeaseLost,
     MarkRetry, MarkNothing, ReleaseSlot, ReleaseSite, Crash, CatchFails
<1> QED
  BY <1>3, <1>4, <1>5

\* Only a choice, a site lease and a publication do more to the order of results.
LEMMA SitesMoveOn ==
  ASSUME LeaseInv, [Next]_vars,
         ~ \E w \in Workers : FindNext(w) \/ TakeSiteLease(w) \/ Publish(w),
         ~ \E j \in Jobs : Admit(j)
  PROVE  SitesMove
<1> DEFINE Leases == \A s \in Sites : siteLease'[s] \in {siteLease[s], Nobody}
<1>0. siteLease \in [Sites -> Workers \cup {Nobody}]
  BY DEF LeaseInv, TypeOK, SitesTypeOK
<1>1. ASSUME NEW w \in Workers,
             \/ Claim(w) \/ ClaimMissed(w) \/ MissSiteLease(w)
             \/ CheckSite(w) \/ RequeueSiteBusy(w) \/ FailSiteGone(w)
             \/ BeginCrawl(w) \/ ArchiveBusy(w) \/ Defer(w)
             \/ \E label \in Failing : Throw(w, label)
             \/ MarkAnalysing(w) \/ LeaseLost(w) \/ MarkRetry(w) \/ MarkFailed(w)
             \/ MarkNothing(w) \/ ReleaseClaim(w) \/ ReleaseSlot(w) \/ ReleaseSite(w)
             \/ Crash(w) \/ CatchFails(w)
      PROVE  SitesMove
  <2>1. Leases
    BY <1>0, <1>1 DEF Claim, ClaimMissed, MissSiteLease, CheckSite, RequeueSiteBusy,
       FailSiteGone, BeginCrawl, ArchiveBusy, Defer, Throw, MarkAnalysing, LeaseLost,
       MarkRetry, MarkFailed, MarkNothing, ReleaseClaim, ReleaseSlot, ReleaseSite,
       Crash, CatchFails, siteVars
  <2>2. pc[w] # "idle"
    BY <1>1 DEF Claim, ClaimMissed, MissSiteLease, CheckSite, RequeueSiteBusy,
       FailSiteGone, BeginCrawl, ArchiveBusy, Defer, Throw, MarkAnalysing, LeaseLost,
       MarkRetry, MarkFailed, MarkNothing, ReleaseClaim, ReleaseSlot, ReleaseSite,
       Crash, CatchFails, Failing, Releasing
  <2> QED
    BY <1>1, <2>1, <2>2, MovesOn DEF SitesMove
<1>2. ASSUME NEW w \in Workers, Heartbeat(w) PROVE SitesMove
  BY <1>2 DEF Heartbeat, workVars, histVars, SitesMove
<1>3. ASSUME \/ \E j \in Jobs : \/ \E r \in Requests : Authorise(j, r)
                                \/ Refuse(j) \/ LeaseExpires(j) \/ DelayElapses(j)
             \/ \E s \in Sites : SiteLeaseExpires(s)
             \/ \E k \in Actors \X Targets : ClaimExpires(k)
             \/ UNCHANGED vars
      PROVE  Leases
  BY <1>3 DEF Authorise, Refuse, LeaseExpires, DelayElapses, SiteLeaseExpires,
     ClaimExpires, siteVars, vars
<1>4. ASSUME Deletion PROVE Leases
  BY <1>0, <1>4 DEF Deletion, DeleteWebsite, DeleteUserAccount, DeleteSites
<1>5. ASSUME \E k \in Actors \X Targets : ClaimExpires(k)
      PROVE  UNCHANGED <<pc, at, overtaken>>
  BY <1>5 DEF ClaimExpires, workVars, histVars
<1>6. ASSUME Leases, UNCHANGED <<pc, at, overtaken>> PROVE SitesMove
  BY <1>6 DEF SitesMove
<1> HIDE DEF Leases
<1> QED
  BY RequestQuiet, <1>1, <1>2, <1>3, <1>4, <1>5, <1>6
  DEF Next, Worker, Attempt, Requesting, Time

OrderInv == SiteLeasesPlaced /\ HolderNotOvertaken

LEMMA OrderStep ==
  ASSUME LeaseInv, OrderInv, [Next]_vars
  PROVE  OrderInv'
<1>0. /\ pc \in [Workers -> PC] /\ at \in [Workers -> Jobs \cup {NoJob}]
      /\ siteLease \in [Sites -> Workers \cup {Nobody}]
      /\ overtaken \subseteq Workers
      /\ \A w \in Workers : pc[w] # "idle" => at[w] \in Jobs
  BY DEF LeaseInv, TypeOK, WorkersTypeOK, SitesTypeOK, HistoryTypeOK
<1>2. \A w \in Workers : pc[w] # "idle" => req'[at[w]] = req[at[w]]
  BY <1>0, RequestStep DEF RequestKept, LeaseInv, WorkersPlaced
<1>3. /\ \A s \in Sites, w \in Workers :
           siteLease[s] = w /\ pc[w] # "idle" => req[at[w]].site = s
      /\ \A w \in overtaken : pc[w] \in Past
      /\ \A s \in Sites : siteLease[s] \notin overtaken
      /\ "idle" \notin Past /\ "siteLease" \notin Past
  BY DEF OrderInv, SiteLeasesPlaced, HolderNotOvertaken, SiteOf, Past, Beating,
     Failing, Releasing
<1>4. SUFFICES /\ \A s \in Sites, w \in Workers :
                    siteLease'[s] = w /\ pc'[w] # "idle" => req'[at'[w]].site = s
               /\ \A w \in overtaken' : pc'[w] \in Past
               /\ \A s \in Sites : siteLease'[s] \notin overtaken'
  BY DEF OrderInv, SiteLeasesPlaced, HolderNotOvertaken, SiteOf, Past
<1>5. CASE SitesMove
  <2>1. CASE UNCHANGED <<pc, at, overtaken>>
    BY <1>0, <1>2, <1>3, <1>5, <2>1 DEF SitesMove
  <2>2. ASSUME NEW w \in Workers, pc[w] # "idle", Moves(w)
        PROVE  /\ \A v \in Workers : pc'[v] # "idle" => pc[v] # "idle" /\ at'[v] = at[v]
               /\ \A v \in overtaken' : v \in overtaken /\ pc'[v] \in Past
    BY <1>0, <1>3, <2>2 DEF Moves
  <2> QED
    BY <1>0, <1>2, <1>3, <1>5, <2>1, <2>2 DEF SitesMove
<1>6. ASSUME NEW w \in Workers, NEW j \in Jobs, Fresh(w), Select(w, j),
             UNCHANGED <<siteLease, overtaken>>
      PROVE  /\ \A s \in Sites, v \in Workers :
                  siteLease'[s] = v /\ pc'[v] # "idle" => req'[at'[v]].site = s
             /\ \A v \in overtaken' : pc'[v] \in Past
             /\ \A s \in Sites : siteLease'[s] \notin overtaken'
  BY <1>0, <1>2, <1>3, <1>6 DEF Fresh, Select
<1>7. CASE \E w \in Workers : FindNext(w)
  BY <1>6, <1>7 DEF FindNext, siteVars, histVars
<1>8. CASE \E j \in Jobs : Admit(j)
  <2>1. PICK j \in Jobs : Admit(j)
    BY <1>8
  <2>2. UNCHANGED <<siteLease, overtaken>>
    BY <2>1 DEF Admit, siteVars, histVars
  <2>3. CASE UNCHANGED workVars
    BY <1>0, <1>2, <1>3, <2>2, <2>3 DEF workVars
  <2> QED
    BY <1>6, <2>1, <2>2, <2>3 DEF Admit
<1>9. ASSUME NEW w \in Workers, TakeSiteLease(w)
      PROVE  /\ \A s \in Sites, v \in Workers :
                  siteLease'[s] = v /\ pc'[v] # "idle" => req'[at'[v]].site = s
             /\ \A v \in overtaken' : pc'[v] \in Past
             /\ \A s \in Sites : siteLease'[s] \notin overtaken'
  <2>1. /\ pc[w] = "siteLease" /\ pc' = [pc EXCEPT ![w] = "ready"]
        /\ UNCHANGED <<at, overtaken>>
        /\ siteLease' = [siteLease EXCEPT ![req[at[w]].site] = w]
    BY <1>9 DEF TakeSiteLease, Goto, SiteOf
  <2>2. w \notin overtaken
    BY <1>3, <2>1
  <2> QED
    BY <1>0, <1>2, <1>3, <2>1, <2>2
<1>10. ASSUME NEW w \in Workers, Publish(w)
       PROVE  /\ \A s \in Sites, v \in Workers :
                   siteLease'[s] = v /\ pc'[v] # "idle" => req'[at'[v]].site = s
              /\ \A v \in overtaken' : pc'[v] \in Past
              /\ \A s \in Sites : siteLease'[s] \notin overtaken'
  <2>1. /\ pc[w] = "persist" /\ siteLease' = siteLease
        /\ \A v \in Workers \ {w} : pc'[v] = pc[v] /\ at'[v] = at[v]
        /\ \/ pc'[w] = "idle"
           \/ pc'[w] \in Past /\ at'[w] = at[w]
        /\ overtaken' = (overtaken \cup Rivals(w, at[w]))
                          \ (IF pc'[w] = "idle" THEN {w} ELSE {})
    BY <1>0, <1>10 DEF Publish, AfterAttempt, siteVars, Past, Beating, Failing
  <2>2. ASSUME NEW v \in Rivals(w, at[w])
        PROVE  /\ v \in Workers \ {w} /\ pc[v] \in Past
               /\ \A s \in Sites : siteLease[s] # v
    <3>1. /\ v \in Workers \ {w} /\ pc[v] \in Past
          /\ req[at[w]].site # NoSite /\ req[at[v]].site = req[at[w]].site
      BY <2>2 DEF Rivals, Past, SiteOf
    <3>2. siteLease[req[at[w]].site] = w
      BY <1>10, <3>1 DEF Publish, MayPublish, SiteOf
    <3> QED
      BY <1>3, <3>1, <3>2
  <2>3. \A v \in overtaken' : pc'[v] \in Past
    BY <1>0, <1>3, <2>1, <2>2
  <2>4. \A s \in Sites : siteLease'[s] \notin overtaken'
    BY <1>0, <1>3, <2>1, <2>2
  <2>5. \A v \in Workers : pc'[v] # "idle" => pc[v] # "idle" /\ at'[v] = at[v]
    BY <2>1
  <2> QED
    BY <1>2, <1>3, <2>1, <2>3, <2>4, <2>5
<1> QED
  BY <1>5, <1>7, <1>8, <1>9, <1>10, SitesMoveOn

\* A result is published only by an invocation that has seen every result of the
\* site since it took the lease: an invocation that was overtaken lost the lease
\* to the one that overtook it, and takes none again.
THEOREM ResultsAreInOrder == Spec => []HolderNotOvertaken
<1>1. Init => OrderInv
  BY DEF Init, OrderInv, SiteLeasesPlaced, HolderNotOvertaken
<1>2. OrderInv => HolderNotOvertaken
  BY DEF OrderInv
<1> QED
  BY <1>1, <1>2, LeaseInit, LeaseStep, OrderStep, PTL DEF Spec
-----------------------------------------------------------------------------
(***************************************************************************)
(* AuditJobs implements AuditQueue where no TTL index removes claims:      *)
(* leases, attempts, retries and releases are invisible to a caller, who   *)
(* sees jobs enter, end once and be deleted.                               *)
(***************************************************************************)
phaseBar == [j \in Jobs |-> PhaseOf(j)]
keyBar   == [j \in Jobs |-> IF PhaseOf(j) = "none" THEN NoJob ELSE KeyOf(j)]

\* The phase of a job by its status.
LEMMA Phases ==
  ASSUME NEW j \in Jobs, status[j] \in Status
  PROVE  /\ PhaseOf(j) = "open" <=> status[j] \in Active
         /\ PhaseOf(j) = "none" <=> status[j] \in {"none", "authorised"}
         /\ PhaseOf(j) = "completed" <=> status[j] = "completed"
         /\ PhaseOf(j) = "failed" <=> status[j] = "failed"
         /\ PhaseOf(j) = "deleted" <=> status[j] = "deleted"
  BY DEF PhaseOf, Status, Stored, Active, Running, Terminal

LEMMA PhasesNext ==
  ASSUME NEW j \in Jobs, status'[j] \in Status
  PROVE  /\ PhaseOf(j)' = "open" <=> status'[j] \in Active
         /\ PhaseOf(j)' = "none" <=> status'[j] \in {"none", "authorised"}
         /\ PhaseOf(j)' = "completed" <=> status'[j] = "completed"
         /\ PhaseOf(j)' = "failed" <=> status'[j] = "failed"
         /\ PhaseOf(j)' = "deleted" <=> status'[j] = "deleted"
  BY DEF PhaseOf, Status, Stored, Active, Running, Terminal

LEMMA QueueInit == Init => Queue!Init
<1> SUFFICES ASSUME Init PROVE Queue!Init
  OBVIOUS
<1>1. \A j \in Jobs : PhaseOf(j) = "none"
  BY DEF Init, PhaseOf, Active, Running
<1> QED
  BY <1>1 DEF Queue!Init

\* The key of a job does not change after it has entered.
LEMMA KeyKept ==
  ASSUME LeaseInv, RequestKept, NEW j \in Jobs, PhaseOf(j) # "none"
  PROVE  KeyOf(j)' = KeyOf(j)
  BY Phases DEF LeaseInv, TypeOK, JobsTypeOK, RequestKept, KeyOf

\* A step that changes no phase stutters.
LEMMA QueueStutters ==
  ASSUME LeaseInv, RequestKept, \A j \in Jobs : PhaseOf(j)' = PhaseOf(j)
  PROVE  UNCHANGED <<phaseBar, keyBar>>
<1>1. phaseBar' = phaseBar
  BY DEF phaseBar
<1>2. \A j \in Jobs : PhaseOf(j) # "none" => KeyOf(j)' = KeyOf(j)
  BY KeyKept
<1> QED
  BY <1>1, <1>2 DEF keyBar

\* Admission is where a job enters: there is room, because the queue document
\* covers every open job, and no open job has its key, because that job's claim
\* would still be there.
LEMMA EnterStep ==
  ASSUME ~ClaimTtl, LeaseInv, LeaseInv', RequestKept, CapacityCovered, ClaimsOwned,
         NEW j \in Jobs, Admit(j)
  PROVE  Queue!Enter(j, KeyOf(j))
<1>0. /\ status \in [Jobs -> Status] /\ activeCount \in Nat
      /\ status[j] = "authorised" /\ status' = [status EXCEPT ![j] = "queued"]
      /\ req' = req /\ status' \in [Jobs -> Status]
  BY DEF Admit, LeaseInv, TypeOK, JobsTypeOK, AdmissionTypeOK
<1>1. PhaseOf(j) = "none" /\ PhaseOf(j)' = "open"
  BY <1>0, Phases, PhasesNext DEF Active
<1>2. ASSUME NEW i \in Jobs \ {j} PROVE PhaseOf(i)' = PhaseOf(i)
  BY <1>0 DEF PhaseOf
<1>3. Queue!Open = OpenJobs
  BY <1>0, Phases DEF Queue!Open, OpenJobs
<1>4. Cardinality(OpenJobs) < QueueCap
  <2>1. Cardinality(OpenJobs) <= activeCount
    BY <1>0, FiniteParts DEF CapacityCovered
  <2> QED
    BY <1>0, <2>1, FiniteParts DEF Admit
<1>5. ASSUME NEW i \in OpenJobs PROVE keyBar[i] # KeyOf(j)
  <2>1. KeyOf(i) # KeyOf(j)
    BY <1>5 DEF ClaimsOwned, Admit, ClaimHeld
  <2>2. i \in Jobs /\ PhaseOf(i) # "none"
    BY <1>0, <1>5, Phases DEF OpenJobs, Active, Running
  <2> QED
    BY <2>1, <2>2 DEF keyBar
<1>6. phaseBar' = [phaseBar EXCEPT ![j] = "open"]
  BY <1>1, <1>2 DEF phaseBar
<1>7. keyBar' = [keyBar EXCEPT ![j] = KeyOf(j)]
  BY <1>0, <1>1, <1>2 DEF keyBar, KeyOf
<1>8. phaseBar[j] = "none"
  BY <1>1 DEF phaseBar
<1>9. Queue!Cardinality(Queue!Open) = Cardinality(Queue!Open)
  BY DEF Queue!Cardinality, Cardinality
<1>10. Queue!Cardinality(Queue!Open) < QueueCap
  BY <1>3, <1>4, <1>9
<1>11. \A i \in Queue!Open : keyBar[i] # KeyOf(j)
  BY <1>3, <1>5
<1>12. Queue!Enter(j, KeyOf(j)) <=>
         /\ phaseBar[j] = "none"
         /\ Queue!Cardinality(Queue!Open) < QueueCap
         /\ \A i \in Queue!Open : keyBar[i] # KeyOf(j)
         /\ phaseBar' = [phaseBar EXCEPT ![j] = "open"]
         /\ keyBar' = [keyBar EXCEPT ![j] = KeyOf(j)]
  BY Zenon DEF Queue!Enter, phaseBar, keyBar
<1> QED
  BY <1>6, <1>7, <1>8, <1>10, <1>11, <1>12

\* A job that held a lease is open, and ends by one status.
LEMMA EndStep ==
  ASSUME LeaseInv, LeaseInv', RequestKept, NEW j \in Jobs, status[j] \in Active,
         NEW outcome \in {"completed", "failed"},
         status' = [status EXCEPT ![j] = outcome]
  PROVE  Queue!End(j, outcome)
<1>0. status \in [Jobs -> Status] /\ status' \in [Jobs -> Status]
  BY DEF LeaseInv, TypeOK, JobsTypeOK
<1>1. PhaseOf(j) = "open" /\ PhaseOf(j)' = outcome
  BY <1>0, Phases, PhasesNext
<1>2. ASSUME NEW i \in Jobs \ {j} PROVE PhaseOf(i)' = PhaseOf(i)
  BY <1>0 DEF PhaseOf
<1>3. phaseBar' = [phaseBar EXCEPT ![j] = outcome]
  BY <1>1, <1>2 DEF phaseBar
<1>4. \A i \in Jobs : (PhaseOf(i) = "none") <=> (PhaseOf(i)' = "none")
  BY <1>1, <1>2
<1>5. \A i \in Jobs : PhaseOf(i) # "none" => KeyOf(i)' = KeyOf(i)
  BY KeyKept
<1>6. keyBar' = keyBar
  BY <1>4, <1>5 DEF keyBar
<1> QED
  BY <1>1, <1>3, <1>6 DEF Queue!End, phaseBar, keyBar

LEMMA DeleteStep ==
  ASSUME LeaseInv, LeaseInv', RequestKept, NEW gone \in SUBSET Jobs,
         \A j \in gone : status[j] \in Stored, DeleteJobs(gone)
  PROVE  Queue!Delete(gone)
<1>0. /\ status \in [Jobs -> Status] /\ status' \in [Jobs -> Status]
      /\ status' = [j \in Jobs |-> IF j \in gone THEN "deleted" ELSE status[j]]
  BY DEF LeaseInv, TypeOK, JobsTypeOK, DeleteJobs
<1>1. ASSUME NEW j \in gone PROVE PhaseOf(j) # "none" /\ PhaseOf(j)' = "deleted"
  BY <1>0, <1>1, Phases, PhasesNext DEF Stored, Active, Running, Terminal
<1>2. ASSUME NEW j \in Jobs \ gone PROVE PhaseOf(j)' = PhaseOf(j)
  BY <1>0 DEF PhaseOf
<1>3. phaseBar' = [j \in Jobs |-> IF j \in gone THEN "deleted" ELSE phaseBar[j]]
  BY <1>1, <1>2 DEF phaseBar
<1>4. \A i \in Jobs : (PhaseOf(i) = "none") <=> (PhaseOf(i)' = "none")
  BY <1>1, <1>2
<1>5. \A i \in Jobs : PhaseOf(i) # "none" => KeyOf(i)' = KeyOf(i)
  BY KeyKept
<1>6. keyBar' = keyBar
  BY <1>4, <1>5 DEF keyBar
<1> QED
  BY <1>1, <1>3, <1>6 DEF Queue!Delete, phaseBar, keyBar

Mapped == Queue!Next \/ UNCHANGED <<phaseBar, keyBar>>

LEMMA MappedStep ==
  ASSUME ~ClaimTtl, LeaseInv, LeaseInv', RequestKept, CapacityCovered, ClaimsOwned,
         [Next]_vars
  PROVE  Mapped
<1>0. /\ status \in [Jobs -> Status] /\ status' \in [Jobs -> Status]
      /\ \A w \in Workers : pc[w] # "idle" => at[w] \in Jobs
  BY DEF LeaseInv, TypeOK, JobsTypeOK, WorkersTypeOK
<1>1. ASSUME \A j \in Jobs : PhaseOf(j)' = PhaseOf(j) PROVE Mapped
  BY <1>1, QueueStutters DEF Mapped
<1>2. ASSUME NEW j \in Jobs, Admit(j) PROVE Mapped
  <2>1. KeyOf(j) \in Actors \X Targets
    BY <1>2 DEF Admit, LeaseInv, TypeOK, JobsTypeOK, Request, KeyOf
  <2> QED
    BY <1>2, <2>1, EnterStep DEF Mapped, Queue!Next
<1>3. ASSUME NEW w \in Workers, at[w] \in Jobs, Holds(w, at[w]),
             NEW outcome \in {"completed", "failed"},
             status' = [status EXCEPT ![at[w]] = outcome]
      PROVE  Mapped
  <2>1. status[at[w]] \in Active
    BY <1>3 DEF Holds, LeaseInv, LeasedRuns, Active
  <2> QED
    BY <1>3, <2>1, EndStep DEF Mapped, Queue!Next
<1>4. ASSUME UNCHANGED status PROVE Mapped
  BY <1>1, <1>4 DEF PhaseOf
<1>5. ASSUME NEW w \in Workers, at[w] \in Jobs, status[at[w]] \in Active,
             NEW s \in Active, status' = [status EXCEPT ![at[w]] = s]
      PROVE  Mapped
  <2>1. \A j \in Jobs : PhaseOf(j)' = PhaseOf(j)
    BY <1>0, <1>5, Phases, PhasesNext DEF PhaseOf
  <2> QED
    BY <1>1, <2>1
<1>6. ASSUME NEW w \in Workers, Claim(w) PROVE Mapped
  BY <1>0, <1>5, <1>6 DEF Claim, Claimable, Active, Running
<1>7. ASSUME NEW w \in Workers,
             RequeueSiteBusy(w) \/ Defer(w) \/ MarkAnalysing(w) \/ MarkRetry(w)
      PROVE  Mapped
  <2>1. at[w] \in Jobs
    BY <1>0, <1>7 DEF RequeueSiteBusy, Defer, MarkAnalysing, MarkRetry, Failing
  <2>2. \/ UNCHANGED status
        \/ /\ Holds(w, at[w])
           /\ \E s \in Active : status' = [status EXCEPT ![at[w]] = s]
    BY <1>7 DEF RequeueSiteBusy, Defer, MarkAnalysing, MarkRetry, Requeue, LeaseHeld,
       Active, Running
  <2>3. Holds(w, at[w]) => status[at[w]] \in Active
    BY <2>1 DEF Holds, LeaseInv, LeasedRuns, Active
  <2> QED
    BY <1>4, <1>5, <2>1, <2>2, <2>3
<1>8. ASSUME NEW w \in Workers, Publish(w) \/ MarkFailed(w) \/ FailSiteGone(w)
      PROVE  Mapped
  BY <1>0, <1>3, <1>4, <1>8
  DEF Publish, MayPublish, LeaseHeld, MarkFailed, Failing, FailSiteGone
<1>9. ASSUME NEW j \in Jobs, Refuse(j) \/ \E r \in Requests : Authorise(j, r)
      PROVE  Mapped
  <2>1. \A i \in Jobs : PhaseOf(i)' = PhaseOf(i)
    BY <1>0, <1>9, Phases, PhasesNext DEF Refuse, Authorise, PhaseOf
  <2> QED
    BY <1>1, <2>1
<1>10. ASSUME Deletion PROVE Mapped
  <2>1. PICK gone \in SUBSET Jobs : /\ \A j \in gone : status[j] \in Stored
                                    /\ DeleteJobs(gone)
    BY <1>10 DEF Deletion, DeleteWebsite, DeleteUserAccount
  <2> QED
    BY <2>1, DeleteStep DEF Mapped, Queue!Next
<1>11. ASSUME \/ \E j \in Jobs : LeaseExpires(j) \/ DelayElapses(j)
              \/ \E s \in Sites : SiteLeaseExpires(s)
              \/ \E k \in Actors \X Targets : ClaimExpires(k)
              \/ \E w \in Workers : Heartbeat(w)
              \/ UNCHANGED vars
              \/ UNCHANGED jobVars
       PROVE  UNCHANGED status
  BY <1>11 DEF LeaseExpires, DelayElapses, SiteLeaseExpires, ClaimExpires, Heartbeat,
     vars, jobVars
<1> QED
  BY QuietActions, <1>2, <1>4, <1>6, <1>7, <1>8, <1>9, <1>10, <1>11
  DEF Next, Worker, Attempt, Requesting, Time

\* Every behaviour of the durable queue is one of the abstract queue: bounded,
\* one open job per actor and target, each job ending at most once.
THEOREM QueueIsImplemented ==
  ASSUME ~ClaimTtl
  PROVE  Spec => ImplementsQueue
<1>1. Init => ClaimsOwned
  BY DEF Init, ClaimsOwned, OpenJobs, Active, Running
<1>2. /\ LeaseInv /\ CapacityCovered /\ ClaimsOwned /\ LeaseInv' /\ [Next]_vars
      => [Queue!Next]_<<phaseBar, keyBar>>
  BY RequestStep, MappedStep DEF Mapped
<1>3. UNCHANGED <<phaseBar, keyBar>>
        <=> UNCHANGED <<[j \in Jobs |-> PhaseOf(j)],
                        [j \in Jobs |-> IF PhaseOf(j) = "none" THEN NoJob ELSE KeyOf(j)]>>
  BY DEF phaseBar, keyBar
<1> QED
  BY QueueInit, <1>1, <1>2, <1>3, LeaseInit, LeaseStep, ClaimsStep, CapacityInit,
     CapacityStep, PTL
  DEF Spec, ImplementsQueue, Queue!Spec, phaseBar, keyBar
=============================================================================
