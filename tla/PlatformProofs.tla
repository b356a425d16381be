---------------------------- MODULE PlatformProofs ----------------------------
(***************************************************************************)
(* Theorems of the components around the audits: the console and its       *)
(* panels, the start of batch work, the page fetcher and the archive       *)
(* reader.                                                                 *)
(***************************************************************************)
EXTENDS Dashboard, ConsolePanels, Fleet, PageFetch, ArchiveRead, ListTheorems,
        FiniteSetTheorems

-----------------------------------------------------------------------------
(***************************************************************************)
(* One panel of the console                                                *)
(***************************************************************************)
Flights == [id : Nat, of : PanelInputs, counts : BOOLEAN, byHand : BOOLEAN]

\* A request whose answer still counts asks about the current input; request numbers do not
\* repeat.
CountsForInput ==
  /\ \A f \in flights : f.id <= last
  /\ panel = "cleanup" => \A f \in flights : f.counts => f.of = asked /\ enabled
  /\ panel = "sequence" => \A f \in flights : f.id = last => f.of = asked

PanelsInv ==
  /\ panel \in Disciplines /\ last \in Nat /\ flights \subseteq Flights
  /\ asked \in PanelInputs \cup {NoInput}
  /\ enabled \in BOOLEAN /\ loading \in BOOLEAN /\ error \in BOOLEAN
  /\ CountsForInput
  /\ SettledShowsCurrent

LEMMA PanelsStart == PanelsInit => PanelsInv
<1> SUFFICES ASSUME PanelsInit PROVE PanelsInv
  OBVIOUS
<1>1. flights \subseteq Flights /\ CountsForInput
  BY DEF PanelsInit, CountsForInput
<1> QED
  BY <1>1 DEF PanelsInit, PanelsInv, SettledShowsCurrent

\* What a cleanup leaves of the flights: none that counts in a panel that cleans up.
LEMMA CleanupSilences ==
  ASSUME PanelsInv
  PROVE  /\ AfterCleanup \subseteq Flights
         /\ \A f \in AfterCleanup : f.id <= last
         /\ panel = "cleanup" => \A f \in AfterCleanup : ~f.counts
         /\ panel = "sequence" => AfterCleanup = flights
<1>1. \A f \in flights : /\ f \in Flights /\ f.id <= last
                         /\ [f EXCEPT !.counts = FALSE] \in Flights
                         /\ [f EXCEPT !.counts = FALSE].id = f.id
                         /\ ~[f EXCEPT !.counts = FALSE].counts
  BY DEF PanelsInv, CountsForInput, Flights
<1>2. CASE panel = "cleanup"
  BY <1>1, <1>2 DEF AfterCleanup, Silenced
<1>3. CASE panel = "abort"
  BY <1>1, <1>3 DEF AfterCleanup
<1>4. CASE panel \notin {"cleanup", "abort"}
  BY <1>1, <1>4 DEF AfterCleanup
<1> QED
  BY <1>2, <1>3, <1>4

\* A request that starts, after a cleanup or beside those that wait.
LEMMA AskKeeps ==
  ASSUME PanelsInv, NEW s \in PanelInputs, NEW pending, NEW byHand \in BOOLEAN, NEW quiet \in BOOLEAN,
         NEW kept, Ask(s, pending, byHand, quiet, kept),
         pending \subseteq Flights, \A f \in pending : f.id <= last,
         panel' = panel, enabled' \in BOOLEAN, asked' = s,
         panel \in {"cleanup", "sequence"} => ~quiet,
         panel = "cleanup" => enabled' /\ \A f \in pending : ~f.counts
  PROVE  PanelsInv'
<1> DEFINE new == [id |-> last + 1, of |-> s, counts |-> TRUE, byHand |-> byHand]
<1>1. /\ new \in Flights /\ new.id = last + 1 /\ new.of = s
      /\ flights' = pending \cup {new} /\ last' = last + 1 /\ last' \in Nat
      /\ loading' = (loading \/ ~quiet) /\ error' = FALSE
  BY DEF Ask, PanelsInv, Flights
<1> HIDE DEF new
<1>2. \A f \in pending : f.id # last + 1 /\ f.id <= last + 1
  BY DEF PanelsInv, Flights
<1>3. CountsForInput'
  BY <1>1, <1>2 DEF CountsForInput
<1>4. SettledShowsCurrent'
  BY <1>1 DEF SettledShowsCurrent, PanelsInv
<1> QED
  BY <1>1, <1>3, <1>4 DEF PanelsInv

LEMMA PanelsStep ==
  ASSUME PanelsOK, PanelsInv, [PanelsNext]_panelVars PROVE PanelsInv'
<1>0. /\ AfterCleanup \subseteq Flights
      /\ \A f \in AfterCleanup : f.id <= last
      /\ panel = "cleanup" => \A f \in AfterCleanup : ~f.counts
      /\ panel = "sequence" => AfterCleanup = flights
  BY CleanupSilences
<1> USE DEF PanelsOK
<1>1. ASSUME NEW s \in PanelInputs \cup {NoInput}, ChangeInput(s) PROVE PanelsInv'
  <2>1. CASE s # NoInput /\ enabled
    <3>1. Ask(s, AfterCleanup, FALSE, FALSE, KeptData) /\ UNCHANGED <<panel, enabled>> /\ asked' = s
      BY <1>1, <2>1 DEF ChangeInput
    <3>2. /\ s \in PanelInputs /\ panel # "sequence" /\ enabled' \in BOOLEAN
          /\ panel' = panel /\ panel = "cleanup" => enabled'
      BY <1>1, <2>1, <3>1 DEF ChangeInput, PanelsInv
    <3> QED
      BY <1>0, <3>1, <3>2, AskKeeps
  <2>2. CASE ~(s # NoInput /\ enabled)
    BY <1>0, <1>1, <2>2 DEF ChangeInput, PanelsInv, CountsForInput, SettledShowsCurrent
  <2> QED
    BY <2>1, <2>2
<1>2. ASSUME NEW s \in PanelInputs, Submit(s) PROVE PanelsInv'
  <2>1. PICK kept : Ask(s, flights, TRUE, FALSE, kept)
    BY <1>2 DEF Submit
  <2> QED
    BY <1>2, <2>1, AskKeeps DEF Submit, PanelsInv, CountsForInput
<1>3. CASE SwitchWorkspace
  <2>1. CASE enabled' /\ asked # NoInput
    <3>1. /\ Ask(asked, AfterCleanup, FALSE, FALSE, KeptData)
          /\ UNCHANGED <<panel, asked>> /\ enabled' \in BOOLEAN /\ asked \in PanelInputs
      BY <1>3, <2>1 DEF SwitchWorkspace, PanelsInv
    <3> QED
      BY <1>0, <2>1, <3>1, AskKeeps
  <2>2. CASE ~(enabled' /\ asked # NoInput)
    BY <1>0, <1>3, <2>2 DEF SwitchWorkspace, PanelsInv, CountsForInput, SettledShowsCurrent
  <2> QED
    BY <2>1, <2>2
<1>4. ASSUME NEW quiet \in BOOLEAN, RefreshPanel(quiet) PROVE PanelsInv'
  <2>1. /\ Ask(asked, flights, TRUE, quiet, KeptData) /\ UNCHANGED <<panel, asked, enabled>>
        /\ panel \in {"abort", "none"} /\ asked \in PanelInputs
        /\ flights \subseteq Flights /\ \A f \in flights : f.id <= last
        /\ enabled' \in BOOLEAN
    BY <1>4 DEF RefreshPanel, PanelsInv, CountsForInput
  <2> QED
    BY <2>1, AskKeeps
<1>5. ASSUME NEW f \in flights, NEW ok \in BOOLEAN, Answer(f, ok) PROVE PanelsInv'
  BY <1>5 DEF Answer, Counts, PanelsInv, CountsForInput, SettledShowsCurrent
<1>6. CASE UNCHANGED panelVars
  BY <1>6 DEF panelVars, PanelsInv, CountsForInput, SettledShowsCurrent
<1> QED
  BY <1>1, <1>2, <1>3, <1>4, <1>5, <1>6 DEF PanelsNext

\* A link or backlink panel that has settled shows the data of the domain it is asked about,
\* for any number of requests that overlap and in whichever order their answers come.
THEOREM PanelsShowTheirInput ==
  ASSUME PanelsOK PROVE PanelsSpec => []SettledShowsCurrent
<1>1. PanelsInv => SettledShowsCurrent
  BY DEF PanelsInv
<1> QED
  BY <1>1, PanelsStart, PanelsStep, PTL DEF PanelsSpec

-----------------------------------------------------------------------------
(***************************************************************************)
(* The one-shot launch                                                     *)
(***************************************************************************)
\* Where a request stands that has begun the start, or had begun it.
BeganStart == {"starting", "started", "threw", "202", "503"}
Began == {r \in Requests : request[r] \in BeganStart}

\* At most one request begins the start, the first one; the launch record outlives it.
LaunchInv ==
  /\ request \in [Requests -> {"new", "404", "409", "lost"} \cup BeganStart]
  /\ starts \in {0, 1} /\ launchFailure \in BOOLEAN /\ running \in BOOLEAN
  /\ launch = "none" => starts = 0 /\ ~running /\ Began = {} /\ ~launchFailure
  /\ \A q, r \in Began : q = r
  /\ \A r \in Requests : request[r] \in {"starting", "started", "202"} => ~launchFailure
  /\ \A r \in Requests : request[r] \in {"started", "202"} => terminal # "none"

LEMMA LaunchStart == LaunchInit => LaunchInv
BY DEF LaunchInit, LaunchInv, Began, BeganStart

LEMMA LaunchStep ==
  ASSUME LaunchInv, [LaunchNext]_launchVars PROVE LaunchInv'
<1> USE DEF LaunchInv, Began, BeganStart, Replied
<1>1. ASSUME NEW r \in Requests, Rejected(r) PROVE LaunchInv'
  BY <1>1 DEF Rejected
<1>2. ASSUME NEW r \in Requests, StartOnce(r) PROVE LaunchInv'
  <2>1. CASE Begun
    BY <1>2, <2>1 DEF StartOnce
  <2>2. CASE ~Begun
    BY <1>2, <2>2 DEF StartOnce, Begun
  <2> QED
    BY <2>1, <2>2
<1>3. ASSUME NEW r \in Requests, ContainerStarts(r) PROVE LaunchInv'
  BY <1>3 DEF ContainerStarts
<1>4. ASSUME NEW r \in Requests, StartThrows(r) PROVE LaunchInv'
  BY <1>4 DEF StartThrows
<1>5. ASSUME NEW r \in Requests, RecordAccepted(r) PROVE LaunchInv'
  BY <1>5 DEF RecordAccepted
<1>6. ASSUME NEW r \in Requests, RecordFailed(r) PROVE LaunchInv'
  BY <1>6 DEF RecordFailed
<1>7. CASE ContainerEnds
  BY <1>7 DEF ContainerEnds
<1>8. CASE ObjectRestarts
  BY <1>8 DEF ObjectRestarts
<1>9. CASE UNCHANGED launchVars
  BY <1>9 DEF launchVars
<1> QED
  BY <1>1, <1>2, <1>3, <1>4, <1>5, <1>6, <1>7, <1>8, <1>9 DEF LaunchNext

\* At most one element is a cardinality of at most one.
LEMMA AtMostOne ==
  ASSUME NEW S, \A x, y \in S : x = y PROVE Cardinality(S) <= 1
<1>1. CASE S = {}
  BY <1>1, FS_EmptySet
<1>2. CASE S # {}
  <2>1. PICK x \in S : S = {x}
    BY <1>2
  <2> QED
    BY <2>1, FS_Singleton
<1> QED
  BY <1>1, <1>2

LEMMA LaunchAlways == LaunchSpec => [](LaunchInv /\ StartedOnce)
<1>1. LaunchInv => StartedOnce
  <2> SUFFICES ASSUME LaunchInv PROVE StartedOnce
    OBVIOUS
  <2>1. \A q, r \in {r \in Requests : request[r] = "202"} : q = r
    BY DEF LaunchInv, Began, BeganStart
  <2> QED
    BY <2>1, AtMostOne DEF LaunchInv, StartedOnce
<1> QED
  BY <1>1, LaunchStart, LaunchStep, PTL DEF LaunchSpec

-----------------------------------------------------------------------------
(***************************************************************************)
(* The builds of one container                                             *)
(***************************************************************************)
BuildInv == job \in [Buckets -> {"none", "started", "done", "failed"}] /\ OneBuildAtATime

LEMMA BuildStep ==
  ASSUME BuildOK, BuildInv, [BuildNext]_buildVars PROVE BuildInv'
<1> USE DEF BuildInv, OneBuildAtATime
<1>1. ASSUME NEW b \in Buckets, Run(b) PROVE BuildInv'
  <2>1. CASE Busy(b) \/ Ended(b)
    BY <1>1, <2>1 DEF Run
  <2>2. CASE ~Busy(b) /\ ~Ended(b)
    <3>1. current' = b /\ job' = [job EXCEPT ![b] = "started"]
      BY <1>1, <2>2 DEF Run
    <3>2. \A c \in Buckets : job[c] = "started" => c = b
      BY <2>2 DEF Busy, Ended, BuildOK
    <3> QED
      BY <3>1, <3>2
  <2> QED
    BY <2>1, <2>2
<1>2. ASSUME NEW b \in Buckets, BuildEnds(b) PROVE BuildInv'
  BY <1>2 DEF BuildEnds
<1>3. ASSUME NEW b \in Buckets, Poll(b) PROVE BuildInv'
  BY <1>3 DEF Poll, FreshDelivery
<1>4. ASSUME NEW b \in Buckets, TimesOut(b) PROVE BuildInv'
  BY <1>4 DEF TimesOut, FreshDelivery
<1>5. CASE Dies
  BY <1>5 DEF Dies, FreshDelivery
<1>6. ASSUME NEW b \in Buckets, Deliver(b) \/ ConsumerStops(b) \/ RunFails(b) PROVE BuildInv'
  BY <1>6 DEF Deliver, ConsumerStops, RunFails
<1>7. CASE UNCHANGED buildVars
  BY <1>7 DEF buildVars
<1> QED
  BY <1>1, <1>2, <1>3, <1>4, <1>5, <1>6, <1>7 DEF BuildNext

LEMMA BuildAlways == ASSUME BuildOK PROVE BuildSpec => []OneBuildAtATime
<1>1. BuildInit => BuildInv
  BY DEF BuildInit, BuildInv, OneBuildAtATime
<1>2. BuildInv => OneBuildAtATime
  BY DEF BuildInv
<1> QED
  BY <1>1, <1>2, BuildStep, PTL DEF BuildSpec

-----------------------------------------------------------------------------
(***************************************************************************)
(* The start admission of a region                                         *)
(***************************************************************************)
Events == [kind : {"grant", "failure", "success"}, at : Nat]

\* The delay after so many failures is a number.
LEMMA DelayIsNat ==
  ASSUME AdmissionOK, NEW streak \in 0..MaxStreak PROVE Delay(streak) \in Nat
<1> DEFINE advance == [p \in (1..MaxStreak) \X Nat |-> 2 * p[2]]
<1>1. MaxStreak \in Nat /\ Interval \in Nat /\ MaxBackoff \in Nat
  BY DEF AdmissionOK
<1>2. advance \in Steps(MaxStreak, Nat)
  BY DEF Steps
<1>3. \A i \in 1..MaxStreak, k \in Nat : advance[<<i, k>>] = 2 * k
  OBVIOUS
<1> HIDE DEF advance
<1>4. PICK f : /\ f \in [0..MaxStreak -> Nat] /\ f[0] = Interval
               /\ \A i \in 1..MaxStreak : f[i] = advance[<<i, f[i - 1]>>]
  <2>1. \E f : Solves(f, MaxStreak, Nat, Interval, advance)
    BY <1>1, <1>2, RecursionSolved
  <2> QED
    BY <2>1 DEF Solves
<1>5. f = [i \in 0..MaxStreak |-> IF i = 0 THEN Interval ELSE 2 * f[i - 1]]
  <2>1. ASSUME NEW i \in 0..MaxStreak PROVE f[i] = IF i = 0 THEN Interval ELSE 2 * f[i - 1]
    <3>1. CASE i = 0
      BY <1>4, <3>1
    <3>2. CASE i # 0
      <4>1. i \in 1..MaxStreak /\ f[i - 1] \in Nat
        BY <1>1, <1>4, <3>2
      <4> QED
        BY <1>3, <1>4, <3>2, <4>1
    <3> QED
      BY <3>1, <3>2
  <2> QED
    BY <1>4, <2>1
<1>6. Doubled = [i \in 0..MaxStreak |-> IF i = 0 THEN Interval ELSE 2 * Doubled[i - 1]]
  BY <1>5, Zenon DEF Doubled
<1> DEFINE N == {k \in Nat : k \in 0..MaxStreak => Doubled[k] \in Nat}
<1>7. 0 \in N
  BY <1>1, <1>6
<1>8. ASSUME NEW k \in 0..(MaxStreak - 1), k \in N PROVE k + 1 \in N
  <2>1. k \in 0..MaxStreak /\ k + 1 \in 0..MaxStreak /\ k + 1 # 0 /\ (k + 1) - 1 = k
    BY <1>1
  <2>2. Doubled[k + 1] = 2 * Doubled[k]
    BY <1>6, <2>1
  <2> QED
    BY <1>8, <2>1, <2>2
<1> HIDE DEF N
<1>9. streak \in N
  BY <1>1, <1>7, <1>8, Induction
<1> QED
  BY <1>1, <1>9 DEF N, Delay, LesserTime

\* The failures in a row of a log.
RowsOf(l) ==
  CHOOSE row : row = [i \in 0..MaxEvents |->
    IF i = 0 THEN 0
    ELSE CASE l[i].kind = "failure" -> row[i - 1] + 1
           [] l[i].kind = "success" -> 0
           [] OTHER -> row[i - 1]]

LEMMA RowsSolve ==
  ASSUME AdmissionOK, NEW l
  PROVE  /\ RowsOf(l) \in [0..MaxEvents -> Nat] /\ RowsOf(l)[0] = 0
         /\ \A i \in 1..MaxEvents :
              RowsOf(l)[i] = CASE l[i].kind = "failure" -> RowsOf(l)[i - 1] + 1
                               [] l[i].kind = "success" -> 0
                               [] OTHER -> RowsOf(l)[i - 1]
<1> DEFINE advance == [p \in (1..MaxEvents) \X Nat |->
                      CASE l[p[1]].kind = "failure" -> p[2] + 1
                        [] l[p[1]].kind = "success" -> 0
                        [] OTHER -> p[2]]
<1>1. MaxEvents \in Nat
  BY DEF AdmissionOK
<1>2. advance \in Steps(MaxEvents, Nat)
  BY DEF Steps
<1>3. \A i \in 1..MaxEvents, k \in Nat :
        advance[<<i, k>>] = CASE l[i].kind = "failure" -> k + 1
                           [] l[i].kind = "success" -> 0
                           [] OTHER -> k
  OBVIOUS
<1> HIDE DEF advance
<1>4. PICK f : /\ f \in [0..MaxEvents -> Nat] /\ f[0] = 0
               /\ \A i \in 1..MaxEvents : f[i] = advance[<<i, f[i - 1]>>]
  <2>1. \E f : Solves(f, MaxEvents, Nat, 0, advance)
    BY <1>1, <1>2, RecursionSolved
  <2> QED
    BY <2>1 DEF Solves
<1> DEFINE Row(g) == [i \in 0..MaxEvents |->
                        IF i = 0 THEN 0
                        ELSE CASE l[i].kind = "failure" -> g[i - 1] + 1
                               [] l[i].kind = "success" -> 0
                               [] OTHER -> g[i - 1]]
<1>5. ASSUME NEW i \in 0..MaxEvents PROVE f[i] = Row(f)[i]
  <2>1. CASE i = 0
    BY <1>4, <2>1
  <2>2. CASE i # 0
    <3>1. i \in 1..MaxEvents /\ f[i - 1] \in Nat
      BY <1>1, <1>4, <2>2
    <3> QED
      BY <1>3, <1>4, <2>2, <3>1
  <2> QED
    BY <2>1, <2>2
<1>6. f = Row(f)
  BY <1>4, <1>5
<1>7. RowsOf(l) = Row(RowsOf(l))
  BY <1>6, Zenon DEF RowsOf
<1> DEFINE r == RowsOf(l)
<1> HIDE DEF r
<1>8. r = Row(r)
  BY <1>7 DEF r
<1>9. /\ r[0] = 0
      /\ \A i \in 1..MaxEvents : r[i] = CASE l[i].kind = "failure" -> r[i - 1] + 1
                                          [] l[i].kind = "success" -> 0
                                          [] OTHER -> r[i - 1]
  <2>1. r[0] = 0
    BY <1>1, <1>8
  <2>2. ASSUME NEW i \in 1..MaxEvents
        PROVE  r[i] = CASE l[i].kind = "failure" -> r[i - 1] + 1
                        [] l[i].kind = "success" -> 0
                        [] OTHER -> r[i - 1]
    <3>1. i \in 0..MaxEvents /\ i # 0
      BY <1>1
    <3>2. r[i] = Row(r)[i]
      BY <1>8
    <3> QED
      BY <3>1, <3>2
  <2> QED
    BY <2>1, <2>2
<1> DEFINE N == {k \in Nat : k \in 0..MaxEvents => r[k] \in Nat}
<1>10. 0 \in N
  BY <1>9
<1>11. ASSUME NEW k \in 0..(MaxEvents - 1), k \in N PROVE k + 1 \in N
  <2>1. k \in 0..MaxEvents /\ k + 1 \in 1..MaxEvents /\ (k + 1) - 1 = k /\ k + 1 \in Nat
    BY <1>1
  <2>2. r[k] \in Nat
    BY <1>11, <2>1
  <2>3. r[k + 1] = CASE l[k + 1].kind = "failure" -> r[k] + 1
                     [] l[k + 1].kind = "success" -> 0
                     [] OTHER -> r[k]
    BY <1>9, <2>1
  <2> QED
    BY <2>1, <2>2, <2>3
<1> HIDE DEF N
<1>12. \A k \in 0..MaxEvents : k \in N
  BY <1>1, <1>10, <1>11, Induction
<1>13. \A k \in 0..MaxEvents : r[k] \in Nat
  BY <1>12 DEF N
<1>14. r \in [0..MaxEvents -> Nat]
  BY <1>8, <1>13
<1> QED
  BY <1>9, <1>14 DEF r

\* What is appended to a log leaves the rows before it.
LEMMA RowsAppend ==
  ASSUME AdmissionOK, NEW l \in Seq(Events), NEW e \in Events, Len(l) < MaxEvents
  PROVE  \A i \in 0..Len(l) : RowsOf(Append(l, e))[i] = RowsOf(l)[i]
<1> DEFINE r == RowsOf(l)
           s == RowsOf(Append(l, e))
           N == {k \in Nat : k \in 0..Len(l) => s[k] = r[k]}
<1>1. MaxEvents \in Nat /\ Len(l) \in Nat
  BY DEF AdmissionOK
<1>2. /\ r[0] = 0
      /\ \A i \in 1..MaxEvents : r[i] = CASE l[i].kind = "failure" -> r[i - 1] + 1
                                          [] l[i].kind = "success" -> 0
                                          [] OTHER -> r[i - 1]
  BY RowsSolve
<1>3. /\ s[0] = 0
      /\ \A i \in 1..MaxEvents : s[i] = CASE Append(l, e)[i].kind = "failure" -> s[i - 1] + 1
                                          [] Append(l, e)[i].kind = "success" -> 0
                                          [] OTHER -> s[i - 1]
  BY RowsSolve
<1>4. \A i \in 1..Len(l) : Append(l, e)[i] = l[i]
  BY <1>1
<1> HIDE DEF r, s
<1>5. 0 \in N
  BY <1>2, <1>3
<1>6. ASSUME NEW k \in 0..(Len(l) - 1), k \in N PROVE k + 1 \in N
  <2>1. /\ k \in 0..Len(l) /\ k + 1 \in 1..MaxEvents /\ k + 1 \in 1..Len(l) /\ (k + 1) - 1 = k
        /\ k + 1 \in Nat
    BY <1>1
  <2>2. s[k] = r[k] /\ Append(l, e)[k + 1] = l[k + 1]
    BY <1>4, <1>6, <2>1
  <2>3. s[k + 1] = CASE l[k + 1].kind = "failure" -> s[k] + 1
                     [] l[k + 1].kind = "success" -> 0
                     [] OTHER -> s[k]
    BY <1>3, <2>1, <2>2
  <2>4. r[k + 1] = CASE l[k + 1].kind = "failure" -> r[k] + 1
                     [] l[k + 1].kind = "success" -> 0
                     [] OTHER -> r[k]
    BY <1>2, <2>1
  <2> QED
    BY <2>1, <2>2, <2>3, <2>4
<1> HIDE DEF N
<1>7. \A k \in 0..Len(l) : k \in N
  BY <1>1, <1>5, <1>6, Induction
<1> QED
  BY <1>7 DEF N, r, s

\* The next grant waits for the pace and for every delay so far: the record says when, and
\* how many failures there have been in a row.
Spaced(i, at) ==
  /\ log[i].kind = "grant" => at >= log[i].at + Interval
  /\ log[i].kind = "failure" =>
       at >= log[i].at + Delay(LesserTime(MaxStreak, RowsOf(log)[i]))

PacingInv ==
  /\ now \in Nat /\ log \in Seq(Events) /\ Len(log) <= MaxEvents
  /\ state \in [next : Nat, backoff : Nat, streak : 0..MaxStreak]
  /\ \A i \in 1..Len(log) : log[i].at <= now /\ Spaced(i, state.next)
  /\ state.streak = LesserTime(MaxStreak, RowsOf(log)[Len(log)])
  /\ \A i, j \in 1..Len(log) : i < j /\ log[j].kind = "grant" => Spaced(i, log[j].at)

LEMMA LesserInRange ==
  ASSUME AdmissionOK, NEW k \in Nat PROVE LesserTime(MaxStreak, k) \in 0..MaxStreak
BY DEF AdmissionOK, LesserTime

\* An event is logged: it is consistent with the record if what the record says of those
\* before it is kept, and it itself is what the record waits for.
LEMMA LoggedKeeps ==
  ASSUME AdmissionOK, PacingInv, NEW kind \in {"grant", "failure", "success"}, Logged(kind),
         now' = now, state' \in [next : Nat, backoff : Nat, streak : 0..MaxStreak],
         state'.next >= state.next,
         kind = "grant" => state.next <= now /\ state'.next = now + Interval
                           /\ state'.streak = state.streak,
         kind = "failure" => /\ state'.streak = LesserTime(MaxStreak, state.streak + 1)
                             /\ state'.next >= now + Delay(state'.streak),
         kind = "success" => state'.streak = 0
  PROVE  PacingInv'
<1> DEFINE e == [kind |-> kind, at |-> now]
           n == Len(log)
<1>1. /\ e \in Events /\ n \in Nat /\ n < MaxEvents /\ log \in Seq(Events)
      /\ log' = Append(log, e) /\ MaxEvents \in Nat /\ MaxStreak \in Nat \ {0} /\ Interval \in Nat
  BY DEF PacingInv, Logged, Events, AdmissionOK
<1>2. /\ log' \in Seq(Events) /\ Len(log') = n + 1 /\ log'[n + 1] = e
      /\ \A i \in 1..n : log'[i] = log[i]
  BY <1>1
<1>3. /\ \A i \in 0..n : RowsOf(log')[i] = RowsOf(log)[i]
      /\ RowsOf(log')[n + 1] = CASE kind = "failure" -> RowsOf(log)[n] + 1
                                 [] kind = "success" -> 0
                                 [] OTHER -> RowsOf(log)[n]
  <2>1. \A i \in 0..n : RowsOf(log')[i] = RowsOf(log)[i]
    BY <1>1, RowsAppend
  <2>2. n + 1 \in 1..MaxEvents /\ (n + 1) - 1 = n
    BY <1>1
  <2>3. RowsOf(log')[n + 1] = CASE log'[n + 1].kind = "failure" -> RowsOf(log')[n] + 1
                                [] log'[n + 1].kind = "success" -> 0
                                [] OTHER -> RowsOf(log')[n]
    BY <2>2, RowsSolve
  <2> QED
    BY <1>1, <1>2, <2>1, <2>3
<1>4. /\ \A i \in 0..n : RowsOf(log)[i] \in Nat
      /\ \A i \in 1..n : Delay(LesserTime(MaxStreak, RowsOf(log)[i])) \in Nat
  <2>1. \A i \in 0..n : RowsOf(log)[i] \in Nat
    BY <1>1, RowsSolve
  <2>2. ASSUME NEW i \in 1..n PROVE Delay(LesserTime(MaxStreak, RowsOf(log)[i])) \in Nat
    <3>1. RowsOf(log)[i] \in Nat
      BY <1>1, <2>1
    <3>2. LesserTime(MaxStreak, RowsOf(log)[i]) \in 0..MaxStreak
      BY <3>1, LesserInRange
    <3> QED
      BY <3>2, DelayIsNat
  <2> QED
    BY <2>1, <2>2
<1>5. state'.streak = LesserTime(MaxStreak, RowsOf(log')[n + 1])
  <2>1. /\ state.streak = LesserTime(MaxStreak, RowsOf(log)[n]) /\ state.streak \in Nat
        /\ RowsOf(log)[n] \in Nat
    BY <1>1, <1>4 DEF PacingInv
  <2>2. CASE kind = "grant"
    BY <1>3, <2>1, <2>2
  <2>3. CASE kind = "failure"
    <3>1. RowsOf(log')[n + 1] = RowsOf(log)[n] + 1
      BY <1>3, <2>3
    <3> QED
      BY <1>1, <2>1, <2>3, <3>1 DEF LesserTime
  <2>4. CASE kind = "success"
    <3>1. RowsOf(log')[n + 1] = 0
      BY <1>3, <2>4
    <3> QED
      BY <1>1, <2>4, <3>1 DEF LesserTime
  <2> QED
    BY <2>2, <2>3, <2>4
<1>6. /\ state'.next \in Nat /\ state.next \in Nat /\ state'.streak \in 0..MaxStreak
      /\ now \in Nat
  BY DEF PacingInv
<1>7. Delay(state'.streak) \in Nat
  BY <1>6, DelayIsNat
<1>8. \A i \in 1..n : log[i].at \in Nat /\ log[i].at <= now
  <2>1. \A i \in 1..n : log[i] \in Events
    BY <1>1
  <2> QED
    BY <2>1 DEF Events, PacingInv
<1>9. \A i \in 1..n, at \in Nat : Spaced(i, at)' <=> Spaced(i, at)
  BY <1>2, <1>3 DEF Spaced
<1>10. \A i \in 1..n, a \in Nat, b \in Nat : a <= b /\ Spaced(i, a) => Spaced(i, b)
  BY <1>1, <1>4, <1>8, SMTT(40) DEF Spaced
<1> HIDE DEF e
<1>11. e.kind = kind /\ e.at = now
  BY DEF e
<1>12. ASSUME NEW i \in 1..Len(log') PROVE log'[i].at <= now' /\ Spaced(i, state.next)'
  <2>1. CASE i \in 1..n
    <3>1. Spaced(i, state.next)
      BY <2>1 DEF PacingInv
    <3>2. Spaced(i, state'.next)
      BY <1>6, <1>10, <2>1, <3>1
    <3> QED
      BY <1>2, <1>6, <1>8, <1>9, <2>1, <3>2
  <2>2. CASE i = n + 1
    BY <1>2, <1>5, <1>6, <1>7, <1>11, <2>2 DEF Spaced
  <2> QED
    BY <1>1, <1>2, <2>1, <2>2
<1>13. ASSUME NEW i \in 1..Len(log'), NEW j \in 1..Len(log'), i < j, log'[j].kind = "grant"
       PROVE  Spaced(i, log[j].at)'
  <2>1. i \in 1..n
    BY <1>1, <1>2, <1>13
  <2>2. CASE j \in 1..n
    <3>1. Spaced(i, log[j].at) /\ log[j].at \in Nat /\ log'[j] = log[j]
      BY <1>2, <1>8, <1>13, <2>1, <2>2 DEF PacingInv
    <3> QED
      BY <1>9, <2>1, <3>1
  <2>3. CASE j = n + 1
    <3>1. kind = "grant" /\ log'[j].at = now
      BY <1>2, <1>11, <1>13, <2>3
    <3>2. Spaced(i, state.next)
      BY <2>1 DEF PacingInv
    <3>3. Spaced(i, now)
      BY <1>6, <1>10, <2>1, <3>1, <3>2
    <3> QED
      BY <1>6, <1>9, <2>1, <3>1, <3>3
  <2> QED
    BY <1>1, <1>2, <2>2, <2>3
<1> QED
  BY <1>1, <1>2, <1>5, <1>6, <1>12, <1>13 DEF PacingInv

LEMMA PacingStep ==
  ASSUME AdmissionOK, PacingInv, [AdmissionNext]_admissionVars PROVE PacingInv'
<1>1. /\ now \in Nat /\ state \in [next : Nat, backoff : Nat, streak : 0..MaxStreak]
      /\ state.next \in Nat /\ state.backoff \in Nat /\ state.streak \in 0..MaxStreak
      /\ Interval \in Nat /\ MaxStreak \in Nat \ {0}
  BY DEF PacingInv, AdmissionOK
<1>2. ASSUME NEW l \in Lanes, ClaimGranted(l) PROVE PacingInv'
  <2>1. /\ Logged("grant") /\ now' = now /\ state.next <= now
        /\ state' = [state EXCEPT !.next = now + Interval]
    BY <1>2 DEF ClaimGranted
  <2>2. /\ state' \in [next : Nat, backoff : Nat, streak : 0..MaxStreak]
        /\ state'.next = now + Interval /\ state'.streak = state.streak
    BY <1>1, <2>1
  <2>3. state'.next >= state.next
    BY <1>1, <2>1, <2>2
  <2> QED
    BY <2>1, <2>2, <2>3, LoggedKeeps
<1>3. ASSUME NEW l \in Lanes, ReportCapacityFailure(l) PROVE PacingInv'
  <2> DEFINE streak == LesserTime(MaxStreak, state.streak + 1)
             until == now + Delay(streak)
  <2>1. /\ Logged("failure") /\ now' = now
        /\ state' = [next |-> PaceAfter(until), backoff |-> until, streak |-> streak]
    BY <1>3 DEF ReportCapacityFailure
  <2>2. streak \in 0..MaxStreak
    BY <1>1, LesserInRange
  <2>3. Delay(streak) \in Nat
    BY <2>2, DelayIsNat
  <2> HIDE DEF streak
  <2>4. until \in Nat /\ PaceAfter(until) \in Nat /\ PaceAfter(until) >= state.next
        /\ PaceAfter(until) >= until
    BY <1>1, <2>3 DEF PaceAfter, LaterTime
  <2>5. /\ state' \in [next : Nat, backoff : Nat, streak : 0..MaxStreak]
        /\ state'.next = PaceAfter(until) /\ state'.streak = streak
    BY <2>1, <2>2, <2>4
  <2> QED
    BY <2>1, <2>4, <2>5, LoggedKeeps DEF streak
<1>4. ASSUME NEW l \in Lanes, ReportStartSuccess(l) PROVE PacingInv'
  <2>1. /\ Logged("success") /\ now' = now
        /\ state' = IF state.streak = 0 /\ state.backoff <= now THEN state
                    ELSE [state EXCEPT !.streak = 0, !.backoff = LesserTime(@, now)]
    BY <1>4 DEF ReportStartSuccess
  <2>2. LesserTime(state.backoff, now) \in Nat
    BY <1>1 DEF LesserTime
  <2>3. /\ state' \in [next : Nat, backoff : Nat, streak : 0..MaxStreak]
        /\ state'.next = state.next /\ state'.streak = 0
    <3>1. CASE state.streak = 0 /\ state.backoff <= now
      BY <1>1, <2>1, <3>1
    <3>2. CASE ~(state.streak = 0 /\ state.backoff <= now)
      <4> DEFINE m == LesserTime(state.backoff, now)
      <4>1. state' = [state EXCEPT !.streak = 0, !.backoff = m]
        BY <2>1, <3>2
      <4>2. m \in Nat /\ 0 \in 0..MaxStreak
        BY <1>1, <2>2
      <4> HIDE DEF m
      <4>3. state' = [next |-> state.next, backoff |-> m, streak |-> 0]
        BY <1>1, <4>1
      <4> QED
        BY <1>1, <4>2, <4>3
    <3> QED
      BY <3>1, <3>2
  <2>4. state'.next >= state.next
    BY <1>1, <2>3
  <2> QED
    BY <2>1, <2>3, <2>4, LoggedKeeps
<1>5. ASSUME NEW l \in Lanes, ClaimRefused(l) \/ Unreported(l) PROVE PacingInv'
  BY <1>5 DEF ClaimRefused, Unreported, PacingInv, Spaced
<1>6. CASE AdmissionTick
  <2>1. now' = now + 1 /\ UNCHANGED <<state, log>>
    BY <1>6 DEF AdmissionTick
  <2>2. \A i \in 1..Len(log) : log[i].at \in Nat /\ log[i].at <= now
    <3>1. \A i \in 1..Len(log) : log[i] \in Events
      BY DEF PacingInv
    <3> QED
      BY <3>1 DEF PacingInv, Events
  <2>3. now' \in Nat /\ \A i \in 1..Len(log) : log[i].at <= now'
    BY <1>1, <2>1, <2>2
  <2> QED
    BY <2>1, <2>3 DEF PacingInv, Spaced
<1>7. CASE UNCHANGED admissionVars
  BY <1>7 DEF admissionVars, PacingInv, Spaced
<1> QED
  BY <1>2, <1>3, <1>4, <1>5, <1>6, <1>7 DEF AdmissionNext

LEMMA PacingStart == ASSUME AdmissionOK, AdmissionInit PROVE PacingInv
<1>1. log = <<>> /\ now = 0 /\ state = [next |-> 0, backoff |-> 0, streak |-> 0]
  BY DEF AdmissionInit
<1>2. MaxStreak \in Nat \ {0} /\ MaxEvents \in Nat \ {0} /\ RowsOf(log)[0] = 0
  BY RowsSolve DEF AdmissionOK
<1>3. state \in [next : Nat, backoff : Nat, streak : 0..MaxStreak] /\ state.streak = 0
  BY <1>1, <1>2
<1>4. LesserTime(MaxStreak, 0) = 0
  BY <1>2 DEF LesserTime
<1>5. log \in Seq(Events) /\ Len(log) = 0
  BY <1>1
<1> QED
  BY <1>1, <1>2, <1>3, <1>4, <1>5 DEF PacingInv

LEMMA PacingAlways == ASSUME AdmissionOK PROVE AdmissionSpec => []GrantsSpaced
<1>1. PacingInv => GrantsSpaced
  BY DEF PacingInv, Spaced, GrantsSpaced, InARow, RowsOf
<1> QED
  BY <1>1, PacingStart, PacingStep, PTL DEF AdmissionSpec

-----------------------------------------------------------------------------
\* For any number of lanes, requests, buckets, restarts and deaths, and any interval and
\* backoff: no grant follows another, or a capacity failure, too early; the fleet is started
\* once; and a container builds one bucket at a time.
THEOREM FleetStartsOnce ==
  ASSUME AdmissionOK, BuildOK
  PROVE  FleetSpec => []FleetStarts
<1>1. AdmissionSpec => []GrantsSpaced
  BY PacingAlways
<1>2. LaunchSpec => []StartedOnce
  BY LaunchAlways, PTL
<1>3. BuildSpec => []OneBuildAtATime
  BY BuildAlways
<1>4. GrantsSpaced /\ StartedOnce /\ OneBuildAtATime => FleetStarts
  BY DEF FleetStarts
<1> QED
  BY <1>1, <1>2, <1>3, <1>4, PTL DEF FleetSpec

-----------------------------------------------------------------------------
(***************************************************************************)
(* One fetch                                                               *)
(***************************************************************************)
\* The guard's comparisons cover every block of the registry, prefixes inside an octet
\* included.
LEMMA GuardCoversV4 ==
  ASSUME NEW ip \in [1..4 -> Octet], ~BlockedV4(ip), NEW block \in SpecialPurpose
  PROVE  ~InBlock(ip, block, 8)
<1>0. ip[1] \in 0..255 /\ ip[2] \in 0..255 /\ ip[3] \in 0..255
  BY DEF Octet
<1> DEFINE network == block.network
<1>1. ASSUME block.bits = 8, InBlock(ip, block, 8) PROVE ip[1] = network[1]
  BY <1>1 DEF InBlock
<1>2. ASSUME block.bits = 16, InBlock(ip, block, 8)
      PROVE  ip[1] = network[1] /\ ip[2] = network[2]
  BY <1>2 DEF InBlock
<1>3. ASSUME block.bits = 24, InBlock(ip, block, 8)
      PROVE  ip[1] = network[1] /\ ip[2] = network[2] /\ ip[3] = network[3]
  BY <1>3 DEF InBlock
<1>4. ASSUME block.bits = 3, InBlock(ip, block, 8) PROVE ip[1] \div 32 = network[1] \div 32
  <2>1. 3 \div 8 = 0 /\ 3 % 8 = 3 /\ 2^(8 - 3) = 32
    OBVIOUS
  <2> QED
    BY <1>4, <2>1 DEF InBlock
<1>5. ASSUME block.bits = 10, InBlock(ip, block, 8)
      PROVE  ip[1] = network[1] /\ ip[2] \div 64 = network[2] \div 64
  <2>1. 10 \div 8 = 1 /\ 10 % 8 = 2 /\ 2^(8 - 2) = 64
    OBVIOUS
  <2> QED
    BY <1>5, <2>1 DEF InBlock
<1>6. ASSUME block.bits = 12, InBlock(ip, block, 8)
      PROVE  ip[1] = network[1] /\ ip[2] \div 16 = network[2] \div 16
  <2>1. 12 \div 8 = 1 /\ 12 % 8 = 4 /\ 2^(8 - 4) = 16
    OBVIOUS
  <2> QED
    BY <1>6, <2>1 DEF InBlock
<1>7. ASSUME block.bits = 15, InBlock(ip, block, 8)
      PROVE  ip[1] = network[1] /\ ip[2] \div 2 = network[2] \div 2
  <2>1. 15 \div 8 = 1 /\ 15 % 8 = 7 /\ 2^(8 - 7) = 2
    OBVIOUS
  <2> QED
    BY <1>7, <2>1 DEF InBlock
<1>8. CASE block \in {[network |-> <<0, 0, 0, 0>>, bits |-> 8],
                      [network |-> <<10, 0, 0, 0>>, bits |-> 8],
                      [network |-> <<127, 0, 0, 0>>, bits |-> 8]}
  BY <1>0, <1>1, <1>8 DEF BlockedV4
<1>9. CASE block \in {[network |-> <<169, 254, 0, 0>>, bits |-> 16],
                      [network |-> <<192, 168, 0, 0>>, bits |-> 16]}
  BY <1>0, <1>2, <1>9 DEF BlockedV4
<1>10. CASE block \in {[network |-> <<192, 0, 0, 0>>, bits |-> 24],
                       [network |-> <<192, 0, 2, 0>>, bits |-> 24],
                       [network |-> <<198, 51, 100, 0>>, bits |-> 24],
                       [network |-> <<203, 0, 113, 0>>, bits |-> 24]}
  BY <1>0, <1>3, <1>10 DEF BlockedV4
<1>11. CASE block = [network |-> <<224, 0, 0, 0>>, bits |-> 3]
  BY <1>0, <1>4, <1>11 DEF BlockedV4
<1>12. CASE block = [network |-> <<100, 64, 0, 0>>, bits |-> 10]
  BY <1>0, <1>5, <1>12 DEF BlockedV4
<1>13. CASE block = [network |-> <<172, 16, 0, 0>>, bits |-> 12]
  BY <1>0, <1>6, <1>13 DEF BlockedV4
<1>14. CASE block = [network |-> <<198, 18, 0, 0>>, bits |-> 15]
  BY <1>0, <1>7, <1>14 DEF BlockedV4
<1> QED
  BY <1>8, <1>9, <1>10, <1>11, <1>12, <1>13, <1>14 DEF SpecialPurpose

\* A group of an IPv6 address is a number of sixteen bits.
LEMMA GroupsAreNumbers == \A g \in Group : g \in Nat /\ g <= 65535
BY SMTT(40) DEF Group

\* The guard's comparisons cover the blocks of IPv6.
LEMMA GuardCoversV6 ==
  ASSUME NEW ip \in [1..8 -> Group], ~BlockedV6(ip), NEW block \in SpecialPurposeV6
  PROVE  ~InBlock(ip, block, 16)
<1>0. \A i \in 1..8 : ip[i] \in Nat /\ ip[i] <= 65535
  BY GroupsAreNumbers
<1> DEFINE network == block.network
<1>1. CASE block.bits = 128
  <2>1. 128 \div 16 = 8 /\ 128 % 16 = 0
    OBVIOUS
  <2>2. InBlock(ip, block, 16) => \A i \in 1..8 : ip[i] = network[i]
    BY <1>1, <2>1 DEF InBlock
  <2>3. \A i \in 1..7 : network[i] = 0
    BY <1>1 DEF SpecialPurposeV6
  <2>4. network[8] \in {0, 1}
    BY <1>1 DEF SpecialPurposeV6
  <2> QED
    BY <2>2, <2>3, <2>4 DEF BlockedV6
<1>2. CASE block.bits = 64
  <2>1. 64 \div 16 = 4
    OBVIOUS
  <2>2. InBlock(ip, block, 16) => ip[1] = network[1] /\ ip[2] = network[2]
    BY <1>2, <2>1 DEF InBlock
  <2>3. network[1] = 256 /\ network[2] = 0
    BY <1>2 DEF SpecialPurposeV6
  <2> QED
    BY <2>2, <2>3 DEF BlockedV6
<1>3. CASE block.bits = 32
  <2>1. 32 \div 16 = 2
    OBVIOUS
  <2>2. InBlock(ip, block, 16) => ip[1] = network[1] /\ ip[2] = network[2]
    BY <1>3, <2>1 DEF InBlock
  <2>3. network[1] = 8193 /\ network[2] = 3512
    BY <1>3 DEF SpecialPurposeV6
  <2> QED
    BY <2>2, <2>3 DEF BlockedV6
<1>4. CASE block.bits = 7
  <2>1. 7 \div 16 = 0 /\ 7 % 16 = 7 /\ 2^(16 - 7) = 512
    OBVIOUS
  <2>2. InBlock(ip, block, 16) => ip[1] \div 512 = network[1] \div 512
    BY <1>4, <2>1 DEF InBlock
  <2>3. network[1] = 64512
    BY <1>4 DEF SpecialPurposeV6
  <2>4. ip[1] \div 512 = 126 => ip[1] \div 256 \in {252, 253}
    BY <1>0
  <2> QED
    BY <2>2, <2>3, <2>4 DEF BlockedV6, HighByte
<1>5. CASE block.bits = 10
  <2>1. 10 \div 16 = 0 /\ 10 % 16 = 10 /\ 2^(16 - 10) = 64
    OBVIOUS
  <2>2. InBlock(ip, block, 16) => ip[1] \div 64 = network[1] \div 64
    BY <1>5, <2>1 DEF InBlock
  <2>3. network[1] = 65152
    BY <1>5 DEF SpecialPurposeV6
  <2>4. ip[1] \div 64 = 1018 => ip[1] \div 256 = 254
    BY <1>0
  <2> QED
    BY <2>2, <2>3, <2>4 DEF BlockedV6, HighByte
<1>6. CASE block.bits = 8
  <2>1. 8 \div 16 = 0 /\ 8 % 16 = 8 /\ 2^(16 - 8) = 256
    OBVIOUS
  <2>2. InBlock(ip, block, 16) => ip[1] \div 256 = network[1] \div 256
    BY <1>6, <2>1 DEF InBlock
  <2>3. network[1] = 65280
    BY <1>6 DEF SpecialPurposeV6
  <2>4. network[1] \div 256 = 255
    BY <2>3
  <2> QED
    BY <2>2, <2>4 DEF BlockedV6, HighByte
<1>7. block.bits \in {128, 64, 32, 7, 10, 8}
  BY DEF SpecialPurposeV6
<1> QED
  BY <1>1, <1>2, <1>3, <1>4, <1>5, <1>6, <1>7

\* So do its comparisons for the IPv4 addresses that IPv6 ones carry.
LEMMA GuardCovers ==
  ASSUME NEW ip \in Addresses, ~Blocked(ip) PROVE Reachable(ip)
<1>1. CASE ip \in [1..4 -> Octet]
  <2>1. Len(ip) = 4
    BY <1>1
  <2> QED
    BY <1>1, <2>1, GuardCoversV4 DEF Blocked, Reachable, ReachableV4
<1>2. CASE ip \in [1..8 -> Group]
  <2>1. Len(ip) = 8
    BY <1>2
  <2>2. ip[7] \in Group /\ ip[8] \in Group
    BY <1>2
  <2>3. ASSUME NEW g \in Group PROVE g \div 256 \in Octet /\ g % 256 \in Octet
    <3>1. g \in Nat /\ g <= 65535
      BY GroupsAreNumbers
    <3>2. g \div 256 \in Nat /\ g \div 256 <= 255
      BY <3>1
    <3>3. g % 256 \in Nat /\ g % 256 <= 255
      BY <3>1
    <3> QED
      BY <3>2, <3>3 DEF Octet
  <2>4. /\ ip[7] \div 256 \in Octet /\ ip[7] % 256 \in Octet
        /\ ip[8] \div 256 \in Octet /\ ip[8] % 256 \in Octet
    BY <2>2, <2>3
  <2>5. EmbeddedV4(ip) \in [1..4 -> Octet]
    BY <2>4 DEF EmbeddedV4
  <2>6. CarriesV4(ip) => ~BlockedV4(EmbeddedV4(ip))
    BY <2>1 DEF Blocked, BlockedV6
  <2>7. CarriesV4(ip) => ReachableV4(EmbeddedV4(ip))
    BY <2>5, <2>6, GuardCoversV4 DEF ReachableV4
  <2>8. \A block \in SpecialPurposeV6 : ~InBlock(ip, block, 16)
    BY <1>2, <2>1, GuardCoversV6 DEF Blocked
  <2> QED
    BY <2>1, <2>7, <2>8 DEF Reachable
<1> QED
  BY <1>1, <1>2 DEF Addresses

\* The sums of a sequence's beginnings.
SumsOf(chunks) ==
  CHOOSE sums : sums = [i \in 0..Len(chunks) |-> IF i = 0 THEN 0 ELSE sums[i - 1] + chunks[i]]

LEMMA SumsSolve ==
  ASSUME NEW c \in Seq(Nat)
  PROVE  /\ SumsOf(c)[0] = 0
         /\ \A i \in 1..Len(c) : SumsOf(c)[i] = SumsOf(c)[i - 1] + c[i]
         /\ \A i \in 0..Len(c) : SumsOf(c)[i] \in Nat
<1> DEFINE n == Len(c)
           advance == [p \in (1..n) \X Nat |-> p[2] + c[p[1]]]
           Sums(g) == [i \in 0..n |-> IF i = 0 THEN 0 ELSE g[i - 1] + c[i]]
<1>1. n \in Nat /\ \A i \in 1..n : c[i] \in Nat
  OBVIOUS
<1>2. SumsOf(c) = CHOOSE g : g = Sums(g)
  BY DEF SumsOf
<1> HIDE DEF n
<1>3. advance \in Steps(n, Nat)
  BY <1>1 DEF Steps
<1>4. \A i \in 1..n, k \in Nat : advance[<<i, k>>] = k + c[i]
  OBVIOUS
<1> HIDE DEF advance
<1>5. PICK f : f \in [0..n -> Nat] /\ f[0] = 0 /\ \A i \in 1..n : f[i] = advance[<<i, f[i - 1]>>]
  <2>1. \E f : Solves(f, n, Nat, 0, advance)
    BY <1>1, <1>3, RecursionSolved
  <2> QED
    BY <2>1 DEF Solves
<1>6. ASSUME NEW i \in 0..n PROVE f[i] = Sums(f)[i]
  <2>1. CASE i = 0
    BY <1>5, <2>1
  <2>2. CASE i # 0
    <3>1. i \in 1..n /\ f[i - 1] \in Nat
      BY <1>1, <1>5, <2>2
    <3> QED
      BY <1>4, <1>5, <2>2, <3>1
  <2> QED
    BY <2>1, <2>2
<1>7. f = Sums(f)
  BY <1>5, <1>6
<1> DEFINE s == SumsOf(c)
<1>8. s = Sums(s)
  BY <1>2, <1>7, Zenon
<1> HIDE DEF s
<1>9. s[0] = 0 /\ \A i \in 1..n : s[i] = s[i - 1] + c[i]
  <2>1. s[0] = 0
    BY <1>1, <1>8
  <2>2. ASSUME NEW i \in 1..n PROVE s[i] = s[i - 1] + c[i]
    <3>1. i \in 0..n /\ i # 0
      BY <1>1
    <3>2. s[i] = Sums(s)[i]
      BY <1>8
    <3> QED
      BY <3>1, <3>2
  <2> QED
    BY <2>1, <2>2
<1> DEFINE N == {k \in Nat : k \in 0..n => s[k] \in Nat}
<1>10. 0 \in N
  BY <1>9
<1>11. ASSUME NEW k \in 0..(n - 1), k \in N PROVE k + 1 \in N
  <2>1. k \in 0..n /\ k + 1 \in 1..n /\ (k + 1) - 1 = k /\ k + 1 \in Nat
    BY <1>1
  <2>2. s[k + 1] = s[k] + c[k + 1] /\ s[k] \in Nat /\ c[k + 1] \in Nat
    BY <1>1, <1>9, <1>11, <2>1
  <2> QED
    BY <2>1, <2>2
<1> HIDE DEF N
<1>12. \A k \in 0..n : k \in N
  BY <1>1, <1>10, <1>11, Induction
<1>13. \A k \in 0..n : s[k] \in Nat
  BY <1>12 DEF N
<1> QED
  BY <1>9, <1>13 DEF s, n

LEMMA SizeIsSum == ASSUME NEW c PROVE SizeOf(c) = SumsOf(c)[Len(c)]
BY DEF SizeOf, SumsOf

\* Sizes add up.
LEMMA SizeAppend ==
  ASSUME NEW c \in Seq(Nat), NEW x \in Nat
  PROVE  /\ SizeOf(<<>>) = 0 /\ SizeOf(c) \in Nat
         /\ SizeOf(Append(c, x)) = SizeOf(c) + x
<1> DEFINE d == Append(c, x)
           n == Len(c)
           s == SumsOf(c)
           t == SumsOf(d)
           N == {k \in Nat : k \in 0..n => t[k] = s[k]}
<1>1. /\ n \in Nat /\ d \in Seq(Nat) /\ Len(d) = n + 1 /\ d[n + 1] = x
      /\ \A i \in 1..n : d[i] = c[i]
  OBVIOUS
<1>2. /\ s[0] = 0 /\ \A i \in 1..n : s[i] = s[i - 1] + c[i]
      /\ \A i \in 0..n : s[i] \in Nat
  BY SumsSolve
<1>3. /\ t[0] = 0 /\ \A i \in 1..Len(d) : t[i] = t[i - 1] + d[i]
      /\ \A i \in 0..Len(d) : t[i] \in Nat
  BY <1>1, SumsSolve
<1>4. SizeOf(c) = s[n] /\ SizeOf(d) = t[Len(d)]
  BY SizeIsSum
<1>5. SizeOf(<<>>) = 0
  <2>1. <<>> \in Seq(Nat) /\ Len(<<>>) = 0
    OBVIOUS
  <2>2. SumsOf(<<>>)[0] = 0
    BY <2>1, SumsSolve
  <2> QED
    BY <2>1, <2>2, SizeIsSum
<1> HIDE DEF s, t, d, n
<1>6. 0 \in N
  BY <1>2, <1>3
<1>7. ASSUME NEW k \in 0..(n - 1), k \in N PROVE k + 1 \in N
  <2>1. /\ k \in 0..n /\ k + 1 \in 1..n /\ (k + 1) - 1 = k /\ k + 1 \in Nat
        /\ k + 1 \in 1..Len(d)
    BY <1>1
  <2>2. t[k] = s[k] /\ d[k + 1] = c[k + 1]
    BY <1>1, <1>7, <2>1
  <2>3. s[k + 1] = s[k] + c[k + 1] /\ t[k + 1] = t[k] + d[k + 1]
    BY <1>2, <1>3, <2>1
  <2> QED
    BY <2>1, <2>2, <2>3
<1> HIDE DEF N
<1>8. \A k \in 0..n : k \in N
  BY <1>1, <1>6, <1>7, Induction
<1>9. t[n] = s[n]
  BY <1>1, <1>8 DEF N
<1>10. n + 1 \in 1..Len(d) /\ (n + 1) - 1 = n
  BY <1>1
<1>11. t[n + 1] = s[n] + x
  BY <1>1, <1>3, <1>9, <1>10
<1>12. s[n] \in Nat
  BY <1>1, <1>2
<1> QED
  BY <1>1, <1>4, <1>5, <1>11, <1>12 DEF d

\* What is pinned has passed the guard; a connection goes to what is pinned; nothing is kept
\* but what was counted.
FetchInv ==
  /\ step \in {"checking", "connecting", "responding", "reading", "done"}
  /\ step = "connecting" => Reachable(pinned)
  /\ contact # NoContact => Reachable(contact.address)
  /\ contact.token => contact.host \in FirstParty
  /\ body.kept \in Seq(Nat) /\ body.counted \in Nat /\ body = [kept |-> body.kept, counted |-> body.counted]
  /\ SizeOf(body.kept) <= MaxSize
  /\ step = "reading" => SizeOf(body.kept) <= body.counted
  /\ step \in {"checking", "connecting", "responding"} => body.kept = <<>>

LEMMA FetchStart == ASSUME FetchOK, FetchInit PROVE FetchInv
<1>1. body.kept = <<>> /\ body.counted = 0 /\ body = [kept |-> <<>>, counted |-> 0]
  BY DEF FetchInit, NoBody
<1>2. <<>> \in Seq(Nat) /\ MaxSize \in Nat
  BY DEF FetchOK
<1>3. SizeOf(<<>>) = 0
  BY <1>2, SizeAppend
<1> QED
  BY <1>1, <1>2, <1>3 DEF FetchInit, FetchInv, NoContact

LEMMA FetchStep ==
  ASSUME FetchOK, FetchInv, [FetchNext]_fetchVars PROVE FetchInv'
<1>0. /\ MaxSize \in Nat /\ Chunks \subseteq Nat /\ SizeOf(<<>>) = 0 /\ <<>> \in Seq(Nat)
      /\ SizeOf(body.kept) \in Nat
  BY SizeAppend DEF FetchOK, FetchInv
<1>1. CASE RedirectLimit
  BY <1>1 DEF RedirectLimit, Ends, FetchInv
<1>2. CASE Validate
  <2>1. PICK answer \in Lookup(url) :
          IF Syntactic(url) /\ Acceptable(answer)
          THEN pinned' = answer[1] /\ step' = "connecting" /\ UNCHANGED result
          ELSE Ends("blocked_by_safety_policy") /\ UNCHANGED pinned
    BY <1>2 DEF Validate
  <2>2. UNCHANGED <<url, hops, contact, body>> /\ step = "checking"
    BY <1>2 DEF Validate
  <2>3. CASE Acceptable(answer) /\ step' = "connecting" /\ pinned' = answer[1]
    <3>1. answer \in Seq(Addresses)
      <4>1. CASE url.host \in DOMAIN Literals
        <5>1. answer = <<Literals[url.host]>> /\ Literals[url.host] \in Addresses
          BY <4>1 DEF Lookup, FetchOK
        <5> QED
          BY <5>1
      <4>2. CASE url.host \notin DOMAIN Literals
        BY <4>2 DEF Lookup, FetchOK
      <4> QED
        BY <4>1, <4>2
    <3>2. answer[1] \in Addresses /\ ~Blocked(answer[1])
      BY <2>3, <3>1 DEF Acceptable
    <3>3. Reachable(pinned')
      BY <2>3, <3>2, GuardCovers
    <3> QED
      BY <2>2, <2>3, <3>3 DEF FetchInv
  <2>4. CASE step' = "done" /\ UNCHANGED pinned
    BY <2>2, <2>4 DEF FetchInv
  <2> QED
    BY <2>1, <2>3, <2>4 DEF Ends
<1>3. CASE ConnectTo
  <2>1. /\ contact' = [address |-> pinned, host |-> url.host, token |-> Token(url.host)]
        /\ step' = "responding" /\ UNCHANGED body /\ step = "connecting"
    BY <1>3 DEF ConnectTo
  <2>2. contact'.address = pinned /\ contact'.host = url.host
    BY <2>1
  <2>3. contact'.token => contact'.host \in FirstParty
    BY <2>1 DEF Token
  <2>4. Reachable(pinned)
    BY <2>1 DEF FetchInv
  <2>5. Reachable(contact'.address)
    BY <2>2, <2>4
  <2>6. /\ body.kept \in Seq(Nat) /\ body.counted \in Nat
        /\ body = [kept |-> body.kept, counted |-> body.counted]
        /\ SizeOf(body.kept) <= MaxSize /\ body.kept = <<>>
    BY <2>1 DEF FetchInv
  <2>7. step' = "responding" /\ body' = body
    BY <2>1
  <2> QED
    BY <2>3, <2>5, <2>6, <2>7 DEF FetchInv
<1>4. CASE Redirected
  BY <1>4 DEF Redirected, Ends, FetchInv
<1>5. CASE BadRedirect
  BY <1>5 DEF BadRedirect, Ends, FetchInv
<1>6. CASE Unreadable
  BY <1>0, <1>6 DEF Unreadable, Ends, FetchInv
<1>7. CASE Readable
  BY <1>0, <1>7 DEF Readable, FetchInv
<1>8. CASE ReadChunk
  <2>1. PICK chunk \in Chunks :
          IF Exceeds(body.counted + chunk)
          THEN /\ body' = [kept |-> <<>>, counted |-> body.counted + chunk]
               /\ Ends("response_size_limit")
          ELSE /\ body' = [kept |-> Append(body.kept, chunk), counted |-> body.counted + chunk]
               /\ UNCHANGED <<step, result>>
    BY <1>8 DEF ReadChunk
  <2>2. UNCHANGED <<url, hops, pinned, contact>> /\ step = "reading" /\ chunk \in Nat
    BY <1>0, <1>8 DEF ReadChunk
  <2>3. CASE Exceeds(body.counted + chunk)
    <3>1. body' = [kept |-> <<>>, counted |-> body.counted + chunk] /\ step' = "done"
      BY <2>1, <2>3 DEF Ends
    <3>2. body'.kept = <<>> /\ body'.counted = body.counted + chunk /\ body'.counted \in Nat
      BY <2>2, <3>1 DEF FetchInv
    <3> QED
      BY <1>0, <2>2, <3>1, <3>2 DEF FetchInv
  <2>4. CASE ~Exceeds(body.counted + chunk)
    <3>1. SizeOf(Append(body.kept, chunk)) = SizeOf(body.kept) + chunk
      BY <2>2, SizeAppend DEF FetchInv
    <3>2. body.counted \in Nat /\ body.counted + chunk <= MaxSize /\ SizeOf(body.kept) <= body.counted
      BY <1>0, <2>2, <2>4 DEF Exceeds, FetchInv
    <3>3. Append(body.kept, chunk) \in Seq(Nat)
      BY <2>2 DEF FetchInv
    <3>4. body' = [kept |-> Append(body.kept, chunk), counted |-> body.counted + chunk]
          /\ step' = "reading"
      BY <2>1, <2>2, <2>4
    <3> QED
      BY <1>0, <2>2, <3>1, <3>2, <3>3, <3>4 DEF FetchInv
  <2> QED
    BY <2>3, <2>4
<1>9. CASE BodyEnds
  BY <1>9 DEF BodyEnds, Ends, FetchInv
<1>10. CASE TimedOut
  BY <1>0, <1>10 DEF TimedOut, Ends, FetchInv
<1>11. CASE UNCHANGED fetchVars
  BY <1>11 DEF fetchVars, FetchInv
<1> QED
  BY <1>1, <1>2, <1>3, <1>4, <1>5, <1>6, <1>7, <1>8, <1>9, <1>10, <1>11 DEF FetchNext

\* Wherever redirects and answers of the resolver lead, no connection goes to an address of
\* the registry's special blocks, the token to no host but the first party's, and no more
\* than the limit is kept.
THEOREM FetchesAreContained ==
  ASSUME FetchOK PROVE FetchSpec => []FetchContained
<1>1. FetchInv => FetchContained
  BY DEF FetchInv, FetchContained
<1> QED
  BY <1>1, FetchStart, FetchStep, PTL DEF FetchSpec

-----------------------------------------------------------------------------
(***************************************************************************)
(* One retrieval from the archive                                          *)
(***************************************************************************)
\* Lines of the target, no two of the same URL.
Selected(kept) ==
  /\ kept \in Seq(Lines)
  /\ \A i \in 1..Len(kept) : OfTarget(kept[i])
  /\ \A i, j \in 1..Len(kept) : kept[i].url = kept[j].url => i = j

LEMMA LineAdded ==
  ASSUME NEW kept, Selected(kept), NEW line \in Lines PROVE Selected(AddLine(kept, line))
<1> DEFINE new == Append(kept, line)
<1>1. CASE /\ OfTarget(line)
           /\ \A i \in DOMAIN kept : kept[i].url # line.url /\ kept[i].range # line.range
  <2>1. AddLine(kept, line) = new
    BY <1>1 DEF AddLine
  <2>2. /\ kept \in Seq(Lines) /\ DOMAIN kept = 1..Len(kept) /\ Len(kept) \in Nat
    BY DEF Selected
  <2>3. /\ new \in Seq(Lines) /\ Len(new) = Len(kept) + 1 /\ new[Len(kept) + 1] = line
        /\ \A i \in 1..Len(kept) : new[i] = kept[i]
    BY <2>2
  <2> HIDE DEF new
  <2>4. \A i \in 1..Len(new) : i \in 1..Len(kept) \/ i = Len(kept) + 1
    BY <2>2, <2>3
  <2>5. \A i \in 1..Len(new) : OfTarget(new[i])
    BY <1>1, <2>3, <2>4 DEF Selected
  <2>6. \A i \in 1..Len(kept) : new[i].url # new[Len(kept) + 1].url
    BY <1>1, <2>2, <2>3
  <2>7. \A i, j \in 1..Len(new) : new[i].url = new[j].url => i = j
    BY <2>3, <2>4, <2>6 DEF Selected
  <2> QED
    BY <2>1, <2>3, <2>5, <2>7 DEF Selected
<1>2. CASE ~(/\ OfTarget(line)
             /\ \A i \in DOMAIN kept : kept[i].url # line.url /\ kept[i].range # line.range)
  BY <1>2 DEF AddLine
<1> QED
  BY <1>1, <1>2

\* Whatever the index answers, the lines that are kept are selected.
LEMMA ParsedSelected ==
  ASSUME listing \in Seq(Lines) PROVE Selected(Parsed)
<1> DEFINE n == Len(listing)
           S == {kept \in Seq(Lines) : Selected(kept)}
           advance == [p \in (1..n) \X S |-> AddLine(p[2], listing[p[1]])]
           Lists(g) == [i \in 0..n |-> IF i = 0 THEN <<>> ELSE AddLine(g[i - 1], listing[i])]
           k == CHOOSE g : g = Lists(g)
<1>1. n \in Nat /\ \A i \in 1..n : listing[i] \in Lines
  OBVIOUS
<1>2. Parsed = k[n]
  BY DEF Parsed
<1> HIDE DEF n
<1>3. <<>> \in S
  BY DEF Selected
<1>4. \A i \in 1..n, kept \in S : AddLine(kept, listing[i]) \in S
  BY <1>1, LineAdded DEF Selected
<1> HIDE DEF S
<1>5. advance \in Steps(n, S)
  BY <1>4 DEF Steps
<1>6. \A i \in 1..n, kept \in S : advance[<<i, kept>>] = AddLine(kept, listing[i])
  OBVIOUS
<1> HIDE DEF advance
<1>7. PICK f : f \in [0..n -> S] /\ f[0] = <<>> /\ \A i \in 1..n : f[i] = advance[<<i, f[i - 1]>>]
  <2>1. \E f : Solves(f, n, S, <<>>, advance)
    BY <1>1, <1>3, <1>5, RecursionSolved
  <2> QED
    BY <2>1 DEF Solves
<1>8. ASSUME NEW i \in 0..n PROVE f[i] = Lists(f)[i]
  <2>1. CASE i = 0
    BY <1>7, <2>1
  <2>2. CASE i # 0
    <3>1. i \in 1..n /\ f[i - 1] \in S
      BY <1>1, <1>7, <2>2
    <3> QED
      BY <1>6, <1>7, <2>2, <3>1
  <2> QED
    BY <2>1, <2>2
<1>9. f = Lists(f)
  BY <1>7, <1>8
<1>10. k = Lists(k)
  BY <1>9, Zenon
<1> HIDE DEF k
<1> DEFINE N == {m \in Nat : m \in 0..n => k[m] \in S}
<1>11. 0 \in N
  BY <1>1, <1>3, <1>10
<1>12. ASSUME NEW m \in 0..(n - 1), m \in N PROVE m + 1 \in N
  <2>1. m \in 0..n /\ m + 1 \in 0..n /\ m + 1 \in 1..n /\ m + 1 # 0 /\ (m + 1) - 1 = m /\ m + 1 \in Nat
    BY <1>1
  <2>2. k[m] \in S
    BY <1>12, <2>1
  <2>3. k[m + 1] = AddLine(k[m], listing[m + 1])
    BY <1>10, <2>1
  <2> QED
    BY <1>4, <2>1, <2>2, <2>3
<1> HIDE DEF N
<1>13. \A m \in 0..n : m \in N
  BY <1>1, <1>11, <1>12, Induction
<1>14. n \in 0..n
  BY <1>1
<1>15. k[n] \in S
  BY <1>13, <1>14 DEF N
<1> QED
  BY <1>2, <1>15 DEF S

\* There is a newest collection among those that can be used.
LEMMA LatestExists ==
  ASSUME ArchiveOK, collections \in Seq(Announced), Usable # {}
  PROVE  Latest \in Usable /\ \A j \in Usable : ~Newer(collections[j], collections[Latest])
<1> DEFINE n == Len(collections)
           U(m) == {i \in Usable : i <= m}
           Best(i, m) == i \in U(m) /\ \A j \in U(m) : ~Newer(collections[j], collections[i])
           N == {m \in Nat : U(m) = {} \/ \E i \in Nat : Best(i, m)}
<1>1. /\ n \in Nat /\ Usable \subseteq 1..n
      /\ \A i \in 1..n : collections[i] \in Announced
  BY DEF Usable
<1>2. \A i \in 1..n : collections[i].availableAt \in Nat /\ collections[i].week \in Nat
  BY <1>1 DEF ArchiveOK
<1> HIDE DEF n
<1>3. /\ \A i \in Usable : ~Newer(collections[i], collections[i])
      /\ \A i, j, h \in Usable :
           Newer(collections[i], collections[j]) /\ ~Newer(collections[h], collections[j])
             => ~Newer(collections[h], collections[i])
  <2>1. ASSUME NEW i \in Usable, NEW j \in Usable, NEW h \in Usable
        PROVE  /\ ~Newer(collections[i], collections[i])
               /\ Newer(collections[i], collections[j]) /\ ~Newer(collections[h], collections[j])
                    => ~Newer(collections[h], collections[i])
    <3>1. /\ collections[i].availableAt \in Nat /\ collections[i].week \in Nat
          /\ collections[j].availableAt \in Nat /\ collections[j].week \in Nat
          /\ collections[h].availableAt \in Nat /\ collections[h].week \in Nat
      BY <1>1, <1>2
    <3> QED
      BY <3>1, SMTT(40) DEF Newer
  <2> QED
    BY <2>1
<1>4. 0 \in N
  <2>1. \A i \in Usable : ~(i <= 0)
    BY <1>1
  <2> QED
    BY <2>1
<1>5. ASSUME NEW m \in 0..(n - 1), m \in N PROVE m + 1 \in N
  <2>1. m + 1 \in Nat /\ \A i \in Usable : i <= m + 1 <=> i <= m \/ i = m + 1
    BY <1>1
  <2>2. CASE m + 1 \notin Usable
    <3>1. U(m + 1) = U(m)
      BY <2>1, <2>2
    <3> QED
      BY <1>5, <2>1, <3>1
  <2>3. CASE m + 1 \in Usable
    <3>1. U(m + 1) = U(m) \cup {m + 1}
      BY <2>1, <2>3
    <3>2. CASE U(m) = {}
      <4>1. Best(m + 1, m + 1)
        BY <1>3, <2>3, <3>1, <3>2
      <4> QED
        BY <2>1, <4>1
    <3>3. CASE U(m) # {}
      <4>1. PICK i \in Nat : Best(i, m)
        BY <1>5, <3>3
      <4>2. CASE Newer(collections[m + 1], collections[i])
        <5>1. Best(m + 1, m + 1)
          BY <1>3, <2>3, <3>1, <4>1, <4>2
        <5> QED
          BY <2>1, <5>1
      <4>3. CASE ~Newer(collections[m + 1], collections[i])
        <5>1. Best(i, m + 1)
          BY <2>3, <3>1, <4>1, <4>3
        <5> QED
          BY <2>1, <5>1
      <4> QED
        BY <4>2, <4>3
    <3> QED
      BY <3>2, <3>3
  <2> QED
    BY <2>2, <2>3
<1> HIDE DEF N
<1>6. \A m \in 0..n : m \in N
  BY <1>1, <1>4, <1>5, Induction
<1>7. U(n) = Usable /\ n \in 0..n
  <2>1. \A i \in Usable : i <= n
    BY <1>1
  <2>2. U(n) = Usable
    BY <2>1, Zenon
  <2>3. n \in 0..n
    BY <1>1
  <2> QED
    BY <2>2, <2>3
<1>8. n \in N
  BY <1>6, <1>7
<1>9. \E i \in Usable : \A j \in Usable : ~Newer(collections[j], collections[i])
  BY <1>7, <1>8 DEF N
<1> QED
  BY <1>9, Zenon DEF Latest

\* A worker's record and request; those workers that have none.
Works == [at : Nat, step : {"idle", "ready", "open", "resting"}, attempt : Nat, bytes : Nat]
IdleOnes == {w \in FetchWorkers : worker[w].step = "idle"}
Page(i) == [url |-> records[i].url, range |-> records[i].range]
Reading == phase \in {"records", "done"} /\ (phase = "done" => failure = NoFault)

ArchiveTyped ==
  /\ listing \in Seq(Lines) /\ collections \in Seq(Announced)
  /\ phase \in {"target", "collection", "index", "records", "done"}
  /\ worker \in [FetchWorkers -> Works] /\ nextIndex \in Nat /\ compressed \in Nat
  /\ wire = compressed

\* Until the records are read one worker makes the requests, and a fault ends the crawl.
OneCaller ==
  phase \in {"target", "collection", "index"} =>
    /\ compressed = 0 /\ failure = NoFault /\ nextIndex = 1
    /\ \A w \in FetchWorkers : w # Main \/ phase = "target" => worker[w] = Idle

\* Once the budget is broken every chunk over it has sent its worker home for good.
BudgetBroken ==
  compressed > MaxTotal =>
    failure # NoFault /\ compressed <= MaxTotal + Cardinality(IdleOnes)

CollectionInUse ==
  phase = "index" \/ Reading => Usable # {} /\ collection = collections[Latest].id

\* Every record that was taken is read, or is being read, while there is no fault.
RecordsPlaced ==
  Reading =>
    /\ Selected(records) /\ DOMAIN output = 1..Len(records)
    /\ nextIndex \in 1..(Len(records) + 1)
    /\ phase = "records" => \A w \in FetchWorkers : w \notin IdleOnes => worker[w].at \in 1..(nextIndex - 1)
    /\ failure = NoFault =>
         \A i \in 1..(nextIndex - 1) :
           output[i] = Page(i) \/ \E w \in FetchWorkers : w \notin IdleOnes /\ worker[w].at = i
    /\ phase = "done" => nextIndex = Len(records) + 1 /\ \A i \in DOMAIN output : output[i] = Page(i)

ArchiveInv == ArchiveTyped /\ OneCaller /\ BudgetBroken /\ CollectionInUse /\ RecordsPlaced

\* The first part of the lines that are kept is selected too.
LEMMA SelectedPrefix ==
  ASSUME NEW kept, Selected(kept), NEW m \in 0..Len(kept) PROVE Selected(SubSeq(kept, 1, m))
<1>1. kept \in Seq(Lines) /\ Len(kept) \in Nat
  BY DEF Selected
<1>2. /\ SubSeq(kept, 1, m) \in Seq(Lines) /\ Len(SubSeq(kept, 1, m)) = m
      /\ \A i \in 1..m : SubSeq(kept, 1, m)[i] = kept[i] /\ i \in 1..Len(kept)
  BY <1>1
<1> QED
  BY <1>1, <1>2 DEF Selected

\* A fault is not the absence of one.
LEMMA FaultsAreFaults ==
  \A code : code # "none" => Fault(code) # NoFault /\ Transient(code) # NoFault
<1> SUFFICES ASSUME NEW code, code # "none"
             PROVE  Fault(code) # NoFault /\ Transient(code) # NoFault
  OBVIOUS
<1>1. Fault(code).code = code /\ Transient(code).code = code /\ NoFault.code = "none"
  BY DEF Fault, Transient, NoFault
<1> QED
  BY <1>1

\* What a step of a request is: the worker goes on with its record or ends with a fault.
GoesOn(w) ==
  /\ \E r \in Works : r.at = worker[w].at /\ r.step # "idle" /\ worker' = [worker EXCEPT ![w] = r]
  /\ UNCHANGED <<failure, phase>>
GoesHome(w) ==
  /\ worker' = [worker EXCEPT ![w] = Idle] /\ failure' # NoFault
  /\ phase' = IF phase = "records" THEN "records" ELSE "done"
RequestStep(w) ==
  /\ Calling(w) /\ UNCHANGED <<target, collections, listing, collection, records, nextIndex, output>>
  /\ GoesOn(w) \/ GoesHome(w)
  /\ \/ UNCHANGED <<compressed, wire>>
     \/ /\ phase = "records" /\ compressed' = compressed + 1 /\ wire' = wire + 1
        /\ compressed' > MaxTotal => GoesHome(w)

LEMMA FailedGoesHome ==
  ASSUME NEW w, NEW fault, fault # NoFault, Failed(w, fault) PROVE GoesHome(w)
<1>1. CASE phase = "records"
  BY <1>1 DEF Failed, GoesHome
<1>2. CASE phase # "records"
  BY <1>2 DEF Failed, Throw, GoesHome
<1> QED
  BY <1>1, <1>2

LEMMA RetriedGoes ==
  ASSUME ArchiveTyped, NEW w \in FetchWorkers, NEW fault, fault # NoFault, Retried(w, fault)
  PROVE  GoesOn(w) \/ GoesHome(w)
<1>1. CASE fault.retryable /\ WorkerAt(w).attempt < MaxRetries
  <2> DEFINE r == [worker[w] EXCEPT !.step = "resting", !.bytes = 0]
  <2>1. worker' = [worker EXCEPT ![w] = r] /\ UNCHANGED <<failure, phase>>
    BY <1>1 DEF Retried
  <2>2. worker[w] \in Works
    BY DEF ArchiveTyped
  <2>3. r \in Works /\ r.at = worker[w].at /\ r.step # "idle"
    BY <2>2 DEF Works
  <2> HIDE DEF r
  <2> QED
    BY <2>1, <2>3 DEF GoesOn
<1>2. CASE ~(fault.retryable /\ WorkerAt(w).attempt < MaxRetries)
  <2>1. Failed(w, fault)
    BY <1>2 DEF Retried
  <2> QED
    BY <2>1, FailedGoesHome
<1> QED
  BY <1>1, <1>2

\* A record that a worker takes up, and the request for it.
LEMMA AskingFor ==
  ASSUME NEW at
  PROVE  Asking(at) = [at |-> at, step |-> "ready", attempt |-> 0, bytes |-> 0]
<1> DEFINE r == [at |-> at, step |-> "idle", attempt |-> 0, bytes |-> 0]
<1>1. [Idle EXCEPT !.at = at] = r
  BY DEF Idle
<1>2. [r EXCEPT !.step = "ready"] = [at |-> at, step |-> "ready", attempt |-> 0, bytes |-> 0]
  OBVIOUS
<1>3. Asking(at) = [[Idle EXCEPT !.at = at] EXCEPT !.step = "ready"]
  BY DEF Asking
<1> QED
  BY <1>1, <1>2, <1>3, Zenon

LEMMA RequestSteps ==
  ASSUME ArchiveTyped, NEW w \in FetchWorkers,
         Send(w) \/ GetFails(w) \/ ChunkArrives(w) \/ AnswersBusy(w) \/ Rested(w)
  PROVE  RequestStep(w)
<1>0. worker[w] \in Works /\ worker[w].at \in Nat /\ worker[w].attempt \in Nat /\ worker[w].bytes \in Nat
  BY DEF ArchiveTyped, Works
<1> USE DEF inputs, metrics
<1>1. CASE Send(w)
  <2>1. /\ Calling(w)
        /\ UNCHANGED <<target, collections, listing, collection, records, nextIndex, output,
                       compressed, wire>>
    BY <1>1 DEF Send
  <2>2. CASE Late
    <3>1. Failed(w, Transient("total_timeout"))
      BY <1>1, <2>2 DEF Send
    <3>2. GoesHome(w)
      BY <3>1, FaultsAreFaults, FailedGoesHome
    <3> QED
      BY <2>1, <3>2 DEF RequestStep
  <2>3. CASE ~Late
    <3> DEFINE r == [worker[w] EXCEPT !.step = "open"]
    <3>1. worker' = [worker EXCEPT ![w] = r] /\ UNCHANGED <<failure, phase>>
      BY <1>1, <2>3 DEF Send
    <3>2. r \in Works /\ r.at = worker[w].at /\ r.step # "idle"
      BY <1>0 DEF Works
    <3> HIDE DEF r
    <3>3. GoesOn(w)
      BY <3>1, <3>2 DEF GoesOn
    <3> QED
      BY <2>1, <3>3 DEF RequestStep
  <2> QED
    BY <2>2, <2>3
<1>2. CASE GetFails(w)
  <2>1. PICK fault \in RefusalsOfGet : Retried(w, fault)
    BY <1>2 DEF GetFails
  <2>2. fault # NoFault
    BY FaultsAreFaults DEF RefusalsOfGet
  <2> QED
    BY <1>2, <2>1, <2>2, RetriedGoes DEF GetFails, RequestStep
<1>3. CASE ChunkArrives(w)
  <2>1. /\ Calling(w) /\ phase = "records"
        /\ UNCHANGED <<target, collections, listing, collection, records, nextIndex, output>>
        /\ compressed' = compressed + 1 /\ wire' = wire + 1
    BY <1>3 DEF ChunkArrives, Counted
  <2>2. CASE compressed' > MaxTotal
    <3>1. Failed(w, Fault("total_compressed"))
      BY <1>3, <2>2 DEF ChunkArrives
    <3>2. GoesHome(w)
      BY <3>1, FaultsAreFaults, FailedGoesHome
    <3> QED
      BY <2>1, <3>2 DEF RequestStep
  <2>3. CASE ~(compressed' > MaxTotal) /\ WorkerAt(w).bytes + 1 > MaxRange
    <3>1. Failed(w, Fault("response_size"))
      BY <1>3, <2>3 DEF ChunkArrives
    <3>2. GoesHome(w)
      BY <3>1, FaultsAreFaults, FailedGoesHome
    <3> QED
      BY <2>1, <3>2 DEF RequestStep
  <2>4. CASE ~(compressed' > MaxTotal) /\ ~(WorkerAt(w).bytes + 1 > MaxRange)
    <3> DEFINE r == [worker[w] EXCEPT !.bytes = @ + 1]
    <3>1. worker' = [worker EXCEPT ![w] = r] /\ UNCHANGED <<failure, phase>>
      BY <1>3, <2>4 DEF ChunkArrives
    <3>2. worker[w].step = "open"
      BY <1>3 DEF ChunkArrives, WorkerAt
    <3>3. r \in Works /\ r.at = worker[w].at /\ r.step # "idle"
      BY <1>0, <3>2 DEF Works
    <3> HIDE DEF r
    <3>4. GoesOn(w)
      BY <3>1, <3>3 DEF GoesOn
    <3> QED
      BY <2>1, <2>4, <3>4 DEF RequestStep
  <2> QED
    BY <2>2, <2>3, <2>4
<1>4. CASE AnswersBusy(w)
  <2> DEFINE fault == IF Late THEN Transient("total_timeout") ELSE Transient("status")
  <2>1. Retried(w, fault)
    BY <1>4 DEF AnswersBusy
  <2>2. fault # NoFault
    BY FaultsAreFaults
  <2> HIDE DEF fault
  <2> QED
    BY <1>4, <2>1, <2>2, RetriedGoes DEF AnswersBusy, RequestStep
<1>5. CASE Rested(w)
  <2>1. /\ Calling(w)
        /\ UNCHANGED <<target, collections, listing, collection, records, nextIndex, output,
                       compressed, wire>>
    BY <1>5 DEF Rested
  <2>2. CASE Late
    <3>1. Failed(w, Transient("total_timeout"))
      BY <1>5, <2>2 DEF Rested
    <3>2. GoesHome(w)
      BY <3>1, FaultsAreFaults, FailedGoesHome
    <3> QED
      BY <2>1, <3>2 DEF RequestStep
  <2>3. CASE ~Late
    <3> DEFINE r == [Asking(worker[w].at) EXCEPT !.attempt = worker[w].attempt + 1]
    <3>1. worker' = [worker EXCEPT ![w] = r] /\ UNCHANGED <<failure, phase>>
      BY <1>5, <2>3 DEF Rested
    <3>2. r = [at |-> worker[w].at, step |-> "ready", attempt |-> worker[w].attempt + 1, bytes |-> 0]
      BY AskingFor
    <3>3. r \in Works /\ r.at = worker[w].at /\ r.step # "idle"
      BY <1>0, <3>2 DEF Works
    <3> HIDE DEF r
    <3>4. GoesOn(w)
      BY <3>1, <3>3 DEF GoesOn
    <3> QED
      BY <2>1, <3>4 DEF RequestStep
  <2> QED
    BY <2>2, <2>3
<1> QED
  BY <1>1, <1>2, <1>3, <1>4, <1>5

LEMMA ArchiveStart == ASSUME ArchiveOK, ArchiveInit PROVE ArchiveInv
<1>1. Idle \in Works
  BY DEF Idle, Works
<1>2. worker \in [FetchWorkers -> Works] /\ \A w \in FetchWorkers : worker[w] = Idle
  BY <1>1 DEF ArchiveInit
<1>3. ArchiveTyped
  BY <1>2 DEF ArchiveInit, ArchiveOK, ArchiveTyped
<1>4. OneCaller
  BY <1>2 DEF ArchiveInit, OneCaller
<1>5. BudgetBroken
  BY DEF ArchiveInit, ArchiveOK, BudgetBroken
<1>6. CollectionInUse /\ RecordsPlaced
  BY DEF ArchiveInit, CollectionInUse, RecordsPlaced, Reading
<1> QED
  BY <1>3, <1>4, <1>5, <1>6 DEF ArchiveInv

LEMMA MainIsOne == ASSUME ArchiveOK PROVE Main \in FetchWorkers
BY DEF ArchiveOK, Main

\* The workers without a request are finitely many, and one more when another ends.
LEMMA IdleCount ==
  ASSUME ArchiveOK
  PROVE  /\ Cardinality(IdleOnes) \in Nat /\ Cardinality(IdleOnes') \in Nat
         /\ IdleOnes \subseteq IdleOnes' => Cardinality(IdleOnes) <= Cardinality(IdleOnes')
         /\ IdleOnes \subseteq IdleOnes' /\ IdleOnes # IdleOnes'
              => Cardinality(IdleOnes) + 1 <= Cardinality(IdleOnes')
         /\ IdleOnes' # {} => Cardinality(IdleOnes') >= 1
<1>1. IsFiniteSet(FetchWorkers) /\ IdleOnes \subseteq FetchWorkers /\ IdleOnes' \subseteq FetchWorkers
  BY DEF ArchiveOK, IdleOnes
<1>2. IsFiniteSet(IdleOnes) /\ IsFiniteSet(IdleOnes')
  BY <1>1, FS_Subset
<1>3. Cardinality(IdleOnes) \in Nat /\ Cardinality(IdleOnes') \in Nat
  BY <1>2, FS_CardinalityType
<1>4. IdleOnes \subseteq IdleOnes' =>
        /\ Cardinality(IdleOnes) <= Cardinality(IdleOnes')
        /\ IdleOnes # IdleOnes' => Cardinality(IdleOnes) < Cardinality(IdleOnes')
  <2>1. IdleOnes \subseteq IdleOnes' =>
          /\ Cardinality(IdleOnes) <= Cardinality(IdleOnes')
          /\ Cardinality(IdleOnes) = Cardinality(IdleOnes') => IdleOnes = IdleOnes'
    BY <1>2, FS_Subset
  <2> QED
    BY <1>3, <2>1
<1>5. IdleOnes' # {} => Cardinality(IdleOnes') # 0
  BY <1>2, FS_EmptySet
<1> QED
  BY <1>3, <1>4, <1>5

\* A step of a request keeps everything, with a fault or without.
LEMMA RequestKeeps ==
  ASSUME ArchiveOK, ArchiveInv, NEW w \in FetchWorkers, RequestStep(w) PROVE ArchiveInv'
<1>1. PICK r \in Works :
        /\ worker' = [worker EXCEPT ![w] = r]
        /\ \/ r.at = worker[w].at /\ r.step # "idle" /\ UNCHANGED <<failure, phase>>
           \/ /\ r.step = "idle" /\ failure' # NoFault /\ r = Idle
              /\ phase' = IF phase = "records" THEN "records" ELSE "done"
  <2>1. Idle \in Works /\ Idle.step = "idle"
    BY DEF Idle, Works
  <2> QED
    BY <2>1 DEF RequestStep, GoesOn, GoesHome
<1>2. /\ worker \in [FetchWorkers -> Works] /\ worker' \in [FetchWorkers -> Works] /\ worker'[w] = r
      /\ \A v \in FetchWorkers : v # w => worker'[v] = worker[v]
      /\ worker[w].step # "idle" /\ phase \in {"collection", "index", "records"}
  BY <1>1 DEF RequestStep, ArchiveInv, ArchiveTyped, Calling, WorkerAt
<1>3. /\ IdleOnes' = IF r.step = "idle" THEN IdleOnes \cup {w} ELSE IdleOnes
      /\ w \notin IdleOnes
  BY <1>2 DEF IdleOnes
<1>4. UNCHANGED <<target, collections, listing, collection, records, nextIndex, output>>
  BY DEF RequestStep
<1>5. ArchiveTyped'
  BY <1>1, <1>2, <1>4 DEF RequestStep, ArchiveInv, ArchiveTyped
<1>6. OneCaller'
  <2>1. CASE phase' \in {"collection", "index"}
    <3>1. phase \in {"collection", "index"} /\ UNCHANGED <<failure, phase, compressed>>
      BY <1>1, <2>1 DEF RequestStep
    <3>2. w = Main
      <4>1. Idle.step = "idle"
        BY DEF Idle
      <4> QED
        BY <1>2, <3>1, <4>1 DEF ArchiveInv, OneCaller
    <3> QED
      BY <1>2, <1>4, <3>1, <3>2 DEF ArchiveInv, OneCaller
  <2>2. CASE phase' \notin {"target", "collection", "index"}
    BY <2>2 DEF OneCaller
  <2>3. phase' # "target"
    BY <1>1, <1>2
  <2> QED
    BY <2>1, <2>2, <2>3
<1>7. BudgetBroken'
  <2>1. compressed \in Nat /\ MaxTotal \in Nat /\ IdleOnes \subseteq IdleOnes'
    BY <1>3 DEF ArchiveInv, ArchiveTyped, ArchiveOK
  <2>2. CASE UNCHANGED compressed
    BY <1>1, <2>1, <2>2, IdleCount DEF ArchiveInv, BudgetBroken
  <2>3. CASE compressed' = compressed + 1 /\ (compressed' > MaxTotal => GoesHome(w))
    <3> SUFFICES ASSUME compressed' > MaxTotal
                 PROVE  failure' # NoFault /\ compressed' <= MaxTotal + Cardinality(IdleOnes')
      BY DEF BudgetBroken
    <3>1. failure' # NoFault /\ worker' = [worker EXCEPT ![w] = Idle]
      BY <2>3 DEF GoesHome
    <3>2. w \in IdleOnes'
      <4>1. worker'[w] = Idle /\ Idle.step = "idle"
        BY <1>2, <3>1 DEF Idle
      <4> QED
        BY <4>1 DEF IdleOnes
    <3>3. IdleOnes # IdleOnes' /\ IdleOnes' # {}
      BY <1>3, <3>2
    <3>4. compressed > MaxTotal => compressed <= MaxTotal + Cardinality(IdleOnes)
      BY DEF ArchiveInv, BudgetBroken
    <3> QED
      BY <2>1, <2>3, <3>1, <3>3, <3>4, IdleCount
  <2> QED
    BY <2>2, <2>3 DEF RequestStep
<1>8. CollectionInUse'
  <2>1. Usable' = Usable /\ Latest' = Latest
    BY <1>4 DEF Usable, Latest, Newer
  <2>2. phase' = "index" \/ Reading' => phase = "index" \/ Reading
    BY <1>1, <1>2 DEF Reading
  <2> QED
    BY <1>4, <2>1, <2>2 DEF ArchiveInv, CollectionInUse
<1>9. RecordsPlaced'
  <2> SUFFICES ASSUME Reading' PROVE RecordsPlaced'
    BY DEF RecordsPlaced
  <2>1. Reading /\ phase = "records" /\ phase' = "records"
    BY <1>1, <1>2 DEF Reading
  <2>2. Selected(records)' /\ DOMAIN output' = 1..Len(records') /\ nextIndex' \in 1..(Len(records') + 1)
    BY <1>4, <2>1 DEF ArchiveInv, RecordsPlaced, Selected, OfTarget
  <2>3. \A v \in FetchWorkers : v \notin IdleOnes' => v \notin IdleOnes /\ worker'[v].at = worker[v].at
    BY <1>1, <1>2, <1>3
  <2>4. \A v \in FetchWorkers : v \notin IdleOnes' => worker'[v].at \in 1..(nextIndex' - 1)
    BY <1>4, <2>1, <2>3 DEF ArchiveInv, RecordsPlaced
  <2>5. ASSUME failure' = NoFault, NEW i \in 1..(nextIndex' - 1)
        PROVE  output'[i] = Page(i)' \/ \E v \in FetchWorkers : v \notin IdleOnes' /\ worker'[v].at = i
    <3>1. IdleOnes' = IdleOnes /\ failure = NoFault
      BY <1>1, <1>3, <2>5
    <3>2. Page(i)' = Page(i) /\ output' = output
      BY <1>4 DEF Page
    <3>3. output[i] = Page(i) \/ \E v \in FetchWorkers : v \notin IdleOnes /\ worker[v].at = i
      BY <1>4, <2>1, <2>5, <3>1 DEF ArchiveInv, RecordsPlaced
    <3> QED
      BY <2>3, <3>1, <3>2, <3>3
  <2> QED
    BY <2>1, <2>2, <2>4, <2>5 DEF RecordsPlaced
<1> QED
  BY <1>5, <1>6, <1>7, <1>8, <1>9 DEF ArchiveInv

LEMMA ArchiveStep ==
  ASSUME ArchiveOK, ArchiveInv, [ArchiveNext]_archiveVars PROVE ArchiveInv'
<1>0. /\ Main \in FetchWorkers /\ Idle \in Works /\ Idle.step = "idle"
      /\ Asking(0) \in Works /\ Asking(0).step # "idle"
  <2>1. Asking(0) = [at |-> 0, step |-> "ready", attempt |-> 0, bytes |-> 0]
    BY AskingFor
  <2> QED
    BY <2>1, MainIsOne DEF Idle, Works
<1>1. worker \in [FetchWorkers -> Works]
  BY DEF ArchiveInv, ArchiveTyped
<1>2. UNCHANGED <<collections, listing>> => Usable' = Usable /\ Latest' = Latest
  BY DEF Usable, Latest, Newer
<1>3. UNCHANGED <<target, records>> => Selected(records)' = Selected(records)
  BY DEF Selected, OfTarget
<1> USE DEF inputs, metrics
<1>4. CASE CheckTarget
  <2>1. /\ phase = "target" /\ compressed = 0 /\ failure = NoFault /\ nextIndex = 1
        /\ UNCHANGED <<target, collections, listing, collection, records, nextIndex, output,
                       compressed, wire>>
        /\ \A w \in FetchWorkers : worker[w] = Idle
    BY <1>4 DEF CheckTarget, ArchiveInv, OneCaller
  <2>2. CASE phase' = "collection" /\ worker' = [worker EXCEPT ![Main] = Asking(0)] /\ UNCHANGED failure
    <3>1. worker' \in [FetchWorkers -> Works] /\ \A w \in FetchWorkers : w # Main => worker'[w] = Idle
      BY <1>0, <1>1, <2>1, <2>2
    <3> QED
      BY <2>1, <2>2, <3>1 DEF ArchiveInv, ArchiveTyped, OneCaller, BudgetBroken, CollectionInUse,
                              RecordsPlaced, Reading, ArchiveOK
  <2>3. CASE UNCHANGED worker /\ failure' # NoFault /\ phase' = "done"
    BY <2>1, <2>3 DEF ArchiveInv, ArchiveTyped, OneCaller, BudgetBroken, CollectionInUse,
                      RecordsPlaced, Reading, ArchiveOK
  <2> QED
    BY <1>4, <2>2, <2>3, FaultsAreFaults DEF CheckTarget, Throw
<1>5. CASE CollectionFound
  <2>1. /\ phase = "collection" /\ compressed = 0 /\ failure = NoFault /\ nextIndex = 1
        /\ UNCHANGED <<target, collections, listing, records, nextIndex, output, compressed, wire>>
        /\ \A w \in FetchWorkers : w # Main => worker[w] = Idle
    BY <1>5 DEF CollectionFound, ArchiveInv, OneCaller
  <2>2. CASE /\ Usable # {} /\ phase' = "index" /\ collection' = collections[Latest].id
             /\ worker' = [worker EXCEPT ![Main] = Asking(0)] /\ UNCHANGED failure
    <3>1. worker' \in [FetchWorkers -> Works] /\ \A w \in FetchWorkers : w # Main => worker'[w] = Idle
      BY <1>0, <1>1, <2>1, <2>2
    <3>2. CollectionInUse'
      BY <1>2, <2>1, <2>2 DEF CollectionInUse
    <3> QED
      BY <2>1, <2>2, <3>1, <3>2 DEF ArchiveInv, ArchiveTyped, OneCaller, BudgetBroken,
                                    RecordsPlaced, Reading, ArchiveOK
  <2>3. CASE worker' = [worker EXCEPT ![Main] = Idle] /\ failure' # NoFault /\ phase' = "done"
    <3>1. worker' \in [FetchWorkers -> Works]
      BY <1>0, <1>1, <2>3
    <3> QED
      BY <2>1, <2>3, <3>1 DEF ArchiveInv, ArchiveTyped, OneCaller, BudgetBroken, CollectionInUse,
                              RecordsPlaced, Reading, ArchiveOK
  <2> QED
    BY <1>5, <2>2, <2>3, FaultsAreFaults DEF CollectionFound, Throw
<1>6. CASE IndexRead
  <2>1. /\ phase = "index" /\ compressed = 0 /\ failure = NoFault /\ nextIndex = 1
        /\ UNCHANGED <<target, collections, listing, collection, nextIndex, compressed, wire>>
        /\ worker' = [worker EXCEPT ![Main] = Idle]
        /\ \A w \in FetchWorkers : w # Main => worker[w] = Idle
    BY <1>6 DEF IndexRead, ArchiveInv, OneCaller
  <2>2. worker' \in [FetchWorkers -> Works] /\ \A w \in FetchWorkers : worker'[w] = Idle
    BY <1>0, <1>1, <2>1
  <2>3. CASE failure' # NoFault /\ phase' = "done" /\ UNCHANGED <<records, output>>
    BY <2>1, <2>2, <2>3 DEF ArchiveInv, ArchiveTyped, OneCaller, BudgetBroken, CollectionInUse,
                            RecordsPlaced, Reading, ArchiveOK
  <2>4. CASE ~LinesBad
    <3>1. PICK pages \in 1..MaxPages :
            /\ records' = SubSeq(Parsed, 1, IF Len(Parsed) < pages THEN Len(Parsed) ELSE pages)
            /\ output' = [i \in DOMAIN records' |-> NoPage]
            /\ phase' = "records" /\ UNCHANGED failure
      BY <1>6, <2>4 DEF IndexRead
    <3> DEFINE m == IF Len(Parsed) < pages THEN Len(Parsed) ELSE pages
    <3>2. Selected(Parsed) /\ Len(Parsed) \in Nat
      <4>1. Selected(Parsed)
        BY ParsedSelected DEF ArchiveInv, ArchiveTyped
      <4> QED
        BY <4>1 DEF Selected
    <3>3. m \in 0..Len(Parsed)
      BY <3>2 DEF ArchiveOK
    <3>4. Selected(SubSeq(Parsed, 1, m))
      BY <3>2, <3>3, SelectedPrefix
    <3>5. records' = SubSeq(Parsed, 1, m)
      BY <3>1
    <3> HIDE DEF m
    <3>6. Selected(records')
      BY <3>4, <3>5
    <3>7. Selected(records)'
      BY <2>1, <3>6 DEF Selected, OfTarget
    <3>8. DOMAIN output' = 1..Len(records') /\ Len(records') \in Nat
      BY <3>1, <3>6 DEF Selected
    <3>9. RecordsPlaced'
      BY <2>1, <2>2, <3>1, <3>7, <3>8, <1>0 DEF RecordsPlaced, IdleOnes
    <3>10. CollectionInUse'
      BY <1>2, <2>1 DEF ArchiveInv, CollectionInUse
    <3> QED
      BY <2>1, <2>2, <3>1, <3>9, <3>10 DEF ArchiveInv, ArchiveTyped, OneCaller, BudgetBroken, ArchiveOK
  <2> QED
    BY <1>6, <2>3, <2>4, FaultsAreFaults DEF IndexRead, Throw
<1>7. CASE AllReturned
  <2>1. /\ phase = "records" /\ phase' = "done" /\ IdleOnes = FetchWorkers /\ IdleOnes' = FetchWorkers
        /\ failure # NoFault \/ nextIndex > Len(records)
        /\ UNCHANGED <<target, collections, listing, collection, records, nextIndex, worker, output,
                       failure, compressed, wire>>
    BY <1>7 DEF AllReturned, IdleOnes, WorkerAt
  <2>2. RecordsPlaced'
    <3> SUFFICES ASSUME failure = NoFault PROVE RecordsPlaced'
      BY <2>1 DEF RecordsPlaced, Reading
    <3>1. /\ Selected(records) /\ DOMAIN output = 1..Len(records)
          /\ nextIndex \in 1..(Len(records) + 1)
          /\ \A i \in 1..(nextIndex - 1) :
               output[i] = Page(i) \/ \E w \in FetchWorkers : w \notin IdleOnes /\ worker[w].at = i
      BY <2>1 DEF ArchiveInv, RecordsPlaced, Reading
    <3>2. nextIndex = Len(records) + 1 /\ \A i \in DOMAIN output : output[i] = Page(i)
      <4>1. Len(records) \in Nat
        BY <3>1 DEF Selected
      <4> QED
        BY <2>1, <3>1, <4>1
    <3> QED
      BY <1>3, <2>1, <3>1, <3>2 DEF RecordsPlaced, Page
  <2>3. CollectionInUse'
    BY <1>2, <2>1 DEF ArchiveInv, CollectionInUse, Reading
  <2> QED
    BY <2>1, <2>2, <2>3 DEF ArchiveInv, ArchiveTyped, OneCaller, BudgetBroken
<1>8. CASE ArchiveTick \/ UNCHANGED archiveVars
  <2>1. UNCHANGED <<target, collections, listing, phase, collection, records, nextIndex, worker,
                    output, failure, compressed, wire>>
    BY <1>8 DEF ArchiveTick, archiveVars
  <2> QED
    BY <1>2, <1>3, <2>1 DEF ArchiveInv, ArchiveTyped, OneCaller, BudgetBroken, CollectionInUse,
                            RecordsPlaced, Reading, IdleOnes, Page
<1>9. ASSUME NEW w \in FetchWorkers,
             Send(w) \/ GetFails(w) \/ ChunkArrives(w) \/ AnswersBusy(w) \/ Rested(w)
      PROVE  ArchiveInv'
  BY <1>9, RequestSteps, RequestKeeps DEF ArchiveInv
<1>10. ASSUME NEW w \in FetchWorkers, TakeRecord(w) PROVE ArchiveInv'
  <2> DEFINE r == Asking(nextIndex)
  <2>1. /\ phase = "records" /\ worker[w].step = "idle" /\ failure = NoFault
        /\ nextIndex <= Len(records) /\ worker' = [worker EXCEPT ![w] = r] /\ nextIndex' = nextIndex + 1
        /\ UNCHANGED <<target, collections, listing, phase, collection, records, output, failure,
                       compressed, wire>>
    BY <1>10 DEF TakeRecord, WorkerAt
  <2>2. nextIndex \in Nat
    BY DEF ArchiveInv, ArchiveTyped
  <2>3. r \in Works /\ r.at = nextIndex /\ r.step # "idle"
    <3>1. r = [at |-> nextIndex, step |-> "ready", attempt |-> 0, bytes |-> 0]
      BY AskingFor
    <3> QED
      BY <2>2, <3>1 DEF Works
  <2> HIDE DEF r
  <2>4. worker' \in [FetchWorkers -> Works] /\ worker'[w] = r /\ \A v \in FetchWorkers : v # w => worker'[v] = worker[v]
    BY <1>1, <2>1, <2>3
  <2>5. IdleOnes' = IdleOnes \ {w} /\ w \in IdleOnes
    BY <2>1, <2>3, <2>4 DEF IdleOnes
  <2>6. /\ Selected(records) /\ DOMAIN output = 1..Len(records) /\ Len(records) \in Nat
        /\ nextIndex \in 1..(Len(records) + 1)
        /\ \A v \in FetchWorkers : v \notin IdleOnes => worker[v].at \in 1..(nextIndex - 1)
        /\ \A i \in 1..(nextIndex - 1) :
             output[i] = Page(i) \/ \E v \in FetchWorkers : v \notin IdleOnes /\ worker[v].at = i
    BY <2>1 DEF ArchiveInv, RecordsPlaced, Reading, Selected
  <2>7. \A v \in FetchWorkers : v \notin IdleOnes' => worker'[v].at \in 1..(nextIndex' - 1)
    <3> SUFFICES ASSUME NEW v \in FetchWorkers, v \notin IdleOnes' PROVE worker'[v].at \in 1..(nextIndex' - 1)
      OBVIOUS
    <3>1. CASE v = w
      BY <2>1, <2>2, <2>3, <2>4, <2>6, <3>1
    <3>2. CASE v # w
      <4>1. worker'[v] = worker[v] /\ worker[v].at \in 1..(nextIndex - 1)
        BY <2>4, <2>5, <2>6, <3>2
      <4> QED
        BY <2>1, <2>2, <4>1
    <3> QED
      BY <3>1, <3>2
  <2>8. ASSUME NEW i \in 1..(nextIndex' - 1)
        PROVE  output[i] = Page(i) \/ \E v \in FetchWorkers : v \notin IdleOnes' /\ worker'[v].at = i
    <3>1. CASE i = nextIndex
      BY <2>3, <2>4, <2>5, <3>1
    <3>2. CASE i # nextIndex
      <4>1. i \in 1..(nextIndex - 1)
        BY <2>1, <2>2, <3>2
      <4>2. \A v \in FetchWorkers : v \notin IdleOnes => v \notin IdleOnes' /\ worker'[v] = worker[v]
        BY <2>4, <2>5
      <4> QED
        BY <2>6, <4>1, <4>2
    <3> QED
      BY <3>1, <3>2
  <2>9. RecordsPlaced'
    <3>1. nextIndex' \in 1..(Len(records) + 1)
      BY <2>1, <2>2, <2>6
    <3>2. Selected(records)'
      BY <1>3, <2>1, <2>6
    <3>3. \A i \in 1..(nextIndex' - 1) :
            output[i] = Page(i) \/ \E v \in FetchWorkers : v \notin IdleOnes' /\ worker'[v].at = i
      BY <2>8
    <3> QED
      BY <2>1, <2>6, <2>7, <3>1, <3>2, <3>3 DEF RecordsPlaced, Page
  <2>10. CollectionInUse'
    BY <1>2, <2>1 DEF ArchiveInv, CollectionInUse, Reading
  <2> QED
    BY <2>1, <2>2, <2>4, <2>9, <2>10 DEF ArchiveInv, ArchiveTyped, OneCaller, BudgetBroken
<1>11. ASSUME NEW w \in FetchWorkers, RecordRead(w) PROVE ArchiveInv'
  <2>1. PICK reply \in Reply :
          IF ReplyFault(w, reply) # NoFault
          THEN Failed(w, ReplyFault(w, reply)) /\ UNCHANGED output
          ELSE /\ output' = [output EXCEPT ![Place(w)] =
                               [url |-> reply.url, range |-> records[WorkerAt(w).at].range]]
               /\ worker' = [worker EXCEPT ![w] = Idle] /\ UNCHANGED <<failure, phase>>
    BY <1>11 DEF RecordRead
  <2>2. /\ phase = "records" /\ Calling(w)
        /\ UNCHANGED <<target, collections, listing, collection, records, nextIndex, compressed, wire>>
    BY <1>11 DEF RecordRead, Answered
  <2>3. CASE ReplyFault(w, reply) # NoFault
    <3>1. GoesHome(w) /\ UNCHANGED output
      BY <2>1, <2>3, FailedGoesHome
    <3> QED
      BY <2>2, <3>1, RequestKeeps DEF RequestStep
  <2>4. CASE ReplyFault(w, reply) = NoFault
    <3> DEFINE at == worker[w].at
               page == [url |-> reply.url, range |-> records[at].range]
    <3>1. /\ output' = [output EXCEPT ![at] = page] /\ worker' = [worker EXCEPT ![w] = Idle]
          /\ UNCHANGED <<failure, phase>>
      BY <2>1, <2>4 DEF Place, WorkerAt
    <3>2. reply.url = records[at].url
      BY <2>4, FaultsAreFaults DEF ReplyFault, WorkerAt
    <3>3. page = Page(at)
      BY <3>2 DEF Page
    <3> HIDE DEF at, page
    <3>4. /\ worker' \in [FetchWorkers -> Works] /\ worker'[w] = Idle
          /\ \A v \in FetchWorkers : v # w => worker'[v] = worker[v]
      BY <1>0, <1>1, <3>1
    <3>5. IdleOnes' = IdleOnes \cup {w} /\ w \notin IdleOnes
      BY <1>0, <2>2, <3>4 DEF IdleOnes, Calling, WorkerAt
    <3>6. /\ Selected(records) /\ DOMAIN output = 1..Len(records) /\ Len(records) \in Nat
          /\ nextIndex \in 1..(Len(records) + 1)
          /\ \A v \in FetchWorkers : v \notin IdleOnes => worker[v].at \in 1..(nextIndex - 1)
          /\ failure = NoFault =>
               \A i \in 1..(nextIndex - 1) :
                 output[i] = Page(i) \/ \E v \in FetchWorkers : v \notin IdleOnes /\ worker[v].at = i
      BY <2>2 DEF ArchiveInv, RecordsPlaced, Reading, Selected
    <3>7. at \in DOMAIN output /\ output'[at] = Page(at)
          /\ \A i \in DOMAIN output : i # at => output'[i] = output[i]
      BY <3>1, <3>3, <3>5, <3>6 DEF at
    <3>8. ASSUME failure = NoFault, NEW i \in 1..(nextIndex - 1)
          PROVE  output'[i] = Page(i) \/ \E v \in FetchWorkers : v \notin IdleOnes' /\ worker'[v].at = i
      <4>1. CASE i = at
        BY <3>7, <4>1
      <4>2. CASE i # at
        <5>1. i \in DOMAIN output
          BY <3>6
        <5>2. \A v \in FetchWorkers : v \notin IdleOnes /\ worker[v].at = i =>
                v # w /\ v \notin IdleOnes' /\ worker'[v] = worker[v]
          BY <3>4, <3>5, <4>2 DEF at
        <5> QED
          BY <3>6, <3>7, <3>8, <4>2, <5>1, <5>2
      <4> QED
        BY <4>1, <4>2
    <3>9. \A v \in FetchWorkers : v \notin IdleOnes' => worker'[v].at \in 1..(nextIndex - 1)
      BY <3>4, <3>5, <3>6
    <3>10. RecordsPlaced'
      <4>1. Selected(records)' /\ DOMAIN output' = 1..Len(records)
        BY <1>3, <2>2, <3>1, <3>6
      <4>2. failure = NoFault => \A i \in 1..(nextIndex - 1) :
              output'[i] = Page(i) \/ \E v \in FetchWorkers : v \notin IdleOnes' /\ worker'[v].at = i
        BY <3>8
      <4> QED
        BY <2>2, <3>1, <3>6, <3>9, <4>1, <4>2 DEF RecordsPlaced, Page
    <3>11. CollectionInUse'
      BY <1>2, <2>2, <3>1 DEF ArchiveInv, CollectionInUse, Reading
    <3>12. BudgetBroken'
      <4>1. compressed \in Nat /\ MaxTotal \in Nat
        BY DEF ArchiveInv, ArchiveTyped, ArchiveOK
      <4> QED
        BY <2>2, <3>1, <3>5, <4>1, IdleCount DEF ArchiveInv, BudgetBroken
    <3> QED
      BY <2>2, <3>1, <3>4, <3>10, <3>11, <3>12 DEF ArchiveInv, ArchiveTyped, OneCaller
  <2> QED
    BY <2>3, <2>4
<1> QED
  BY <1>4, <1>5, <1>6, <1>7, <1>8, <1>9, <1>10, <1>11 DEF ArchiveNext

\* Whatever the archive answers, with any number of workers and budgets: a crawl without a
\* fault has the page of every selected record in its place, and what arrives stays within
\* the budget but for one chunk a worker.
THEOREM ArchiveReadsAreExact ==
  ASSUME ArchiveOK PROVE ArchiveSpec => []ArchiveExact
<1>1. ASSUME ArchiveInv PROVE ArchiveExact
  <2>1. wire <= MaxTotal + Cardinality(FetchWorkers)
    <3>1. IsFiniteSet(FetchWorkers) /\ IdleOnes \subseteq FetchWorkers
      BY DEF ArchiveOK, IdleOnes
    <3>2. /\ Cardinality(IdleOnes) \in Nat /\ Cardinality(FetchWorkers) \in Nat
          /\ Cardinality(IdleOnes) <= Cardinality(FetchWorkers)
      BY <3>1, FS_Subset, FS_CardinalityType
    <3>3. compressed \in Nat /\ wire = compressed /\ MaxTotal \in Nat
      BY <1>1 DEF ArchiveInv, ArchiveTyped, ArchiveOK
    <3> QED
      BY <1>1, <3>2, <3>3 DEF ArchiveInv, BudgetBroken
  <2>2. ASSUME phase = "done", failure = NoFault
        PROVE  /\ \A i \in DOMAIN records :
                    output[i] = [url |-> records[i].url, range |-> records[i].range] /\ OfTarget(records[i])
               /\ \A i, j \in DOMAIN output : output[i].url = output[j].url => i = j
               /\ \E i \in Usable : /\ collection = collections[i].id
                                   /\ \A j \in Usable : collections[j].availableAt <= collections[i].availableAt
    <3>1. /\ Selected(records) /\ DOMAIN output = 1..Len(records)
          /\ \A i \in DOMAIN output : output[i] = Page(i)
          /\ Usable # {} /\ collection = collections[Latest].id
      BY <1>1, <2>2 DEF ArchiveInv, RecordsPlaced, CollectionInUse, Reading
    <3>2. DOMAIN records = 1..Len(records) /\ \A i \in 1..Len(records) : OfTarget(records[i])
      BY <3>1 DEF Selected
    <3>3. \A i \in DOMAIN output : output[i].url = records[i].url
      BY <3>1 DEF Page
    <3>4. \A i, j \in DOMAIN output : output[i].url = output[j].url => i = j
      BY <3>1, <3>3 DEF Selected
    <3>5. collections \in Seq(Announced)
      BY <1>1 DEF ArchiveInv, ArchiveTyped
    <3>6. Latest \in Usable /\ \A j \in Usable : ~Newer(collections[j], collections[Latest])
      BY <3>1, <3>5, LatestExists
    <3>7. \A j \in Usable : collections[j].availableAt \in Nat
      <4>1. \A j \in Usable : collections[j] \in Announced
        BY <3>5 DEF Usable
      <4> QED
        BY <4>1 DEF ArchiveOK
    <3>8. \A j \in Usable : collections[j].availableAt <= collections[Latest].availableAt
      BY <3>6, <3>7 DEF Newer
    <3> QED
      BY <3>1, <3>2, <3>4, <3>6, <3>8 DEF Page
  <2> QED
    BY <2>1, <2>2 DEF ArchiveExact
<1> QED
  BY <1>1, ArchiveStart, ArchiveStep, PTL DEF ArchiveSpec

-----------------------------------------------------------------------------
(***************************************************************************)
(* The console                                                             *)
(***************************************************************************)
PollerFields == {"mounted", "scanning", "timer", "busy", "live"}

\* The console's poller: the interval that runs is the one the ref names.
Named(p) == p.live \subseteq {p.timer}
TimerInv ==
  /\ poller = [w \in Pollers |-> poller[w]] /\ \A w \in Pollers : DOMAIN poller[w] = PollerFields
  /\ Named(poller["Console"])

LEMMA TimerKept ==
  ASSUME TimerInv, NEW who \in Pollers, NEW p, DOMAIN p = PollerFields, who = "Console" => Named(p),
         poller' = [poller EXCEPT ![who] = p]
  PROVE  TimerInv'
<1>1. \A w \in Pollers : poller'[w] = IF w = who THEN p ELSE poller[w]
  BY DEF TimerInv
<1>2. poller' = [w \in Pollers |-> poller'[w]]
  BY DEF TimerInv
<1>3. "Console" \in Pollers
  BY DEF Pollers
<1> QED
  BY <1>1, <1>2, <1>3 DEF TimerInv, Named

LEMMA StoppedIsEmpty ==
  ASSUME NEW p, DOMAIN p = PollerFields
  PROVE  DOMAIN Stopped(p) = PollerFields /\ (Named(p) => Stopped(p).live = {})
BY DEF PollerFields, Named, Stopped

\* A new interval after the old one has been cleared.
LEMMA RestartedIsNamed ==
  ASSUME NEW p, DOMAIN p = PollerFields, NEW j
  PROVE  DOMAIN StartedAnew(p, j) = PollerFields /\ (Named(p) => Named(StartedAnew(p, j)))
<1> DEFINE q == Stopped(p)
<1>1. DOMAIN q = PollerFields /\ (Named(p) => q.live = {})
  BY StoppedIsEmpty
<1> HIDE DEF q
<1>2. DOMAIN Started([q EXCEPT !.scanning = TRUE], j) = PollerFields
      /\ (q.live = {} => Named(Started([q EXCEPT !.scanning = TRUE], j)))
  BY <1>1 DEF Started, Named, PollerFields
<1> QED
  BY <1>1, <1>2 DEF StartedAnew, q

LEMMA ScanningKeeps ==
  ASSUME TimerInv, NEW who \in Pollers, Scanning(who) PROVE TimerInv'
<1> DEFINE q == Stopped(poller[who])
<1>1. DOMAIN q = PollerFields /\ (Named(poller[who]) => q.live = {})
  BY StoppedIsEmpty DEF TimerInv
<1>2. poller' = [poller EXCEPT ![who] = [q EXCEPT !.scanning = TRUE]]
  BY DEF Scanning
<1> HIDE DEF q
<1>3. DOMAIN [q EXCEPT !.scanning = TRUE] = PollerFields
      /\ (q.live = {} => Named([q EXCEPT !.scanning = TRUE]))
  BY <1>1 DEF PollerFields, Named
<1>4. who = "Console" => Named([q EXCEPT !.scanning = TRUE])
  BY <1>1, <1>3 DEF TimerInv
<1> QED
  BY <1>2, <1>3, <1>4, TimerKept

LEMMA PollNowKeeps ==
  ASSUME TimerInv, NEW who \in Pollers, NEW p, NEW j, DOMAIN p = PollerFields,
         who = "Console" => Named(p), PollNow(who, p, j)
  PROVE  TimerInv'
<1>1. DOMAIN [p EXCEPT !.busy = TRUE] = PollerFields /\ (Named(p) => Named([p EXCEPT !.busy = TRUE]))
  BY DEF PollerFields, Named
<1> QED
  BY <1>1, TimerKept DEF PollNow

LEMMA TimerStart == DashboardInit => TimerInv
BY DEF DashboardInit, TimerInv, Named, FreshPoller, Pollers, PollerFields

LEMMA TimerStep ==
  ASSUME TimerInv, [DashboardNext]_dashboardVars PROVE TimerInv'
<1>0. {"UrlBar", "Console"} = Pollers
  BY DEF Pollers
<1>1. ASSUME NEW who \in Pollers, NEW j, PollTick(who, j) PROVE TimerInv'
  BY <1>1, PollNowKeeps DEF PollTick, TimerInv
<1>2. ASSUME NEW who \in Pollers, NEW j, PollRunning(who, j) PROVE TimerInv'
  <2> DEFINE p == poller[who]
  <2>1. DOMAIN [p EXCEPT !.busy = FALSE] = PollerFields /\ (Named(p) => Named([p EXCEPT !.busy = FALSE]))
    BY DEF TimerInv, PollerFields, Named
  <2>2. poller' = [poller EXCEPT ![who] = [p EXCEPT !.busy = FALSE]]
    BY <1>2 DEF PollRunning
  <2>3. who = "Console" => Named(p)
    BY DEF TimerInv
  <2> HIDE DEF p
  <2> QED
    BY <2>1, <2>2, <2>3, TimerKept
<1>3. ASSUME NEW who \in Pollers, NEW j, PollEnded(who, j) PROVE TimerInv'
  <2> DEFINE q == Stopped(poller[who])
  <2>1. DOMAIN q = PollerFields /\ (Named(poller[who]) => q.live = {})
    BY StoppedIsEmpty DEF TimerInv
  <2>2. poller' = [poller EXCEPT ![who] = [q EXCEPT !.scanning = FALSE]]
    BY <1>3 DEF PollEnded
  <2> HIDE DEF q
  <2>3. DOMAIN [q EXCEPT !.scanning = FALSE] = PollerFields
        /\ (q.live = {} => Named([q EXCEPT !.scanning = FALSE]))
    BY <2>1 DEF PollerFields, Named
  <2>4. who = "Console" => Named([q EXCEPT !.scanning = FALSE])
    BY <2>1, <2>3 DEF TimerInv
  <2> QED
    BY <2>2, <2>3, <2>4, TimerKept
<1>4. ASSUME NEW f \in Flows, NEW s, Navigate(f, s) \/ ScanNow(f, s) PROVE TimerInv'
  BY <1>0, <1>4, ScanningKeeps DEF Navigate, ScanNow
<1>5. ASSUME NEW f \in Flows, JobStarted(f) PROVE TimerInv'
  <2> DEFINE who == Who(flow[f].kind)
             j == Len(jobSite) + 1
  <2>1. who \in Pollers
    BY DEF Who, Pollers
  <2>2. PollNow(who, Polling(who, j), j)
    BY <1>5 DEF JobStarted
  <2> HIDE DEF who, j
  <2>3. DOMAIN poller[who] = PollerFields
    BY <2>1 DEF TimerInv
  <2>4. CASE who = "Console"
    <3>1. Polling(who, j) = StartedAnew(poller[who], j)
      BY <2>4 DEF Polling
    <3>2. DOMAIN StartedAnew(poller[who], j) = PollerFields /\ Named(StartedAnew(poller[who], j))
      BY <2>3, <2>4, RestartedIsNamed DEF TimerInv
    <3> QED
      BY <2>1, <2>2, <3>1, <3>2, PollNowKeeps
  <2>5. CASE who # "Console"
    <3>1. Polling(who, j) = Started(poller[who], j)
      BY <2>5 DEF Polling
    <3>2. DOMAIN Started(poller[who], j) = PollerFields
      BY <2>3 DEF Started, PollerFields
    <3> QED
      BY <2>1, <2>2, <2>5, <3>1, <3>2, PollNowKeeps
  <2> QED
    BY <2>4, <2>5
<1>6. ASSUME NEW f \in Flows, Refused(f) PROVE TimerInv'
  <2> DEFINE who == Who(flow[f].kind)
             p == poller[who]
  <2>1. who \in Pollers
    BY DEF Who, Pollers
  <2>2. CASE UNCHANGED poller
    BY <2>2 DEF TimerInv
  <2>3. CASE poller' = [poller EXCEPT ![who].scanning = FALSE]
    <3>1. poller' = [poller EXCEPT ![who] = [p EXCEPT !.scanning = FALSE]]
      BY <2>3
    <3>2. DOMAIN [p EXCEPT !.scanning = FALSE] = PollerFields
          /\ (Named(p) => Named([p EXCEPT !.scanning = FALSE]))
      BY <2>1 DEF TimerInv, PollerFields, Named
    <3>3. who = "Console" => Named(p)
      BY DEF TimerInv
    <3> HIDE DEF who, p
    <3> QED
      BY <2>1, <3>1, <3>2, <3>3, TimerKept
  <2> QED
    BY <1>6, <2>2, <2>3 DEF Refused
<1>7. CASE OpenConsole
  <2> DEFINE p == poller["UrlBar"]
             q == Unmounted(p)
  <2>1. DOMAIN q = PollerFields
    BY <1>0, StoppedIsEmpty DEF TimerInv, Unmounted, PollerFields
  <2>2. poller' = [UrlBar |-> q, Console |-> FreshPoller]
    BY <1>7 DEF OpenConsole
  <2> HIDE DEF q
  <2>3. poller' = [w \in Pollers |-> poller'[w]]
    BY <2>2 DEF Pollers
  <2>4. \A w \in Pollers : poller'[w] = q \/ poller'[w] = FreshPoller
    BY <2>2 DEF Pollers
  <2>5. poller'["Console"] = FreshPoller
    BY <2>2
  <2>6. DOMAIN FreshPoller = PollerFields /\ FreshPoller.live = {}
    BY DEF FreshPoller, PollerFields
  <2> QED
    BY <2>1, <2>3, <2>4, <2>5, <2>6 DEF TimerInv, Named
<1>8. CASE LogOut
  <2> DEFINE q == Stopped(poller["Console"])
  <2>1. DOMAIN q = PollerFields /\ q.live = {}
    BY <1>0, StoppedIsEmpty DEF TimerInv
  <2>2. poller' = [poller EXCEPT !["Console"] = [q EXCEPT !.mounted = FALSE]]
    BY <1>8 DEF LogOut, Unmounted
  <2> HIDE DEF q
  <2>3. DOMAIN [q EXCEPT !.mounted = FALSE] = PollerFields /\ Named([q EXCEPT !.mounted = FALSE])
    BY <2>1 DEF PollerFields, Named
  <2> QED
    BY <1>0, <2>2, <2>3, TimerKept
<1>9. ASSUME UNCHANGED poller PROVE TimerInv'
  BY <1>9 DEF TimerInv
<1> QED
  BY <1>1, <1>2, <1>3, <1>4, <1>5, <1>6, <1>7, <1>8, <1>9
     DEF DashboardNext, SiteAdded, Add, ListAnswered, DataLoaded, SelectWebsite, DropWebsite,
         Restored, ConsoleSignIn, consolePage, dashboardVars

\* What is selected is listed: whoever selects lists, and what leaves the list is not
\* selected any more.
LEMMA SelectionStep ==
  ASSUME SelectionListed, [DashboardNext]_dashboardVars PROVE SelectionListed'
<1> USE DEF SelectionListed, Select
<1>1. ASSUME NEW s, Listed(s) PROVE SelectionListed'
  BY <1>1 DEF Listed
<1>2. ASSUME NEW f \in Flows, SiteAdded(f) \/ JobStarted(f) \/ Refused(f) PROVE SelectionListed'
  <2>1. Listed(flow[f].site) \/ UNCHANGED <<list, active>>
    BY <1>2 DEF SiteAdded, JobStarted, Refused
  <2> QED
    BY <1>1, <2>1
<1>3. ASSUME NEW f \in Flows, NEW s, ScanNow(f, s) PROVE SelectionListed'
  BY <1>3 DEF ScanNow
<1>4. CASE ListAnswered
  BY <1>4 DEF ListAnswered
<1>5. ASSUME NEW s, SelectWebsite(s) PROVE SelectionListed'
  BY <1>5 DEF SelectWebsite
<1>6. ASSUME NEW s, DropWebsite(s) PROVE SelectionListed'
  <2>1. list' = Remaining(s) /\ (active' = Nothing \/ active' \in Remaining(s))
    BY <1>6 DEF DropWebsite, Reselected
  <2> QED
    BY <2>1
<1>7. ASSUME UNCHANGED <<list, active>> PROVE SelectionListed'
  BY <1>7
<1> QED
  BY <1>2, <1>3, <1>4, <1>5, <1>6, <1>7
     DEF DashboardNext, Navigate, Add, PollTick, PollRunning, PollEnded, DataLoaded, consoleData,
         Restored, ConsoleSignIn, OpenConsole, LogOut, consolePage, dashboardVars

\* Whatever scans, dialogs, answers and deletions overlap, the console runs at most the
\* one poll its ref names, and the website selected is one of those listed.
THEOREM ConsoleKeepsUp == DashboardSpec => []ConsoleHolds
<1>1. DashboardSpec => []TimerInv
  BY TimerStart, TimerStep, PTL DEF DashboardSpec
<1>2. DashboardInit => SelectionListed
  BY DEF DashboardInit, SelectionListed
<1>3. DashboardSpec => []SelectionListed
  BY <1>2, SelectionStep, PTL DEF DashboardSpec
<1>4. TimerInv => NoLostTimer
  BY DEF TimerInv, Named, NoLostTimer
<1>5. NoLostTimer /\ SelectionListed => ConsoleHolds
  BY DEF ConsoleHolds
<1> QED
  BY <1>1, <1>3, <1>4, <1>5, PTL
=============================================================================
