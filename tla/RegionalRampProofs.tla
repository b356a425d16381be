------------------------- MODULE RegionalRampProofs -------------------------
(***************************************************************************)
(* Proofs about a lane of the regional ramp, for any numbers of tasks,     *)
(* slots, attempts and faults, and every kind of fault: first what the     *)
(* fields hold and what R2 proves of them, then that no task is lost but   *)
(* in one way.                                                             *)
(***************************************************************************)
EXTENDS RegionalRamp, ListTheorems, FiniteSetTheorems, SequenceTheorems

USE RampAssumption

-----------------------------------------------------------------------------
(***************************************************************************)
(* Fields and markers                                                      *)
(***************************************************************************)
Apart(entries) ==
  \A i, j \in DOMAIN entries : entries[i].slot = entries[j].slot => i = j

\* What a record is that an alarm can be shown.
Spread(r) ==
  /\ Apart(r.inFlight)
  /\ Retrying(r) => r.retry.slot \notin SlotsOf(r.inFlight)
Ended(r) ==
  /\ r.state \in {"none", "launching"} => r.terminal = 0
  /\ r.state \in {"completed", "recoverable"} =>
       /\ r.next > TaskCount /\ r.inFlight = <<>> /\ r.retry = NoRetry /\ r.terminal = 0
       /\ r.state = "completed" => r.quarantined = {}
Good(r) == Spread(r) /\ Ended(r) /\ r.completed \subseteq Marked

\* What an alarm has found and means to do.
AlarmGood ==
  /\ alarm.pc # "idle" => Good(alarm.seen) /\ alarm.seen.state = "launching"
  /\ alarm.pc \in {"starting", "launched"} =>
       /\ alarm.task \in Tasks /\ alarm.slot \in Slots
       /\ Apart(alarm.remaining) /\ alarm.slot \notin SlotsOf(alarm.remaining)
       /\ alarm.completed \subseteq Marked

\* A runner that shows a success has left the marker of its task, and one that writes
\* is alone under a prefix that has none.
RunnersGood ==
  \A s \in Slots :
    /\ slot[s].runner # "idle" => slot[s].task \in Tasks
    /\ slot[s].runner = "succeeded" => prefix[slot[s].task] = "completed"
    /\ slot[s].runner = "writing" =>
         /\ prefix[slot[s].task] = "payload"
         /\ \A o \in Slots : slot[o].runner = "writing" /\ slot[o].task = slot[s].task => o = s
    /\ slot[s].launch.task # 0 => slot[s].launch.attempts > 0

Typed ==
  /\ record \in Records
  /\ alarm \in Alarms
  /\ slot \in [Slots -> Containers]
  /\ prefix \in [Tasks -> {"none", "payload", "completed"}]
  /\ credential \in BOOLEAN
  /\ repair \in Repairs
  /\ faults \in 0..MaxFaults
  /\ forgotten \subseteq Tasks

\* What a repair has read: a lane with every task passed and none to be retried.
RepairGood ==
  repair.pc = "reading" =>
    /\ Good(repair.seen) /\ repair.seen.state = "launching"
    /\ repair.seen.next > TaskCount /\ repair.seen.retry = NoRetry

RampInv == Typed /\ Good(record) /\ AlarmGood /\ RunnersGood /\ RepairGood

-----------------------------------------------------------------------------
(***************************************************************************)
(* Lists of entries                                                        *)
(***************************************************************************)
\* An entry that is put in a slot of its own.
LEMMA AppendedEntry ==
  ASSUME NEW s \in Seq(Entries), NEW e \in Entries
  PROVE  /\ Append(s, e) \in Seq(Entries)
         /\ TasksOf(Append(s, e)) = TasksOf(s) \cup {e.task}
         /\ SlotsOf(Append(s, e)) = SlotsOf(s) \cup {e.slot}
         /\ Apart(s) /\ e.slot \notin SlotsOf(s) => Apart(Append(s, e))
<1> DEFINE new == Append(s, e)
<1>1. /\ new \in Seq(Entries) /\ DOMAIN new = DOMAIN s \cup {Len(s) + 1}
      /\ \A i \in DOMAIN s : new[i] = s[i] /\ i # Len(s) + 1
      /\ new[Len(s) + 1] = e
  OBVIOUS
<1> HIDE DEF new
<1>2. TasksOf(new) = TasksOf(s) \cup {e.task} /\ SlotsOf(new) = SlotsOf(s) \cup {e.slot}
  BY <1>1 DEF TasksOf, SlotsOf
<1>3. Apart(s) /\ e.slot \notin SlotsOf(s) => Apart(new)
  BY <1>1 DEF Apart, SlotsOf
<1> QED
  BY <1>1, <1>2, <1>3 DEF new

\* Two lists of entries, one after the other.
LEMMA JoinedEntries ==
  ASSUME NEW s \in Seq(Entries), NEW u \in Seq(Entries)
  PROVE  /\ s \o u \in Seq(Entries)
         /\ TasksOf(s \o u) = TasksOf(s) \cup TasksOf(u)
         /\ SlotsOf(s \o u) = SlotsOf(s) \cup SlotsOf(u)
         /\ Apart(s) /\ Apart(u) /\ SlotsOf(s) \cap SlotsOf(u) = {} => Apart(s \o u)
<1> DEFINE new == s \o u
<1>1. new \in Seq(Entries) /\ Len(new) = Len(s) + Len(u) /\ Len(s) \in Nat /\ Len(u) \in Nat
  OBVIOUS
<1>2. \A i \in DOMAIN s : i \in DOMAIN new /\ new[i] = s[i]
  OBVIOUS
<1>3. \A i \in DOMAIN u : i + Len(s) \in DOMAIN new /\ new[i + Len(s)] = u[i]
  OBVIOUS
<1>4. \A i \in DOMAIN new : i \in DOMAIN s \/ (i - Len(s) \in DOMAIN u /\ new[i] = u[i - Len(s)])
  OBVIOUS
<1> HIDE DEF new
<1>5. TasksOf(new) = TasksOf(s) \cup TasksOf(u) /\ SlotsOf(new) = SlotsOf(s) \cup SlotsOf(u)
  BY <1>2, <1>3, <1>4 DEF TasksOf, SlotsOf
<1>6. ASSUME Apart(s), Apart(u), SlotsOf(s) \cap SlotsOf(u) = {} PROVE Apart(new)
  <2> SUFFICES ASSUME NEW i \in DOMAIN new, NEW j \in DOMAIN new, new[i].slot = new[j].slot
               PROVE  i = j
    BY DEF Apart
  <2>1. CASE i \in DOMAIN s /\ j \in DOMAIN s
    BY <1>2, <1>6, <2>1 DEF Apart
  <2>2. CASE i \notin DOMAIN s /\ j \notin DOMAIN s
    <3>1. i - Len(s) = j - Len(s)
      BY <1>4, <1>6, <2>2 DEF Apart
    <3>2. i \in Int /\ j \in Int /\ Len(s) \in Int
      BY <1>1
    <3> QED
      BY <3>1, <3>2
  <2>3. CASE i \in DOMAIN s /\ j \notin DOMAIN s
    BY <1>2, <1>4, <1>6, <2>3, SMTT(30) DEF SlotsOf
  <2>4. CASE i \notin DOMAIN s /\ j \in DOMAIN s
    <3>1. new[j].slot \in SlotsOf(s)
      BY <1>2, <2>4 DEF SlotsOf
    <3>2. new[i].slot \in SlotsOf(u)
      BY <1>4, <2>4 DEF SlotsOf
    <3> QED
      BY <1>6, <3>1, <3>2
  <2> QED
    BY <2>1, <2>2, <2>3, <2>4
<1> QED
  BY <1>1, <1>5, <1>6 DEF new

\* A stretch of a list.
LEMMA PartOfEntries ==
  ASSUME NEW s \in Seq(Entries), NEW m \in 1..(Len(s) + 1), NEW n \in 0..Len(s)
  PROVE  LET part == SubSeq(s, m, n)
         IN /\ part \in Seq(Entries)
            /\ TasksOf(part) = {s[k].task : k \in m..n}
            /\ SlotsOf(part) = {s[k].slot : k \in m..n}
            /\ Apart(s) => Apart(part)
            /\ Len(part) = IF m <= n THEN (n - m) + 1 ELSE 0
            /\ \A i \in 1..Len(part) : part[i] = s[(m + i) - 1]
<1> DEFINE part == SubSeq(s, m, n)
<1>1. /\ part \in Seq(Entries) /\ Len(part) = IF m <= n THEN (n - m) + 1 ELSE 0
      /\ DOMAIN part = 1..Len(part)
      /\ \A i \in 1..Len(part) : part[i] = s[(m + i) - 1]
  OBVIOUS
<1> HIDE DEF part
<1>2. \A i \in 1..Len(part) : (m + i) - 1 \in m..n /\ (m + i) - 1 \in DOMAIN s
  BY <1>1
<1>3. \A k \in m..n : (k - m) + 1 \in 1..Len(part) /\ part[(k - m) + 1] = s[k]
  <2> SUFFICES ASSUME NEW k \in m..n
               PROVE  (k - m) + 1 \in 1..Len(part) /\ part[(k - m) + 1] = s[k]
    OBVIOUS
  <2>1. (k - m) + 1 \in 1..Len(part) /\ (m + ((k - m) + 1)) - 1 = k
    BY <1>1
  <2> QED
    BY <1>1, <2>1
<1>4. TasksOf(part) = {s[k].task : k \in m..n} /\ SlotsOf(part) = {s[k].slot : k \in m..n}
  BY <1>1, <1>2, <1>3, ZenonT(30) DEF TasksOf, SlotsOf
<1>5. ASSUME Apart(s) PROVE Apart(part)
  <2> SUFFICES ASSUME NEW i \in 1..Len(part), NEW j \in 1..Len(part),
                      part[i].slot = part[j].slot
               PROVE  i = j
    BY <1>1 DEF Apart
  <2>1. (m + i) - 1 = (m + j) - 1
    <3>1. /\ (m + i) - 1 \in DOMAIN s /\ s[(m + i) - 1].slot = part[i].slot
          /\ (m + j) - 1 \in DOMAIN s /\ s[(m + j) - 1].slot = part[j].slot
      BY <1>1, <1>2
    <3> QED
      BY <1>5, <3>1, Zenon DEF Apart
  <2> QED
    BY <2>1
<1> QED
  BY <1>1, <1>4, <1>5 DEF part

-----------------------------------------------------------------------------
(***************************************************************************)
(* The entries a poll keeps                                                *)
(***************************************************************************)
\* StillWorking's recursion, as far as position n.
KeepingEntries(f, s, n) ==
  f = [k \in 0..n |->
        IF k = 0 THEN <<>>
        ELSE IF IsWorking(s[k]) THEN Append(f[k - 1], s[k]) ELSE f[k - 1]]

LEMMA KeepingExists ==
  ASSUME NEW s, NEW n \in Nat
  PROVE  \E f : KeepingEntries(f, s, n)
<1> DEFINE S == {m \in Nat : \E f : KeepingEntries(f, s, m)}
<1>1. 0 \in S
  <2>1. KeepingEntries([k \in 0..0 |-> <<>>], s, 0)
    BY DEF KeepingEntries
  <2> QED
    BY <2>1
<1>2. ASSUME NEW m \in 0..(n - 1), m \in S PROVE m + 1 \in S
  <2>1. PICK f : KeepingEntries(f, s, m)
    BY <1>2
  <2> DEFINE last == IF IsWorking(s[m + 1]) THEN Append(f[m], s[m + 1]) ELSE f[m]
             g == [k \in 0..(m + 1) |-> IF k = m + 1 THEN last ELSE f[k]]
  <2>2. ASSUME NEW k \in 0..(m + 1)
        PROVE  g[k] = IF k = 0 THEN <<>>
                      ELSE IF IsWorking(s[k]) THEN Append(g[k - 1], s[k]) ELSE g[k - 1]
    <3>1. CASE k = m + 1
      BY <3>1
    <3>2. CASE k \in 0..m
      <4> HIDE DEF last
      <4>1. k # 0 => k - 1 \in 0..m
        BY <3>2
      <4>2. g[k] = f[k] /\ (k # 0 => g[k - 1] = f[k - 1])
        BY <3>2, <4>1
      <4>3. f[k] = IF k = 0 THEN <<>>
                   ELSE IF IsWorking(s[k]) THEN Append(f[k - 1], s[k]) ELSE f[k - 1]
        BY <2>1, <3>2 DEF KeepingEntries
      <4> HIDE DEF g
      <4> QED
        BY <4>2, <4>3
    <3> QED
      BY <3>1, <3>2
  <2>3. g = [k \in 0..(m + 1) |-> g[k]]
    OBVIOUS
  <2> HIDE DEF g
  <2>4. KeepingEntries(g, s, m + 1)
    BY <2>2, <2>3 DEF KeepingEntries
  <2> QED
    BY <2>4
<1> HIDE DEF S
<1>3. \A m \in 0..n : m \in S
  BY <1>1, <1>2, Induction
<1> QED
  BY <1>3 DEF S

\* A poll keeps the entries of the tasks that work.
LEMMA StillWorkingKeeps ==
  ASSUME NEW s \in Seq(Entries)
  PROVE  LET P == {k \in DOMAIN s : IsWorking(s[k])}
         IN /\ StillWorking(s) \in Seq(Entries)
            /\ TasksOf(StillWorking(s)) = {s[k].task : k \in P}
            /\ SlotsOf(StillWorking(s)) = {s[k].slot : k \in P}
            /\ Apart(s) => Apart(StillWorking(s))
<1> DEFINE f == CHOOSE f : KeepingEntries(f, s, Len(s))
           P(n) == {k \in 1..n : IsWorking(s[k])}
           Kept(n) == /\ f[n] \in Seq(Entries)
                      /\ TasksOf(f[n]) = {s[k].task : k \in P(n)}
                      /\ SlotsOf(f[n]) = {s[k].slot : k \in P(n)}
                      /\ Apart(s) => Apart(f[n])
           S == {n \in 0..Len(s) : Kept(n)}
<1>1. KeepingEntries(f, s, Len(s)) /\ StillWorking(s) = f[Len(s)]
  <2>1. Len(s) \in Nat
    OBVIOUS
  <2>2. KeepingEntries(f, s, Len(s))
    BY <2>1, KeepingExists
  <2>3. StillWorking(s) = f[Len(s)]
    BY DEF KeepingEntries, StillWorking
  <2> QED
    BY <2>2, <2>3
<1> HIDE DEF f
<1>2. 0 \in S
  <2>1. f[0] = <<>>
    BY <1>1 DEF KeepingEntries
  <2>2. <<>> \in Seq(Entries) /\ TasksOf(<<>>) = {} /\ SlotsOf(<<>>) = {} /\ Apart(<<>>)
    BY DEF TasksOf, SlotsOf, Apart
  <2>3. P(0) = {} /\ 0 \in 0..Len(s)
    OBVIOUS
  <2> QED
    BY <2>1, <2>2, <2>3
<1>3. ASSUME NEW n \in 0..(Len(s) - 1), n \in S PROVE n + 1 \in S
  <2> DEFINE e == s[n + 1]
  <2>1. f[n + 1] = IF IsWorking(e) THEN Append(f[n], e) ELSE f[n]
    <3>1. n + 1 \in 0..Len(s) /\ n + 1 # 0 /\ (n + 1) - 1 = n
      BY <1>3
    <3> QED
      BY <1>1, <3>1 DEF KeepingEntries
  <2>2. e \in Entries /\ Kept(n) /\ n + 1 \in 0..Len(s) /\ n + 1 \in DOMAIN s
    BY <1>3
  <2>3. CASE ~IsWorking(e)
    <3>1. P(n + 1) = P(n) /\ f[n + 1] = f[n]
      BY <2>1, <2>3
    <3> HIDE DEF P
    <3> QED
      BY <2>2, <3>1
  <2>4. CASE IsWorking(e)
    <3>1. P(n + 1) = P(n) \cup {n + 1} /\ f[n + 1] = Append(f[n], e)
      BY <2>1, <2>4
    <3>2. ASSUME Apart(s) PROVE e.slot \notin SlotsOf(f[n])
      <4>1. \A k \in P(n) : k \in DOMAIN s /\ k # n + 1
        BY <1>3
      <4> QED
        BY <2>2, <3>2, <4>1 DEF Apart
    <3> HIDE DEF P
    <3>3. Kept(n + 1)
      BY <2>2, <3>1, <3>2, AppendedEntry
    <3> QED
      BY <2>2, <3>3
  <2> QED
    BY <2>3, <2>4
<1> HIDE DEF S
<1>4. Len(s) \in S
  <2>1. Len(s) \in Nat /\ Len(s) \in 0..Len(s)
    OBVIOUS
  <2>2. \A n \in 0..Len(s) : n \in S
    BY <1>2, <1>3, <2>1, Induction
  <2> QED
    BY <2>1, <2>2
<1>5. P(Len(s)) = {k \in DOMAIN s : IsWorking(s[k])}
  OBVIOUS
<1> QED
  BY <1>1, <1>4, <1>5 DEF S

\* The tasks a pass leaves in flight that ends at position i, and goes on from position j.
PassTasks(s, i, j) ==
  {s[k].task : k \in {m \in 1..(i - 1) : IsWorking(s[m])}} \cup {s[k].task : k \in j..Len(s)}

LEMMA PassKeeps ==
  ASSUME NEW s \in Seq(Entries), NEW i \in DOMAIN s, NEW j \in {i, i + 1}
  PROVE  LET part == StillWorking(SubSeq(s, 1, i - 1)) \o SubSeq(s, j, Len(s))
         IN /\ part \in Seq(Entries)
            /\ TasksOf(part) = PassTasks(s, i, j)
            /\ SlotsOf(part) \subseteq SlotsOf(s)
            /\ Apart(s) => Apart(part)
            /\ Apart(s) /\ j = i + 1 => s[i].slot \notin SlotsOf(part)
<1> DEFINE before == SubSeq(s, 1, i - 1)
           first == StillWorking(before)
           rest == SubSeq(s, j, Len(s))
           W == {m \in 1..(i - 1) : IsWorking(s[m])}
<1>1. /\ i \in 1..Len(s) /\ Len(s) \in Nat /\ j \in 1..(Len(s) + 1)
      /\ 1 \in 1..(Len(s) + 1) /\ i - 1 \in 0..Len(s) /\ Len(s) \in 0..Len(s)
  OBVIOUS
<1>2. /\ before \in Seq(Entries) /\ DOMAIN before = 1..(i - 1)
      /\ \A k \in 1..(i - 1) : before[k] = s[k]
      /\ Apart(s) => Apart(before)
  <2>1. /\ before \in Seq(Entries) /\ Len(before) = IF 1 <= i - 1 THEN ((i - 1) - 1) + 1 ELSE 0
        /\ \A k \in 1..Len(before) : before[k] = s[(1 + k) - 1]
        /\ Apart(s) => Apart(before)
    BY <1>1, PartOfEntries
  <2> HIDE DEF before
  <2>2. Len(before) = i - 1 /\ DOMAIN before = 1..Len(before) /\ \A k \in 1..(i - 1) : (1 + k) - 1 = k
    BY <1>1, <2>1
  <2> QED
    BY <2>1, <2>2
<1>3. /\ rest \in Seq(Entries)
      /\ TasksOf(rest) = {s[k].task : k \in j..Len(s)}
      /\ SlotsOf(rest) = {s[k].slot : k \in j..Len(s)}
      /\ Apart(s) => Apart(rest)
  BY <1>1, PartOfEntries
<1>4. /\ first \in Seq(Entries)
      /\ TasksOf(first) = {s[k].task : k \in W} /\ SlotsOf(first) = {s[k].slot : k \in W}
      /\ Apart(s) => Apart(first)
  <2> DEFINE P == {k \in DOMAIN before : IsWorking(before[k])}
  <2>1. /\ first \in Seq(Entries)
        /\ TasksOf(first) = {before[k].task : k \in P} /\ SlotsOf(first) = {before[k].slot : k \in P}
        /\ Apart(before) => Apart(first)
    BY <1>2, StillWorkingKeeps
  <2> HIDE DEF before, first
  <2>2. P = W /\ \A k \in P : before[k] = s[k]
    BY <1>2
  <2> HIDE DEF P, W
  <2> QED
    BY <1>2, <2>1, <2>2
<1>5. \A k \in j..Len(s) : k \in DOMAIN s /\ k \notin W /\ (j = i + 1 => k # i)
  BY <1>1
<1>6. \A k \in W : k \in DOMAIN s /\ k # i
  BY <1>1
<1> HIDE DEF first, rest, W
<1>7. SlotsOf(first) \cup SlotsOf(rest) \subseteq SlotsOf(s)
  BY <1>3, <1>4, <1>5, <1>6 DEF SlotsOf
<1>8. Apart(s) => SlotsOf(first) \cap SlotsOf(rest) = {}
  BY <1>3, <1>4, <1>5, <1>6 DEF Apart
<1>9. Apart(s) /\ j = i + 1 => s[i].slot \notin SlotsOf(first) \cup SlotsOf(rest)
  BY <1>3, <1>4, <1>5, <1>6 DEF Apart
<1>10. /\ first \o rest \in Seq(Entries)
       /\ TasksOf(first \o rest) = TasksOf(first) \cup TasksOf(rest)
       /\ SlotsOf(first \o rest) = SlotsOf(first) \cup SlotsOf(rest)
       /\ Apart(first) /\ Apart(rest) /\ SlotsOf(first) \cap SlotsOf(rest) = {}
            => Apart(first \o rest)
  BY <1>3, <1>4, JoinedEntries
<1> QED
  BY <1>3, <1>4, <1>7, <1>8, <1>9, <1>10 DEF first, rest, before, W, PassTasks

-----------------------------------------------------------------------------
(***************************************************************************)
(* Slots                                                                   *)
(***************************************************************************)
LEMMA SlotsAreSlots ==
  ASSUME NEW s \in Seq(Entries)
  PROVE  \A i \in 1..Len(s) : s[i].slot \in Slots
<1>1. \A i \in 1..Len(s) : s[i] \in Entries
  OBVIOUS
<1> QED
  BY <1>1 DEF Entries

\* Entries with slots of their own are no more than the slots.
LEMMA ApartFits ==
  ASSUME NEW s \in Seq(Entries), Apart(s)
  PROVE  Len(s) <= MaxConcurrent
<1> DEFINE f == [i \in 1..Len(s) |-> s[i].slot]
<1>1. f \in Injection(1..Len(s), 1..MaxConcurrent)
  <2>1. \A i \in 1..Len(s) : s[i].slot \in 1..MaxConcurrent
    BY SlotsAreSlots DEF Slots
  <2>2. \A i, j \in 1..Len(s) : s[i].slot = s[j].slot => i = j
    BY DEF Apart
  <2>3. f \in [1..Len(s) -> 1..MaxConcurrent] /\ \A i, j \in 1..Len(s) : f[i] = f[j] => i = j
    BY <2>1, <2>2
  <2> HIDE DEF f
  <2> QED
    BY <2>3 DEF Injection, IsInjective
<1>2. IsFiniteSet(1..MaxConcurrent) /\ Cardinality(1..MaxConcurrent) = MaxConcurrent
  BY FS_Interval
<1>3. Cardinality(1..Len(s)) <= MaxConcurrent
  BY <1>1, <1>2, FS_Injection
<1>4. Len(s) \in Nat /\ 0 \in Int /\ 1 \in Int
  OBVIOUS
<1>5. Cardinality(1..Len(s)) = IF 1 > Len(s) THEN 0 ELSE Len(s) - 1 + 1
  BY <1>4, FS_Interval
<1> QED
  BY <1>3, <1>4, <1>5

\* While fewer are in flight than there are slots, one is free.
LEMMA SlotIsFree ==
  ASSUME NEW s \in Seq(Entries), Len(s) < MaxConcurrent
  PROVE  FirstFree(s) \in Slots \ SlotsOf(s)
<1> DEFINE free == Slots \ SlotsOf(s)
<1>1. free # {}
  <2> SUFFICES ASSUME Slots \subseteq SlotsOf(s) PROVE FALSE
    OBVIOUS
  <2> DEFINE f == [i \in 1..Len(s) |-> s[i].slot]
  <2>1. f \in Surjection(1..Len(s), Slots)
    <3>1. \A i \in 1..Len(s) : s[i].slot \in Slots
      BY SlotsAreSlots
    <3>2. \A x \in Slots : \E i \in 1..Len(s) : f[i] = x
      BY DEF SlotsOf
    <3> QED
      BY <3>1, <3>2 DEF Surjection
  <2>2. IsFiniteSet(1..Len(s)) /\ Cardinality(1..Len(s)) = IF 1 > Len(s) THEN 0 ELSE Len(s) - 1 + 1
    <3>1. Len(s) \in Int /\ 1 \in Int
      OBVIOUS
    <3> QED
      BY <3>1, FS_Interval
  <2>3. Cardinality(Slots) <= Cardinality(1..Len(s))
    BY <2>1, <2>2, FS_Surjection
  <2>4. Cardinality(Slots) = MaxConcurrent
    BY FS_Interval DEF Slots
  <2> QED
    BY <2>2, <2>3, <2>4
<1>2. free \in SUBSET Nat
  BY DEF Slots
<1> HIDE DEF free
<1>3. \E x \in free : \A y \in free : x <= y
  BY <1>1, <1>2, LeastNumber
<1> QED
  BY <1>3 DEF FirstFree, free

-----------------------------------------------------------------------------
(***************************************************************************)
(* The records an alarm writes                                             *)
(***************************************************************************)
\* What a poll makes of a record before anything is started: the entries that it keeps,
\* and the tasks it counts.
Polled(r, completed, remaining) ==
  /\ r \in Records /\ r.state = "launching" /\ Good(r)
  /\ completed \in SUBSET Tasks /\ completed \subseteq Marked
  /\ remaining \in Seq(Entries) /\ Apart(remaining)

LEMMA RecordFields ==
  ASSUME NEW r \in Records
  PROVE  /\ r.next \in 1..(TaskCount + 1) /\ r.inFlight \in Seq(Entries) /\ r.retry \in Retries
         /\ r.completed \in SUBSET Tasks /\ r.quarantined \in SUBSET Tasks
         /\ r.terminal \in Tasks \cup {0}
BY DEF Records

\* A success that is seen has left its marker.
LEMMA SeenIsMarked ==
  ASSUME Typed, RunnersGood, NEW e \in Entries, Sees(e) = "succeeded"
  PROVE  e.task \in Marked
<1>1. e.slot \in Slots /\ e.task \in Tasks
  BY DEF Entries
<1>2. TerminalFailure(e.slot, e.task) \in Classes
  BY <1>1 DEF Typed, Containers, TerminalFailure, Classes
<1>3. RunnerShows(e.slot, e.task, {"succeeded"})
  BY <1>2 DEF Sees, Verdict, Classes
<1> QED
  BY <1>1, <1>3 DEF RunnerShows, RunnersGood, Marked

LEMMA CountedAreMarked ==
  ASSUME Typed, RunnersGood, AlarmGood, alarm.pc # "idle",
         NEW s \in Seq(Entries)
  PROVE  Counted(s) \in SUBSET Tasks /\ Counted(s) \subseteq Marked
<1>1. alarm.seen \in Records /\ alarm.seen.completed \subseteq Marked
  BY DEF Typed, Alarms, AlarmGood, Good
<1>2. ASSUME NEW j \in DOMAIN s, Sees(s[j]) = "succeeded" PROVE s[j].task \in Marked
  BY <1>2, SeenIsMarked
<1> QED
  BY <1>1, <1>2 DEF Counted, Marked

LEMMA QuarantineGood ==
  ASSUME NEW r, NEW completed, NEW remaining, Polled(r, completed, remaining), NEW t \in Tasks
  PROVE  LET new == Quarantine(r, completed, remaining, t)
         IN new \in Records /\ Good(new)
<1> DEFINE new == Quarantine(r, completed, remaining, t)
<1>1. new \in Records /\ new.completed = completed /\ new.inFlight = remaining /\ new.retry = NoRetry
      /\ new.terminal = r.terminal /\ new.next = r.next /\ new.state = EndOrGoOn(r, remaining)
  BY DEF Polled, Records, Retries, Quarantine, EndOrGoOn
<1>2. r.terminal = 0
  BY DEF Polled, Good, Ended
<1> HIDE DEF new
<1>3. Spread(new)
  BY <1>1 DEF Polled, Spread, Retrying, NoRetry
<1>4. Ended(new)
  BY <1>1, <1>2 DEF Ended, EndOrGoOn
<1> QED
  BY <1>1, <1>3, <1>4 DEF Good, Polled, new

LEMMA RequeueGood ==
  ASSUME NEW r, NEW completed, NEW remaining, Polled(r, completed, remaining),
         NEW entry \in Entries, entry.slot \notin SlotsOf(remaining),
         NEW limit \in 1..MaxAttempts
  PROVE  LET new == Requeue(r, completed, remaining, entry, limit)
         IN new \in Records /\ Good(new)
<1> DEFINE new == Requeue(r, completed, remaining, entry, limit)
<1>0. entry.task \in Tasks /\ entry.slot \in Slots /\ entry.attempts \in Nat
  BY DEF Entries
<1>1. CASE entry.attempts + 1 > limit
  BY <1>0, <1>1, QuarantineGood DEF Requeue
<1>2. CASE ~(entry.attempts + 1 > limit)
  <2>1. /\ new \in Records /\ new.completed = completed /\ new.inFlight = remaining
        /\ new.terminal = r.terminal /\ new.state = r.state
        /\ new.retry.slot = entry.slot
    <3>1. [kind |-> "task", task |-> entry.task, slot |-> entry.slot,
           attempts |-> entry.attempts + 1] \in Retries
      BY <1>0, <1>2 DEF Retries
    <3> QED
      BY <1>2, <3>1, RecordFields DEF Polled, Records, Requeue
  <2> HIDE DEF new
  <2> QED
    BY <2>1 DEF Polled, Good, Spread, Ended, new
<1> QED
  BY <1>1, <1>2

LEMMA ReconcileGood ==
  ASSUME NEW r, NEW completed, NEW remaining, Polled(r, completed, remaining),
         NEW entry \in Entries
  PROVE  LET new == Reconcile(r, completed, remaining, entry)
         IN new \in Records /\ Good(new)
<1> DEFINE new == Reconcile(r, completed, remaining, entry)
<1>1. /\ new \in Records /\ new.completed = completed /\ new.inFlight = remaining
      /\ new.terminal = r.terminal /\ new.state = r.state
      /\ new.retry.kind = "reconcile"
  <2>1. [kind |-> "reconcile", task |-> entry.task, slot |-> entry.slot, attempts |-> 0] \in Retries
    BY DEF Entries, Retries
  <2> QED
    BY <2>1, RecordFields DEF Polled, Records, Reconcile
<1> HIDE DEF new
<1> QED
  BY <1>1 DEF Polled, Good, Spread, Ended, Retrying, new

\* The entry the alarm puts in flight, and the retry it sets up, are in the slot it chose.
LEMMA AcceptedGood ==
  ASSUME NEW r, Polled(r, alarm.completed, alarm.remaining), NEW attempts \in Nat \ {0},
         alarm.task \in Tasks, alarm.slot \in Slots, alarm.slot \notin SlotsOf(alarm.remaining)
  PROVE  Accepted(r, attempts) \in Records /\ Good(Accepted(r, attempts))
<1> DEFINE new == Accepted(r, attempts)
           entry == [task |-> alarm.task, slot |-> alarm.slot, attempts |-> attempts]
<1>1. entry \in Entries /\ entry.slot = alarm.slot
  BY DEF Entries
<1>2. Append(alarm.remaining, entry) \in Seq(Entries) /\ Apart(Append(alarm.remaining, entry))
  <2> HIDE DEF entry
  <2> QED
    BY <1>1, AppendedEntry DEF Polled
<1>3. /\ new \in Records /\ new.completed = alarm.completed
      /\ new.inFlight = Append(alarm.remaining, entry)
      /\ new.terminal = r.terminal /\ new.state = r.state /\ new.retry = NoRetry
  <2>1. NoRetry \in Retries /\ alarm.task + 1 \in 1..(TaskCount + 1)
    BY DEF Retries, Tasks
  <2> HIDE DEF entry
  <2> QED
    BY <1>2, <2>1, RecordFields DEF Polled, Records, Accepted, entry
<1> HIDE DEF new, entry
<1> QED
  BY <1>2, <1>3 DEF Polled, Good, Spread, Ended, Retrying, NoRetry, new

LEMMA RefusedGood ==
  ASSUME NEW r, Polled(r, alarm.completed, alarm.remaining), NEW attempts \in Nat,
         alarm.task \in Tasks, alarm.slot \in Slots, alarm.slot \notin SlotsOf(alarm.remaining)
  PROVE  Refused(r, attempts) \in Records /\ Good(Refused(r, attempts))
<1> DEFINE new == Refused(r, attempts)
<1>1. CASE attempts > MaxAttempts
  BY <1>1, QuarantineGood DEF Refused
<1>2. CASE ~(attempts > MaxAttempts)
  <2>1. /\ new \in Records /\ new.completed = alarm.completed /\ new.inFlight = alarm.remaining
        /\ new.terminal = r.terminal /\ new.state = r.state
        /\ new.retry.slot = alarm.slot
    <3>1. [kind |-> "start", task |-> alarm.task, slot |-> alarm.slot, attempts |-> attempts]
            \in Retries
      BY <1>2 DEF Retries
    <3> QED
      BY <1>2, <3>1, RecordFields DEF Polled, Records, Refused
  <2> HIDE DEF new
  <2> QED
    BY <2>1 DEF Polled, Good, Spread, Ended, new
<1> QED
  BY <1>1, <1>2

-----------------------------------------------------------------------------
(***************************************************************************)
(* The alarm's passes                                                      *)
(***************************************************************************)
LEMMA AlarmIsTyped ==
  ASSUME Typed, AlarmGood, alarm.pc # "idle"
  PROVE  /\ alarm.seen \in Records /\ alarm.seen.inFlight \in Seq(Entries)
         /\ alarm.seen.state = "launching" /\ Good(alarm.seen) /\ Apart(alarm.seen.inFlight)
<1>1. alarm.seen \in Records /\ alarm.seen.state = "launching" /\ Good(alarm.seen)
  BY DEF Typed, Alarms, AlarmGood
<1> QED
  BY <1>1, RecordFields DEF Good, Spread

\* A pass that ends at a task that failed, or that it could not read.
LEMMA PassPolled ==
  ASSUME RampInv, alarm.pc # "idle", NEW i \in DOMAIN alarm.seen.inFlight, NEW j \in {i, i + 1}
  PROVE  /\ alarm.seen.inFlight[i] \in Entries
         /\ Polled(alarm.seen, Counted(Before(i)), StillWorking(Before(i)) \o From(j))
         /\ j = i + 1 => alarm.seen.inFlight[i].slot
                            \notin SlotsOf(StillWorking(Before(i)) \o From(j))
<1> DEFINE list == alarm.seen.inFlight
<1>1. /\ alarm.seen \in Records /\ list \in Seq(Entries) /\ alarm.seen.state = "launching"
      /\ Good(alarm.seen) /\ Apart(list)
  BY AlarmIsTyped DEF RampInv
<1>2. list[i] \in Entries
  BY <1>1
<1>3. SubSeq(list, 1, i - 1) \in Seq(Entries)
  <2>1. 1 \in 1..(Len(list) + 1) /\ i - 1 \in 0..Len(list)
    BY <1>1
  <2> HIDE DEF list
  <2> QED
    BY <1>1, <2>1, PartOfEntries
<1> DEFINE before == SubSeq(list, 1, i - 1)
           part == StillWorking(before) \o SubSeq(list, j, Len(list))
<1>4. Counted(before) \in SUBSET Tasks /\ Counted(before) \subseteq Marked
  <2> HIDE DEF before
  <2> QED
    BY <1>3, CountedAreMarked DEF RampInv, before
<1>5. part \in Seq(Entries) /\ Apart(part) /\ (j = i + 1 => list[i].slot \notin SlotsOf(part))
  <2>1. i \in DOMAIN list
    OBVIOUS
  <2> HIDE DEF list
  <2> QED
    BY <1>1, <2>1, PassKeeps
<1> QED
  BY <1>1, <1>2, <1>4, <1>5 DEF Before, From, Polled

\* A retry that waits keeps its slot whatever a pass finds.
LEMMA RetrySlotFree ==
  ASSUME RampInv, alarm.pc # "idle", NEW i \in DOMAIN alarm.seen.inFlight, NEW j \in {i, i + 1},
         Retrying(alarm.seen)
  PROVE  alarm.seen.retry.slot \notin SlotsOf(StillWorking(Before(i)) \o From(j))
<1> DEFINE list == alarm.seen.inFlight
<1>1. list \in Seq(Entries) /\ i \in DOMAIN list /\ alarm.seen.retry.slot \notin SlotsOf(list)
  BY AlarmIsTyped DEF RampInv, Good, Spread
<1> HIDE DEF list
<1>2. SlotsOf(StillWorking(SubSeq(list, 1, i - 1)) \o SubSeq(list, j, Len(list))) \subseteq SlotsOf(list)
  BY <1>1, PassKeeps
<1> QED
  BY <1>1, <1>2 DEF Before, From, list

\* A pass through every task in flight.
LEMMA QuietPolled ==
  ASSUME RampInv, alarm.pc # "idle"
  PROVE  LET r == alarm.seen  remaining == StillWorking(r.inFlight)
         IN /\ Polled(r, Counted(r.inFlight), remaining)
            /\ SlotsOf(remaining) \subseteq SlotsOf(r.inFlight)
<1> DEFINE list == alarm.seen.inFlight
<1>1. /\ alarm.seen \in Records /\ list \in Seq(Entries) /\ alarm.seen.state = "launching"
      /\ Good(alarm.seen) /\ Apart(list)
  BY AlarmIsTyped DEF RampInv
<1>2. Counted(list) \in SUBSET Tasks /\ Counted(list) \subseteq Marked
  BY <1>1, CountedAreMarked DEF RampInv
<1>3. /\ StillWorking(list) \in Seq(Entries) /\ Apart(StillWorking(list))
      /\ SlotsOf(StillWorking(list)) = {list[k].slot : k \in {m \in DOMAIN list : IsWorking(list[m])}}
  <2> HIDE DEF list
  <2> QED
    BY <1>1, StillWorkingKeeps
<1>4. SlotsOf(StillWorking(list)) \subseteq SlotsOf(list)
  BY <1>3 DEF SlotsOf
<1> QED
  BY <1>1, <1>2, <1>3, <1>4 DEF Polled

\* What holds while a start is under way.
LEMMA StartPolled ==
  ASSUME RampInv, alarm.pc \in {"starting", "launched"}
  PROVE  /\ Polled(alarm.seen, alarm.completed, alarm.remaining)
         /\ alarm.task \in Tasks /\ alarm.slot \in Slots
         /\ alarm.slot \notin SlotsOf(alarm.remaining)
<1>1. alarm.pc # "idle" /\ alarm.completed \in SUBSET Tasks /\ alarm.remaining \in Seq(Entries)
  BY DEF RampInv, Typed, Alarms
<1> QED
  BY <1>1, AlarmIsTyped DEF RampInv, AlarmGood, Polled

-----------------------------------------------------------------------------
(***************************************************************************)
(* The invariant of every lane: what a write, a container and the store do *)
(***************************************************************************)
LEMMA AsleepIsTyped == Asleep \in Alarms /\ NoRecord \in Records /\ NoRepair \in Repairs
<1>1. NoRecord \in Records
  BY DEF NoRecord, Records, NoRetry, Retries
<1> QED
  BY <1>1 DEF Asleep, Alarms, NoRepair, Repairs

LEMMA RepairStays ==
  ASSUME RepairGood, UNCHANGED repair, Marked \subseteq Marked'
  PROVE  RepairGood'
BY DEF RepairGood, Good, Spread, Ended, Apart, SlotsOf, Retrying

LEMMA WriteKeeps ==
  ASSUME RampInv, NEW r \in Records, Good(r), Write(r),
         UNCHANGED <<prefix, credential, repair>>, forgotten' \subseteq Tasks,
         slot' \in [Slots -> Containers], RunnersGood', faults' \in 0..MaxFaults
  PROVE  RampInv'
<1>1. Typed'
  BY AsleepIsTyped DEF RampInv, Typed, Write
<1>4. RepairGood'
  BY RepairStays DEF RampInv, Marked
<1>2. Good(record)'
  BY DEF Write, Good, Spread, Ended, Apart, SlotsOf, Retrying, Marked
<1>3. AlarmGood'
  BY DEF Write, AlarmGood, Asleep
<1> QED
  BY <1>1, <1>2, <1>3, <1>4 DEF RampInv

LEMMA RunnersStay ==
  ASSUME RunnersGood, UNCHANGED <<slot, prefix>>
  PROVE  RunnersGood'
BY DEF RunnersGood

LEMMA FaultIsTyped ==
  ASSUME Typed, NEW happens \in BOOLEAN, Fault(happens)
  PROVE  faults' \in 0..MaxFaults
BY DEF Typed, Fault

\* A container changes: its runner is as before, idle, or has a task and shows no result.
LEMMA OneContainer ==
  ASSUME RampInv, NEW s \in Slots, NEW c \in Containers, slot' = [slot EXCEPT ![s] = c],
         UNCHANGED prefix,
         c.launch.task # 0 => c.launch.attempts > 0,
         \/ c.runner = slot[s].runner /\ c.task = slot[s].task
         \/ c.runner = "idle"
         \/ c.runner \in {"running", "failed"} /\ c.task \in Tasks
  PROVE  slot' \in [Slots -> Containers] /\ RunnersGood'
<1>1. slot \in [Slots -> Containers]
  BY DEF RampInv, Typed
<1>2. slot'[s] = c /\ \A o \in Slots : o # s => slot'[o] = slot[o]
  BY <1>1
<1>3. slot' \in [Slots -> Containers]
  BY <1>1
<1>4. RunnersGood'
  BY <1>2 DEF RunnersGood, RampInv
<1> QED
  BY <1>3, <1>4

\* Neither the record nor the alarm changes, and no marker goes.
LEMMA LaneStays ==
  ASSUME RampInv, UNCHANGED <<record, alarm, repair, forgotten>>, credential' \in BOOLEAN,
         slot' \in [Slots -> Containers], RunnersGood',
         prefix' \in [Tasks -> {"none", "payload", "completed"}], Marked \subseteq Marked',
         faults' \in 0..MaxFaults
  PROVE  RampInv'
<1>1. Typed'
  BY DEF RampInv, Typed
<1>2. ASSUME NEW r, Good(r) PROVE /\ Spread(r) /\ Ended(r) /\ r.completed \subseteq Marked'
  BY <1>2 DEF Good
<1>3. Good(record)'
  BY <1>2 DEF RampInv, Good, Spread, Ended, Apart, SlotsOf, Retrying
<1>4. AlarmGood'
  <2>1. alarm.pc # "idle" => Good(alarm.seen)'
    BY <1>2 DEF RampInv, AlarmGood, Good, Spread, Ended, Apart, SlotsOf, Retrying
  <2> QED
    BY <2>1 DEF RampInv, AlarmGood, Apart, SlotsOf
<1>5. RepairGood'
  BY RepairStays DEF RampInv
<1> QED
  BY <1>1, <1>3, <1>4, <1>5 DEF RampInv

-----------------------------------------------------------------------------
(***************************************************************************)
(* The invariant of every lane, step by step                               *)
(***************************************************************************)
LEMMA RampInit == Init => RampInv
<1> SUFFICES ASSUME Init PROVE RampInv
  OBVIOUS
<1>1. FreshSlot \in Containers
  BY DEF FreshSlot, Containers, Classes
<1>2. Typed
  BY <1>1, AsleepIsTyped DEF Init, Typed
<1>3. Good(record)
  BY DEF Init, NoRecord, Good, Spread, Ended, Apart, Retrying, NoRetry
<1>4. AlarmGood
  BY DEF Init, Asleep, AlarmGood
<1>5. RunnersGood /\ RepairGood
  BY DEF Init, FreshSlot, RunnersGood, NoRepair, RepairGood
<1> QED
  BY <1>2, <1>3, <1>4, <1>5 DEF RampInv

LEMMA BeginKeeps ==
  ASSUME RampInv, Begin PROVE RampInv'
<1> DEFINE r == [NoRecord EXCEPT !.state = "launching"]
<1>1. r \in Records /\ r.inFlight = <<>> /\ r.retry = NoRetry /\ r.state = "launching"
      /\ r.terminal = 0 /\ r.completed = {}
  BY AsleepIsTyped DEF NoRecord, Records
<1> HIDE DEF r
<1>2. record' = r
  BY DEF Begin, r
<1>3. Typed'
  BY <1>1, <1>2 DEF RampInv, Typed, Begin
<1>4. Good(record)'
  BY <1>1, <1>2 DEF Good, Spread, Ended, Apart, Retrying, NoRetry
<1>5. AlarmGood'
  BY DEF RampInv, AlarmGood, Begin, Good, Spread, Ended, Apart, SlotsOf, Retrying, Marked
<1>6. RunnersGood' /\ RepairGood'
  BY RunnersStay, RepairStays DEF RampInv, Begin, Marked
<1> QED
  BY <1>3, <1>4, <1>5, <1>6 DEF RampInv

LEMMA AlarmFiresKeeps ==
  ASSUME RampInv, AlarmFires PROVE RampInv'
<1>1. Typed'
  BY AsleepIsTyped DEF RampInv, Typed, Alarms, AlarmFires
<1>2. alarm'.seen = record /\ alarm'.pc = "polling" /\ record.state = "launching"
  BY DEF AlarmFires, Asleep
<1>3. Good(record)' /\ AlarmGood'
  BY <1>2 DEF RampInv, AlarmGood, AlarmFires, Good, Spread, Ended, Apart, SlotsOf, Retrying, Marked
<1>4. RunnersGood' /\ RepairGood'
  BY RunnersStay, RepairStays DEF RampInv, AlarmFires, Marked
<1> QED
  BY <1>1, <1>3, <1>4 DEF RampInv

\* What is forgotten is a task.
LEMMA ReplacesTasks ==
  ASSUME RampInv, alarm.pc # "idle", NEW t, Replaces(t)
  PROVE  forgotten' \subseteq Tasks
<1>1. alarm.seen.retry \in Retries
  BY AlarmIsTyped, RecordFields DEF RampInv
<1>2. Waiting(alarm.seen) \subseteq Tasks
  BY <1>1 DEF Waiting, Retrying, Retries, NoRetry
<1> QED
  BY <1>2 DEF Replaces, RampInv, Typed

LEMMA PollUnreachableKeeps ==
  ASSUME RampInv, PollUnreachable PROVE RampInv'
<1>1. PICK i \in DOMAIN alarm.seen.inFlight :
        /\ Write(Reconcile(alarm.seen, Counted(Before(i)), Unresolved(i), alarm.seen.inFlight[i]))
        /\ Replaces(alarm.seen.inFlight[i].task)
  BY DEF PollUnreachable
<1> DEFINE new == Reconcile(alarm.seen, Counted(Before(i)), Unresolved(i), alarm.seen.inFlight[i])
<1>2. new \in Records /\ Good(new)
  BY PassPolled, ReconcileGood DEF PollUnreachable, Unresolved
<1> HIDE DEF new
<1>3. faults' \in 0..MaxFaults
  BY FaultIsTyped DEF PollUnreachable, RampInv
<1>4. slot' \in [Slots -> Containers] /\ RunnersGood'
  BY RunnersStay DEF PollUnreachable, RampInv, Typed
<1>5. forgotten' \subseteq Tasks
  BY <1>1, ReplacesTasks DEF PollUnreachable
<1> QED
  BY <1>1, <1>2, <1>3, <1>4, <1>5, WriteKeeps DEF PollUnreachable, new

LEMMA PollFailureKeeps ==
  ASSUME RampInv, PollFailure PROVE RampInv'
<1>0. alarm.pc # "idle"
  BY DEF PollFailure
<1>1. PICK i \in DOMAIN alarm.seen.inFlight :
        LET entry == alarm.seen.inFlight[i]
            completed == Counted(Before(i))
            remaining == StillWorking(Before(i)) \o From(i + 1)
        IN \/ Write(Requeue(alarm.seen, completed, remaining, entry, MaxAttempts))
           \/ Write(Requeue(alarm.seen, completed, remaining, entry, MaxRuntimeAttempts))
           \/ Write(Quarantine(alarm.seen, completed, remaining, entry.task))
           \/ Write(FailLane(alarm.seen, completed, remaining, entry.task))
  BY DEF PollFailure
<1>6. forgotten' \subseteq Tasks
  <2>1. (\E t : Replaces(t)) \/ UNCHANGED forgotten
    BY DEF PollFailure
  <2> QED
    BY <1>0, <2>1, ReplacesTasks DEF RampInv, Typed
<1> DEFINE r == alarm.seen
           entry == r.inFlight[i]
           completed == Counted(Before(i))
           remaining == StillWorking(Before(i)) \o From(i + 1)
<1>2. entry \in Entries /\ Polled(r, completed, remaining) /\ entry.slot \notin SlotsOf(remaining)
  BY PassPolled DEF PollFailure
<1>3. entry.task \in Tasks /\ MaxAttempts \in 1..MaxAttempts /\ MaxRuntimeAttempts \in 1..MaxAttempts
  BY <1>2 DEF Entries
<1>4. \E new \in Records : Good(new) /\ Write(new)
  <2> HIDE DEF r, entry, completed, remaining
  <2>1. CASE Write(Requeue(r, completed, remaining, entry, MaxAttempts))
    BY <1>2, <1>3, <2>1, RequeueGood
  <2>2. CASE Write(Requeue(r, completed, remaining, entry, MaxRuntimeAttempts))
    BY <1>2, <1>3, <2>2, RequeueGood
  <2>3. CASE Write(Quarantine(r, completed, remaining, entry.task))
    BY <1>2, <1>3, <2>3, QuarantineGood
  <2>4. CASE Write(FailLane(r, completed, remaining, entry.task))
    <3> DEFINE new == FailLane(r, completed, remaining, entry.task)
    <3>1. /\ new \in Records /\ new.completed = completed /\ new.inFlight = remaining
          /\ new.state = "failed" /\ new.retry = r.retry
      BY <1>2, <1>3, RecordFields DEF Polled, Records, FailLane
    <3>2. Retrying(r) => r.retry.slot \notin SlotsOf(remaining)
      BY <1>0, RetrySlotFree DEF r, remaining
    <3> HIDE DEF new
    <3>3. Good(new)
      BY <1>2, <3>1, <3>2 DEF Polled, Good, Spread, Ended, Retrying
    <3> QED
      BY <2>4, <3>1, <3>3 DEF new
  <2> QED
    BY <1>1, <2>1, <2>2, <2>3, <2>4 DEF r, entry, completed, remaining
<1>5. slot' \in [Slots -> Containers] /\ RunnersGood' /\ faults' \in 0..MaxFaults
  BY RunnersStay DEF PollFailure, RampInv, Typed
<1> QED
  BY <1>4, <1>5, <1>6, WriteKeeps DEF PollFailure

LEMMA PollQuietKeeps ==
  ASSUME RampInv, PollQuiet PROVE RampInv'
<1> DEFINE r == alarm.seen
           remaining == StillWorking(r.inFlight)
           completed == Counted(r.inFlight)
           t == IF Retrying(r) THEN r.retry.task ELSE r.next
           s == IF Retrying(r) THEN r.retry.slot ELSE FirstFree(remaining)
<1>1. Polled(r, completed, remaining) /\ SlotsOf(remaining) \subseteq SlotsOf(r.inFlight)
  BY QuietPolled DEF PollQuiet
<1>2. r \in Records /\ r.inFlight \in Seq(Entries) /\ r.state = "launching" /\ Good(r)
  BY AlarmIsTyped DEF PollQuiet, RampInv
<1>3. slot' \in [Slots -> Containers] /\ RunnersGood' /\ faults' \in 0..MaxFaults
  BY RunnersStay DEF PollQuiet, RampInv, Typed
<1>4. alarm.pc = "polling" /\ UNCHANGED <<prefix, credential, repair, forgotten>>
      /\ forgotten' \subseteq Tasks /\ RepairGood'
  BY RepairStays DEF PollQuiet, RampInv, Typed, Marked
<1>5. CASE /\ MayStart(r, remaining)
           /\ alarm' = [alarm EXCEPT !.pc = "starting", !.remaining = remaining,
                                     !.completed = completed, !.task = t, !.slot = s]
           /\ UNCHANGED record
  <2> HIDE DEF r, remaining, completed
  <2>1. t \in Tasks /\ s \in Slots /\ s \notin SlotsOf(remaining)
    <3>1. CASE Retrying(r)
      <4>1. r.retry \in Retries /\ r.retry # NoRetry
        BY <1>2, <3>1, RecordFields DEF Retrying, NoRetry
      <4> QED
        BY <1>1, <1>2, <3>1, <4>1 DEF Retries, Good, Spread
    <3>2. CASE ~Retrying(r)
      <4>1. r.next <= TaskCount /\ Len(remaining) < MaxConcurrent
        BY <1>5, <3>2 DEF MayStart, Retrying
      <4>2. t \in Tasks
        BY <1>2, <3>2, <4>1, RecordFields DEF Tasks
      <4> QED
        BY <1>1, <3>2, <4>1, <4>2, SlotIsFree DEF Polled
    <3> QED
      BY <3>1, <3>2
  <2> HIDE DEF t, s
  <2>2. Typed'
    BY <1>1, <1>3, <1>5, <2>1 DEF PollQuiet, RampInv, Typed, Alarms, Polled
  <2>3. /\ alarm'.pc = "starting" /\ alarm'.seen = r /\ alarm'.remaining = remaining
        /\ alarm'.completed = completed /\ alarm'.task = t /\ alarm'.slot = s
    BY <1>5 DEF RampInv, Typed, Alarms, r
  <2>4. Good(record)'
    BY <1>5 DEF PollQuiet, RampInv, Good, Spread, Ended, Apart, SlotsOf, Retrying, Marked
  <2>5. AlarmGood'
    <3>1. Good(r)' 
      BY <1>2, <1>5, <2>3 DEF PollQuiet, Good, Spread, Ended, Apart, SlotsOf, Retrying, Marked, r
    <3> QED
      BY <1>1, <1>2, <2>1, <2>3, <3>1 DEF PollQuiet, AlarmGood, Polled, Apart, SlotsOf, Marked, r
  <2> QED
    BY <1>3, <1>4, <2>2, <2>4, <2>5 DEF RampInv
<1>6. CASE Write([r EXCEPT !.state = "expired", !.completed = completed,
                           !.inFlight = remaining, !.terminal = t]) /\ MayStart(r, remaining)
  <2> DEFINE new == [r EXCEPT !.state = "expired", !.completed = completed,
                              !.inFlight = remaining, !.terminal = t]
  <2> HIDE DEF r, remaining, completed
  <2>1. t \in Tasks
    <3>1. CASE Retrying(r)
      <4>1. r.retry \in Retries /\ r.retry # NoRetry
        BY <1>2, <3>1, RecordFields DEF Retrying, NoRetry
      <4> QED
        BY <3>1, <4>1 DEF Retries
    <3>2. CASE ~Retrying(r)
      BY <1>2, <1>6, <3>2, RecordFields DEF MayStart, Retrying, Tasks
    <3> QED
      BY <3>1, <3>2
  <2>2. /\ new \in Records /\ new.state = "expired" /\ new.completed = completed
        /\ new.inFlight = remaining /\ new.retry = r.retry
    <3> HIDE DEF t
    <3> QED
      BY <1>1, <2>1, RecordFields DEF Polled, Records
  <2> HIDE DEF new
  <2>3. Good(new)
    BY <1>1, <2>2 DEF Polled, Good, Spread, Ended, Retrying
  <2> QED
    BY <1>3, <1>4, <1>6, <2>2, <2>3, WriteKeeps DEF new
<1>7. CASE /\ r.next > TaskCount /\ r.retry = NoRetry
           /\ Write([r EXCEPT !.state = IF r.quarantined = {} THEN "completed" ELSE "recoverable",
                              !.completed = completed, !.inFlight = <<>>])
  <2> DEFINE new == [r EXCEPT !.state = IF r.quarantined = {} THEN "completed" ELSE "recoverable",
                              !.completed = completed, !.inFlight = <<>>]
  <2> HIDE DEF r, remaining, completed
  <2>1. /\ new \in Records
        /\ new.state = IF r.quarantined = {} THEN "completed" ELSE "recoverable"
        /\ new.completed = completed /\ new.inFlight = <<>> /\ new.retry = r.retry
        /\ new.next = r.next /\ new.terminal = r.terminal /\ new.quarantined = r.quarantined
    <3> DEFINE state == IF r.quarantined = {} THEN "completed" ELSE "recoverable"
    <3>1. <<>> \in Seq(Entries) /\ state \in {"completed", "recoverable"}
      OBVIOUS
    <3> HIDE DEF state
    <3>2. [r EXCEPT !.state = state, !.completed = completed, !.inFlight = <<>>] \in Records
      BY <1>1, <3>1, RecordFields DEF Polled, Records
    <3>3. DOMAIN r = {"state", "next", "inFlight", "retry", "completed", "quarantined", "terminal"}
      BY <1>2 DEF Records
    <3> QED
      BY <3>2, <3>3 DEF state
  <2> HIDE DEF new
  <2>2. Good(new)
    BY <1>1, <1>7, <2>1 DEF Polled, Good, Spread, Ended, Apart, Retrying, NoRetry
  <2> QED
    BY <1>3, <1>4, <1>7, <2>1, <2>2, WriteKeeps DEF new
<1>8. CASE Write([r EXCEPT !.completed = completed, !.inFlight = remaining, !.retry = Cleared(@)])
  <2> DEFINE new == [r EXCEPT !.completed = completed, !.inFlight = remaining, !.retry = Cleared(@)]
  <2> HIDE DEF r, remaining, completed
  <2>1. Cleared(r.retry) \in Retries
    BY <1>2, RecordFields DEF Cleared, Retries
  <2>2. /\ new \in Records /\ new.state = r.state
        /\ new.completed = completed /\ new.inFlight = remaining /\ new.retry = Cleared(r.retry)
        /\ new.terminal = r.terminal
    BY <1>1, <2>1, RecordFields DEF Polled, Records
  <2> HIDE DEF new
  <2>3. Good(new)
    BY <1>1, <2>2 DEF Polled, Good, Spread, Ended, Retrying, Cleared, NoRetry
  <2> QED
    BY <1>3, <1>4, <1>8, <2>2, <2>3, WriteKeeps DEF new
<1> QED
  BY <1>5, <1>6, <1>7, <1>8 DEF PollQuiet

\* A call that is left behind changes no runner and no launch record.
LEMMA CallIsLeft ==
  ASSUME RampInv, LeavesCall, UNCHANGED prefix
  PROVE  slot' \in [Slots -> Containers] /\ RunnersGood'
<1>1. CASE UNCHANGED slot
  BY <1>1, RunnersStay DEF RampInv, Typed
<1>2. CASE /\ alarm.pc = "starting"
           /\ slot' = [slot EXCEPT ![alarm.slot].asked = @ \cup {alarm.task}]
  <2> DEFINE s == alarm.slot
             c == [slot[s] EXCEPT !.asked = @ \cup {alarm.task}]
  <2>1. s \in Slots /\ alarm.task \in Tasks
    BY <1>2, StartPolled
  <2>2. slot[s] \in Containers /\ (slot[s].launch.task # 0 => slot[s].launch.attempts > 0)
    BY <2>1 DEF RampInv, Typed, RunnersGood
  <2>3. /\ c \in Containers /\ c.launch = slot[s].launch
        /\ c.runner = slot[s].runner /\ c.task = slot[s].task
    BY <2>1, <2>2 DEF Containers
  <2>4. slot' = [slot EXCEPT ![s] = c]
    BY <1>2
  <2> HIDE DEF c, s
  <2> QED
    BY <2>1, <2>2, <2>3, <2>4, OneContainer
<1> QED
  BY <1>1, <1>2 DEF LeavesCall

LEMMA StartThrowsKeeps ==
  ASSUME RampInv, StartThrows PROVE RampInv'
<1> DEFINE prior == alarm.seen.retry
           n == IF prior.kind = "start" /\ prior.task = alarm.task THEN prior.attempts + 1 ELSE 1
<1>1. n \in Nat
  <2>1. alarm.pc # "idle"
    BY DEF StartThrows
  <2>2. prior \in Retries
    BY <2>1, AlarmIsTyped, RecordFields DEF RampInv
  <2> QED
    BY <2>2 DEF Retries, NoRetry
<1>2. Refused(alarm.seen, n) \in Records /\ Good(Refused(alarm.seen, n))
  <2> HIDE DEF n
  <2> QED
    BY <1>1, StartPolled, RefusedGood DEF StartThrows
<1>3. slot' \in [Slots -> Containers] /\ RunnersGood' /\ faults' \in 0..MaxFaults
      /\ forgotten' \subseteq Tasks
  BY CallIsLeft, FaultIsTyped DEF StartThrows, RampInv, Typed
<1> QED
  BY <1>2, <1>3, WriteKeeps DEF StartThrows

\* The launch record changes, and with it what the slot knows of its age.
LEMMA LaunchAsTyped ==
  ASSUME RampInv, NEW s \in Slots, NEW t \in Tasks, NEW n \in Nat,
         NEW state \in {"pending", "accepted"}
  PROVE  LET c == LaunchAs(s, state, t, n)
         IN /\ c \in Containers /\ c.launch.task = t /\ c.launch.attempts = n
            /\ c.runner = slot[s].runner /\ c.task = slot[s].task /\ c.calls = slot[s].calls
            /\ c.running = slot[s].running /\ c.mishap = slot[s].mishap
<1>1. slot[s] \in Containers
  BY DEF RampInv, Typed
<1>2. [state |-> state, task |-> t, attempts |-> n]
        \in [state : {"none", "pending", "accepted"}, task : Tasks \cup {0}, attempts : Nat]
  OBVIOUS
<1> QED
  BY <1>1, <1>2 DEF LaunchAs, Containers

\* What a matching launch record counts.
LEMMA LaunchCounts ==
  ASSUME RampInv, NEW s \in Slots, NEW t \in Tasks
  PROVE  /\ slot[s].launch.attempts \in Nat
         /\ Matches(s, t) => slot[s].launch.attempts \in Nat \ {0}
         /\ AttemptsOf(s, t) \in Nat \ {0}
<1>1. slot[s].launch.attempts \in Nat
  BY DEF RampInv, Typed, Containers
<1>2. Matches(s, t) => slot[s].launch.attempts > 0
  BY DEF RampInv, RunnersGood, Matches, Tasks
<1> QED
  BY <1>1, <1>2 DEF AttemptsOf

LEMMA StartReconciledKeeps ==
  ASSUME RampInv, StartReconciled PROVE RampInv'
<1> DEFINE s == alarm.slot  t == alarm.task  n == slot[s].launch.attempts
           c == LaunchAs(s, "accepted", t, n)
<1>1. Polled(alarm.seen, alarm.completed, alarm.remaining) /\ t \in Tasks /\ s \in Slots
      /\ s \notin SlotsOf(alarm.remaining)
  BY StartPolled DEF StartReconciled
<1>2. n \in Nat \ {0}
  BY <1>1, LaunchCounts DEF StartReconciled, AlreadyThere
<1>3. Accepted(alarm.seen, n) \in Records /\ Good(Accepted(alarm.seen, n))
  BY <1>1, <1>2, AcceptedGood
<1>4. /\ c \in Containers /\ c.launch.attempts = n
      /\ c.runner = slot[s].runner /\ c.task = slot[s].task
  BY <1>1, <1>2, LaunchAsTyped
<1> HIDE DEF c, n
<1>5. slot' = [slot EXCEPT ![s] = c] /\ UNCHANGED prefix
  BY DEF StartReconciled, c, n
<1>6. slot' \in [Slots -> Containers] /\ RunnersGood'
  <2>1. c.launch.task # 0 => c.launch.attempts > 0
    BY <1>2, <1>4
  <2> HIDE DEF s
  <2> QED
    BY <1>1, <1>4, <1>5, <2>1, OneContainer
<1>7. faults' \in 0..MaxFaults /\ forgotten' \subseteq Tasks
  BY DEF StartReconciled, RampInv, Typed
<1> QED
  BY <1>3, <1>6, <1>7, WriteKeeps DEF StartReconciled, n

LEMMA StartDeferredKeeps ==
  ASSUME RampInv, StartDeferred PROVE RampInv'
<1>1. Polled(alarm.seen, alarm.completed, alarm.remaining) /\ alarm.task \in Tasks
      /\ alarm.slot \in Slots /\ alarm.slot \notin SlotsOf(alarm.remaining)
  BY StartPolled DEF StartDeferred
<1>2. slot[alarm.slot].launch.attempts \in Nat
  BY <1>1, LaunchCounts
<1>3. PICK hidden \in BOOLEAN, n \in Nat, happens \in BOOLEAN :
        Write(Refused(alarm.seen, n)) /\ Fault(happens)
  BY <1>2 DEF StartDeferred, MayHide
<1>4. Refused(alarm.seen, n) \in Records /\ Good(Refused(alarm.seen, n))
  BY <1>1, RefusedGood
<1>5. slot' \in [Slots -> Containers] /\ RunnersGood'
  BY RunnersStay DEF StartDeferred, RampInv, Typed
<1>6. faults' \in 0..MaxFaults /\ forgotten' \subseteq Tasks
  BY <1>3, FaultIsTyped DEF RampInv, Typed, StartDeferred
<1> QED
  BY <1>3, <1>4, <1>5, <1>6, WriteKeeps DEF StartDeferred

\* A launch is written down for one more attempt of a task.
LEMMA LaunchesTyped ==
  ASSUME RampInv, NEW s \in Slots, NEW t \in Tasks, Launches(s, t), UNCHANGED prefix
  PROVE  slot' \in [Slots -> Containers] /\ RunnersGood' /\ faults' \in 0..MaxFaults
<1> DEFINE n == IF Matches(s, t) THEN slot[s].launch.attempts + 1 ELSE 1
           pending == LaunchAs(s, "pending", t, n)
           c == [pending EXCEPT !.asked = @ \ {t}, !.calls = @ \cup {t},
                                !.mishap = FreshSlot.mishap]
<1>1. n \in Nat \ {0}
  BY LaunchCounts
<1> HIDE DEF n
<1>2. /\ pending \in Containers /\ pending.launch.task = t /\ pending.launch.attempts = n
      /\ pending.runner = slot[s].runner /\ pending.task = slot[s].task
  BY <1>1, LaunchAsTyped
<1> HIDE DEF pending
<1>3. c \in Containers /\ c.launch = pending.launch /\ c.runner = pending.runner /\ c.task = pending.task
  BY <1>2 DEF Containers, FreshSlot, Classes
<1> HIDE DEF c
<1>4. slot' = [slot EXCEPT ![s] = c]
  BY DEF Launches, c, n, pending
<1>5. slot' \in [Slots -> Containers] /\ RunnersGood'
  <2>1. /\ c.launch.task # 0 => c.launch.attempts > 0
        /\ c.runner = slot[s].runner /\ c.task = slot[s].task
    BY <1>1, <1>2, <1>3
  <2> QED
    BY <1>3, <1>4, <2>1, OneContainer
<1>6. faults' \in 0..MaxFaults
  <2>1. \E hidden \in BOOLEAN : Fault(hidden)
    BY DEF Launches, MayHide
  <2> QED
    BY <2>1, FaultIsTyped DEF RampInv
<1> QED
  BY <1>5, <1>6

LEMMA StartBeginsKeeps ==
  ASSUME RampInv, StartBegins PROVE RampInv'
<1> DEFINE s == alarm.slot  t == alarm.task
<1>1. t \in Tasks /\ s \in Slots
  BY StartPolled DEF StartBegins
<1>5. /\ UNCHANGED <<prefix, record, credential, repair, forgotten>>
      /\ alarm' = [alarm EXCEPT !.pc = "launched"] /\ alarm.pc = "starting"
  BY DEF StartBegins
<1>6. slot' \in [Slots -> Containers] /\ RunnersGood' /\ faults' \in 0..MaxFaults
  BY <1>1, LaunchesTyped DEF StartBegins
<1>7. RepairGood'
  BY <1>5, RepairStays DEF RampInv, Marked
<1>8. Typed'
  BY <1>5, <1>6 DEF RampInv, Typed, Alarms
<1>9. /\ alarm'.pc = "launched" /\ alarm'.seen = alarm.seen /\ alarm'.remaining = alarm.remaining
      /\ alarm'.completed = alarm.completed /\ alarm'.task = t /\ alarm'.slot = s
  BY <1>5 DEF RampInv, Typed, Alarms
<1>10. Good(record)'
  BY <1>5 DEF RampInv, Good, Spread, Ended, Apart, SlotsOf, Retrying, Marked
<1>11. AlarmGood'
  <2>1. Good(alarm.seen)'
    BY <1>5, <1>9 DEF RampInv, AlarmGood, Good, Spread, Ended, Apart, SlotsOf, Retrying, Marked
  <2> QED
    BY <1>5, <1>9, <2>1 DEF RampInv, AlarmGood, Apart, SlotsOf, Marked
<1> QED
  BY <1>6, <1>7, <1>8, <1>10, <1>11 DEF RampInv

LEMMA AbandonedStartKeeps ==
  ASSUME RampInv, NEW s \in Slots, NEW t \in Tasks, AbandonedStart(s, t) PROVE RampInv'
<1>1. UNCHANGED <<record, alarm, prefix, credential, repair, forgotten>>
  BY DEF AbandonedStart
<1>2. slot' \in [Slots -> Containers] /\ RunnersGood' /\ faults' \in 0..MaxFaults
  <2>1. CASE Launches(s, t)
    BY <1>1, <2>1, LaunchesTyped
  <2>2. CASE /\ AlreadyThere(s, t, FALSE)
             /\ slot' = [slot EXCEPT ![s] =
                  [LaunchAs(s, "accepted", t, slot[s].launch.attempts) EXCEPT !.asked = @ \ {t}]]
             /\ Fault(FALSE)
    <3> DEFINE n == slot[s].launch.attempts
               accepted == LaunchAs(s, "accepted", t, n)
               c == [accepted EXCEPT !.asked = @ \ {t}]
    <3>1. n \in Nat \ {0}
      BY <2>2, LaunchCounts DEF AlreadyThere
    <3>2. slot' = [slot EXCEPT ![s] = c]
      BY <2>2
    <3> HIDE DEF n
    <3>3. /\ accepted \in Containers /\ accepted.launch.attempts = n
          /\ accepted.runner = slot[s].runner /\ accepted.task = slot[s].task
      BY <3>1, LaunchAsTyped
    <3> HIDE DEF accepted
    <3>4. /\ c \in Containers /\ c.launch = accepted.launch /\ c.runner = accepted.runner
          /\ c.task = accepted.task
      BY <3>3 DEF Containers
    <3> HIDE DEF c
    <3>5. c.launch.task # 0 => c.launch.attempts > 0
      BY <3>1, <3>3, <3>4
    <3> QED
      BY <1>1, <2>2, <3>2, <3>3, <3>4, <3>5, OneContainer, FaultIsTyped DEF RampInv
  <2>3. CASE slot' = [slot EXCEPT ![s].asked = @ \ {t}] /\ Fault(FALSE)
    <3> DEFINE c == [slot[s] EXCEPT !.asked = @ \ {t}]
    <3>1. slot[s] \in Containers /\ (slot[s].launch.task # 0 => slot[s].launch.attempts > 0)
      BY DEF RampInv, Typed, RunnersGood
    <3>2. /\ c \in Containers /\ c.launch = slot[s].launch
          /\ c.runner = slot[s].runner /\ c.task = slot[s].task
      BY <3>1 DEF Containers
    <3>3. slot' = [slot EXCEPT ![s] = c]
      BY <2>3
    <3> HIDE DEF c
    <3> QED
      BY <1>1, <2>3, <3>1, <3>2, <3>3, OneContainer, FaultIsTyped DEF RampInv
  <2> QED
    BY <2>1, <2>2, <2>3 DEF AbandonedStart
<1>3. /\ credential' \in BOOLEAN /\ prefix' \in [Tasks -> {"none", "payload", "completed"}]
      /\ Marked \subseteq Marked'
  BY <1>1 DEF RampInv, Typed, Marked
<1> QED
  BY <1>1, <1>2, <1>3, LaneStays

\* The runner takes the task, or has it already.
LEMMA RunnerTakesTyped ==
  ASSUME NEW c \in Containers, NEW t \in Tasks
  PROVE  LET new == RunnerTakes(c, t)
         IN /\ new \in Containers /\ new.launch = c.launch
            /\ \/ new.runner = c.runner /\ new.task = c.task
               \/ new.runner = "running" /\ new.task = t
<1> DEFINE mishap == IF c.running THEN c.mishap ELSE FreshSlot.mishap
<1>1. mishap \in [task : Tasks \cup {0}, class : Classes] /\ "none" \in Classes
  BY DEF Containers, FreshSlot, Classes
<1>2. CASE RunnerTakes(c, t) = c
  BY <1>2
<1>3. CASE RunnerTakes(c, t) = [c EXCEPT !.running = TRUE, !.runner = "running", !.task = t,
                                         !.failure = "none", !.mishap = mishap]
  <2> HIDE DEF mishap
  <2> QED
    BY <1>1, <1>3 DEF Containers
<1> QED
  BY <1>2, <1>3 DEF RunnerTakes

\* A call ends.
LEMMA CallEnds ==
  ASSUME RampInv, NEW s \in Slots, NEW t \in Tasks, NEW c \in Containers,
         slot' = [slot EXCEPT ![s] = [c EXCEPT !.calls = @ \ {t}]], UNCHANGED prefix,
         c.launch.task # 0 => c.launch.attempts > 0,
         \/ c.runner = slot[s].runner /\ c.task = slot[s].task
         \/ c.runner = "running" /\ c.task = t
  PROVE  slot' \in [Slots -> Containers] /\ RunnersGood'
<1> DEFINE d == [c EXCEPT !.calls = @ \ {t}]
<1>1. d \in Containers /\ d.launch = c.launch /\ d.runner = c.runner /\ d.task = c.task
  BY DEF Containers
<1>2. slot' = [slot EXCEPT ![s] = d]
  OBVIOUS
<1> HIDE DEF d
<1>3. d.launch.task # 0 => d.launch.attempts > 0
  BY <1>1
<1>4. \/ d.runner = slot[s].runner /\ d.task = slot[s].task
      \/ d.runner \in {"running", "failed"} /\ d.task \in Tasks
  BY <1>1
<1> QED
  BY <1>1, <1>2, <1>3, <1>4, OneContainer

\* What the call's answer does to the lane, if the alarm waits for it.
LEMMA AnswerKeeps ==
  ASSUME RampInv, NEW s, NEW t, NEW r, Answer(s, t, r),
         alarm.pc = "launched" => r \in Records /\ Good(r),
         UNCHANGED <<prefix, credential, repair, forgotten>>,
         slot' \in [Slots -> Containers], RunnersGood', faults' \in 0..MaxFaults
  PROVE  RampInv'
<1>1. CASE alarm.pc = "launched" /\ Write(r)
  BY <1>1, WriteKeeps DEF RampInv, Typed
<1>2. CASE UNCHANGED <<record, alarm>>
  <2>1. /\ credential' \in BOOLEAN /\ prefix' \in [Tasks -> {"none", "payload", "completed"}]
        /\ Marked \subseteq Marked'
    BY DEF RampInv, Typed, Marked
  <2> QED
    BY <1>2, <2>1, LaneStays
<1> QED
  BY <1>1, <1>2 DEF Answer

LEMMA StartRunsKeeps ==
  ASSUME RampInv, NEW s \in Slots, NEW t \in Tasks, StartRuns(s, t) PROVE RampInv'
<1> DEFINE n == AttemptsOf(s, t)
           accepted == LaunchAs(s, "accepted", t, n)
           c == RunnerTakes(accepted, t)
<1>1. n \in Nat \ {0}
  BY LaunchCounts
<1> HIDE DEF n
<1>2. /\ accepted \in Containers /\ accepted.launch.attempts = n
      /\ accepted.runner = slot[s].runner /\ accepted.task = slot[s].task
  BY <1>1, LaunchAsTyped
<1> HIDE DEF accepted
<1>3. /\ c \in Containers /\ c.launch = accepted.launch
      /\ \/ c.runner = accepted.runner /\ c.task = accepted.task
         \/ c.runner = "running" /\ c.task = t
  BY <1>2, RunnerTakesTyped
<1> HIDE DEF c
<1>4. /\ slot' = [slot EXCEPT ![s] = [c EXCEPT !.calls = @ \ {t}]]
      /\ Answer(s, t, Accepted(alarm.seen, n)) /\ UNCHANGED <<prefix, credential, faults, repair, forgotten>>
  BY DEF StartRuns, c, accepted, n
<1>5. slot' \in [Slots -> Containers] /\ RunnersGood'
  <2>1. /\ c.launch.task # 0 => c.launch.attempts > 0
        /\ \/ c.runner = slot[s].runner /\ c.task = slot[s].task
           \/ c.runner = "running" /\ c.task = t
    BY <1>1, <1>2, <1>3
  <2> QED
    BY <1>3, <1>4, <2>1, CallEnds
<1>6. alarm.pc = "launched" => Accepted(alarm.seen, n) \in Records /\ Good(Accepted(alarm.seen, n))
  BY <1>1, StartPolled, AcceptedGood
<1>7. faults' \in 0..MaxFaults
  BY <1>4 DEF RampInv, Typed
<1> QED
  BY <1>4, <1>5, <1>6, <1>7, AnswerKeeps

LEMMA StartFailsKeeps ==
  ASSUME RampInv, NEW s \in Slots, NEW t \in Tasks, StartFails(s, t) PROVE RampInv'
<1> DEFINE n == AttemptsOf(s, t)
           pending == LaunchAs(s, "pending", t, n)
<1>1. n \in Nat \ {0}
  BY LaunchCounts
<1> HIDE DEF n
<1>2. /\ pending \in Containers /\ pending.launch.attempts = n
      /\ pending.runner = slot[s].runner /\ pending.task = slot[s].task
  BY <1>1, LaunchAsTyped
<1> HIDE DEF pending
<1>3. /\ \E c \in {pending, RunnerTakes(pending, t)} :
           slot' = [slot EXCEPT ![s] = [c EXCEPT !.calls = @ \ {t}]]
      /\ \E happens \in BOOLEAN : Fault(happens)
      /\ Answer(s, t, Refused(alarm.seen, n)) /\ UNCHANGED <<prefix, credential, repair, forgotten>>
  BY DEF StartFails, pending, n
<1>4. PICK c \in {pending, RunnerTakes(pending, t)} :
        slot' = [slot EXCEPT ![s] = [c EXCEPT !.calls = @ \ {t}]]
  BY <1>3
<1>5. /\ c \in Containers /\ c.launch = pending.launch
      /\ \/ c.runner = slot[s].runner /\ c.task = slot[s].task
         \/ c.runner = "running" /\ c.task = t
  <2>1. /\ RunnerTakes(pending, t) \in Containers /\ RunnerTakes(pending, t).launch = pending.launch
        /\ \/ /\ RunnerTakes(pending, t).runner = pending.runner
              /\ RunnerTakes(pending, t).task = pending.task
           \/ RunnerTakes(pending, t).runner = "running" /\ RunnerTakes(pending, t).task = t
    BY <1>2, RunnerTakesTyped
  <2> QED
    BY <1>2, <1>4, <2>1
<1>6. slot' \in [Slots -> Containers] /\ RunnersGood'
  <2>1. c.launch.task # 0 => c.launch.attempts > 0
    BY <1>1, <1>2, <1>5
  <2> QED
    BY <1>3, <1>4, <1>5, <2>1, CallEnds
<1>7. alarm.pc = "launched" => Refused(alarm.seen, n) \in Records /\ Good(Refused(alarm.seen, n))
  BY <1>1, StartPolled, RefusedGood
<1>8. faults' \in 0..MaxFaults
  BY <1>3, FaultIsTyped DEF RampInv
<1> QED
  BY <1>3, <1>6, <1>7, <1>8, AnswerKeeps

LEMMA PendingAgesKeeps ==
  ASSUME RampInv, NEW s \in Slots, PendingAges(s) PROVE RampInv'
<1> DEFINE c == [slot[s] EXCEPT !.recent = FALSE]
<1>1. slot[s] \in Containers /\ (slot[s].launch.task # 0 => slot[s].launch.attempts > 0)
  BY DEF RampInv, Typed, RunnersGood
<1>2. c \in Containers /\ c.launch = slot[s].launch /\ c.runner = slot[s].runner /\ c.task = slot[s].task
  BY <1>1 DEF Containers
<1>3. slot' = [slot EXCEPT ![s] = c]
  BY DEF PendingAges
<1> HIDE DEF c
<1>4. slot' \in [Slots -> Containers] /\ RunnersGood'
  BY <1>1, <1>2, <1>3, OneContainer DEF PendingAges
<1>5. /\ credential' \in BOOLEAN /\ prefix' \in [Tasks -> {"none", "payload", "completed"}]
      /\ Marked \subseteq Marked' /\ faults' \in 0..MaxFaults
  BY DEF PendingAges, RampInv, Typed, Marked
<1> QED
  BY <1>4, <1>5, LaneStays DEF PendingAges

\* A runner's state and failure change, and nothing else of the containers.
LEMMA BecomesTyped ==
  ASSUME RampInv, NEW s \in Slots, NEW class \in Classes,
         NEW state \in {"idle", "running", "writing", "succeeded", "failed"},
         Becomes(s, state, class)
  PROVE  /\ slot' \in [Slots -> Containers]
         /\ slot'[s].runner = state /\ slot'[s].task = slot[s].task
         /\ slot'[s].launch = slot[s].launch
         /\ \A o \in Slots : o # s => slot'[o] = slot[o]
<1>1. slot \in [Slots -> Containers] /\ slot[s] \in Containers
  BY DEF RampInv, Typed
<1> DEFINE c == [[slot[s] EXCEPT !.runner = state] EXCEPT !.failure = class]
<1>2. /\ c \in Containers /\ c.runner = state /\ c.task = slot[s].task
      /\ c.launch = slot[s].launch
  BY <1>1 DEF Containers
<1>3. slot' = [slot EXCEPT ![s] = c]
  BY <1>1 DEF Becomes
<1> HIDE DEF c
<1> QED
  BY <1>1, <1>2, <1>3

LEMMA RunnerWritesKeeps ==
  ASSUME RampInv, NEW s \in Slots, RunnerWrites(s) PROVE RampInv'
<1>1. /\ slot' \in [Slots -> Containers]
      /\ slot'[s].runner = "writing" /\ slot'[s].task = slot[s].task
      /\ slot'[s].launch = slot[s].launch /\ \A o \in Slots : o # s => slot'[o] = slot[o]
  BY BecomesTyped DEF RunnerWrites, Classes
<1> DEFINE t == slot[s].task
<1>2. t \in Tasks /\ prefix[t] = "none" /\ prefix \in [Tasks -> {"none", "payload", "completed"}]
  BY DEF RampInv, Typed, RunnersGood, RunnerWrites
<1>3. /\ prefix' \in [Tasks -> {"none", "payload", "completed"}]
      /\ prefix'[t] = "payload" /\ \A u \in Tasks : u # t => prefix'[u] = prefix[u]
  BY <1>2 DEF RunnerWrites
<1>4. \A o \in Slots : slot[o].runner \in {"writing", "succeeded"} => slot[o].task \in Tasks /\ slot[o].task # t
  BY <1>2 DEF RampInv, RunnersGood
<1>5. slot[s].launch.task # 0 => slot[s].launch.attempts > 0
  BY DEF RampInv, RunnersGood
<1>6. RunnersGood'
  BY <1>1, <1>2, <1>3, <1>4, <1>5 DEF RampInv, RunnersGood
<1>7. Marked \subseteq Marked'
  BY <1>2, <1>3 DEF Marked
<1>8. credential' \in BOOLEAN /\ faults' \in 0..MaxFaults
  BY DEF RunnerWrites, RampInv, Typed
<1> QED
  BY <1>1, <1>3, <1>6, <1>7, <1>8, LaneStays DEF RunnerWrites

LEMMA RunnerSucceedsKeeps ==
  ASSUME RampInv, NEW s \in Slots, RunnerSucceeds(s) PROVE RampInv'
<1>1. /\ slot' \in [Slots -> Containers]
      /\ slot'[s].runner = "succeeded" /\ slot'[s].task = slot[s].task
      /\ slot'[s].launch = slot[s].launch /\ \A o \in Slots : o # s => slot'[o] = slot[o]
  BY BecomesTyped DEF RunnerSucceeds, Classes
<1> DEFINE t == slot[s].task
<1>2. t \in Tasks /\ prefix \in [Tasks -> {"none", "payload", "completed"}]
  BY DEF RampInv, Typed, RunnersGood, RunnerSucceeds
<1>3. /\ prefix' \in [Tasks -> {"none", "payload", "completed"}]
      /\ prefix'[t] = "completed" /\ \A u \in Tasks : u # t => prefix'[u] = prefix[u]
  BY <1>2 DEF RunnerSucceeds
<1>4. \A o \in Slots : slot[o].runner = "writing" /\ o # s => slot[o].task \in Tasks /\ slot[o].task # t
  BY <1>2 DEF RampInv, RunnersGood, RunnerSucceeds
<1>5. slot[s].launch.task # 0 => slot[s].launch.attempts > 0
  BY DEF RampInv, RunnersGood
<1>6. RunnersGood'
  BY <1>1, <1>2, <1>3, <1>4, <1>5 DEF RampInv, RunnersGood
<1>7. Marked \subseteq Marked'
  BY <1>2, <1>3 DEF Marked
<1>8. credential' \in BOOLEAN /\ faults' \in 0..MaxFaults
  BY DEF RunnerSucceeds, RampInv, Typed
<1> QED
  BY <1>1, <1>3, <1>6, <1>7, <1>8, LaneStays DEF RunnerSucceeds

\* A runner that fails shows no result and writes no more.
LEMMA RunnerEndsKeeps ==
  ASSUME RampInv, NEW s \in Slots, NEW class \in Classes, Becomes(s, "failed", class),
         slot[s].runner # "idle", UNCHANGED <<record, alarm, credential, repair, forgotten>>, faults' \in 0..MaxFaults,
         \/ UNCHANGED prefix
         \/ /\ slot[s].runner = "writing"
            /\ \E left \in {"payload", "completed"} : prefix' = [prefix EXCEPT ![slot[s].task] = left]
  PROVE  RampInv'
<1>1. /\ slot' \in [Slots -> Containers]
      /\ slot'[s].runner = "failed" /\ slot'[s].task = slot[s].task
      /\ slot'[s].launch = slot[s].launch /\ \A o \in Slots : o # s => slot'[o] = slot[o]
  BY BecomesTyped
<1> DEFINE t == slot[s].task
<1>2. /\ t \in Tasks /\ prefix \in [Tasks -> {"none", "payload", "completed"}]
      /\ slot[s].runner = "writing" => prefix[t] = "payload"
  BY DEF RampInv, Typed, RunnersGood
<1>3. /\ prefix' \in [Tasks -> {"none", "payload", "completed"}]
      /\ \A u \in Tasks : u # t => prefix'[u] = prefix[u]
      /\ prefix'[t] # prefix[t] => slot[s].runner = "writing"
  BY <1>2
<1>4. \A o \in Slots : slot[o].runner = "writing" /\ o # s /\ slot[s].runner = "writing"
        => slot[o].task \in Tasks /\ slot[o].task # t
  BY DEF RampInv, RunnersGood
<1>5. \A o \in Slots : slot[o].runner = "succeeded" /\ slot[s].runner = "writing" => slot[o].task # t
  BY <1>2 DEF RampInv, RunnersGood
<1>6. RunnersGood'
  BY <1>1, <1>2, <1>3, <1>4, <1>5 DEF RampInv, RunnersGood
<1>7. Marked \subseteq Marked'
  BY <1>2, <1>3 DEF Marked
<1>8. credential' \in BOOLEAN
  BY DEF RampInv, Typed
<1> QED
  BY <1>1, <1>3, <1>6, <1>7, <1>8, LaneStays

LEMMA RunnerFindsPayloadKeeps ==
  ASSUME RampInv, NEW s \in Slots, RunnerFindsPayload(s) PROVE RampInv'
<1>1. faults' \in 0..MaxFaults
  BY DEF RunnerFindsPayload, RampInv, Typed
<1> QED
  BY <1>1, RunnerEndsKeeps DEF RunnerFindsPayload, Classes

LEMMA RunnerFailsKeeps ==
  ASSUME RampInv, NEW s \in Slots, RunnerFails(s) PROVE RampInv'
<1>1. faults' \in 0..MaxFaults
  BY FaultIsTyped DEF RunnerFails, RampInv
<1>2. slot[s].runner # "idle"
  BY DEF RunnerFails, Working
<1> QED
  BY <1>1, <1>2, RunnerEndsKeeps DEF RunnerFails, Classes

\* A container that stops, or starts again by itself, has a runner without a task.
LEMMA RunnerGoneKeeps ==
  ASSUME RampInv, NEW s \in Slots, NEW c \in Containers, slot' = [slot EXCEPT ![s] = c],
         c.runner = "idle", c.launch = slot[s].launch, Fault(TRUE),
         UNCHANGED <<record, alarm, prefix, credential, repair, forgotten>>
  PROVE  RampInv'
<1>1. c.launch.task # 0 => c.launch.attempts > 0
  BY DEF RampInv, RunnersGood
<1>2. slot' \in [Slots -> Containers] /\ RunnersGood'
  BY <1>1, OneContainer
<1>3. /\ credential' \in BOOLEAN /\ prefix' \in [Tasks -> {"none", "payload", "completed"}]
      /\ Marked \subseteq Marked'
  BY DEF RampInv, Typed, Marked
<1>4. faults' \in 0..MaxFaults
  BY FaultIsTyped DEF RampInv
<1> QED
  BY <1>2, <1>3, <1>4, LaneStays

LEMMA ContainerStopsKeeps ==
  ASSUME RampInv, NEW s \in Slots, ContainerStops(s) PROVE RampInv'
<1>1. slot \in [Slots -> Containers] /\ slot[s] \in Containers
  BY DEF RampInv, Typed
<1>2. PICK class \in {"none", "retryable", "capacity", "fatal"} :
        slot' = [slot EXCEPT ![s].running = FALSE, ![s].runner = "idle",
                             ![s].task = 0, ![s].failure = "none",
                             ![s].mishap = [task |-> slot[s].launch.task, class |-> class]]
  BY DEF ContainerStops
<1> DEFINE mishap == [task |-> slot[s].launch.task, class |-> class]
           c == [slot[s] EXCEPT !.running = FALSE, !.runner = "idle", !.task = 0,
                                !.failure = "none", !.mishap = mishap]
<1>3. mishap \in [task : Tasks \cup {0}, class : Classes] /\ "none" \in Classes
  BY <1>1 DEF Containers, Classes
<1>4. slot' = [slot EXCEPT ![s] = c]
  BY <1>1, <1>2
<1> HIDE DEF mishap
<1>5. c \in Containers /\ c.runner = "idle" /\ c.launch = slot[s].launch
  BY <1>1, <1>3 DEF Containers
<1> HIDE DEF c
<1> QED
  BY <1>4, <1>5, RunnerGoneKeeps DEF ContainerStops

LEMMA ContainerRestartsKeeps ==
  ASSUME RampInv, NEW s \in Slots, ContainerRestarts(s) PROVE RampInv'
<1>1. slot \in [Slots -> Containers] /\ slot[s] \in Containers
  BY DEF RampInv, Typed
<1> DEFINE c == [slot[s] EXCEPT !.runner = "idle", !.task = 0, !.failure = "none",
                                !.mishap = FreshSlot.mishap]
<1>2. FreshSlot.mishap \in [task : Tasks \cup {0}, class : Classes] /\ "none" \in Classes
  BY DEF FreshSlot, Classes
<1>3. slot' = [slot EXCEPT ![s] = c]
  BY <1>1 DEF ContainerRestarts
<1>4. c \in Containers /\ c.runner = "idle" /\ c.launch = slot[s].launch
  BY <1>1, <1>2 DEF Containers
<1> HIDE DEF c
<1> QED
  BY <1>3, <1>4, RunnerGoneKeeps DEF ContainerRestarts

LEMMA CoordinatorCrashesKeeps ==
  ASSUME RampInv, CoordinatorCrashes PROVE RampInv'
<1>0. slot' \in [Slots -> Containers] /\ RunnersGood'
  BY CallIsLeft DEF CoordinatorCrashes
<1>1. Typed'
  BY <1>0, AsleepIsTyped, FaultIsTyped DEF CoordinatorCrashes, RampInv, Typed
<1>2. Good(record)'
  BY DEF CoordinatorCrashes, RampInv, Good, Spread, Ended, Apart, SlotsOf, Retrying, Marked
<1>3. AlarmGood'
  BY DEF CoordinatorCrashes, AlarmGood, Asleep
<1>4. RepairGood'
  BY DEF CoordinatorCrashes, NoRepair, RepairGood
<1> QED
  BY <1>0, <1>1, <1>2, <1>3, <1>4 DEF RampInv

LEMMA CredentialElapsesKeeps ==
  ASSUME RampInv, CredentialElapses PROVE RampInv'
<1>1. /\ credential' \in BOOLEAN /\ prefix' \in [Tasks -> {"none", "payload", "completed"}]
      /\ Marked \subseteq Marked' /\ faults' \in 0..MaxFaults
      /\ slot' \in [Slots -> Containers] /\ RunnersGood'
  BY RunnersStay DEF CredentialElapses, RampInv, Typed, Marked
<1> QED
  BY <1>1, LaneStays DEF CredentialElapses

\* The record a repair writes.
Repaired == [repair.seen EXCEPT !.state = "recoverable", !.inFlight = <<>>,
                                !.quarantined = @ \cup TasksOf(repair.seen.inFlight)]

LEMMA RepairedFields ==
  ASSUME RampInv, repair.pc = "reading"
  PROVE  /\ repair.seen \in Records /\ Repaired \in Records
         /\ Repaired.state = "recoverable" /\ Repaired.inFlight = <<>>
         /\ Repaired.quarantined = repair.seen.quarantined \cup TasksOf(repair.seen.inFlight)
         /\ Repaired.retry = NoRetry /\ Repaired.next = repair.seen.next
         /\ Repaired.completed = repair.seen.completed /\ Repaired.terminal = 0
         /\ repair.seen.terminal = 0 /\ repair.seen.next > TaskCount
         /\ repair.seen.retry = NoRetry
<1> DEFINE r == repair.seen
           lost == TasksOf(r.inFlight)
           new == [r EXCEPT !.state = "recoverable", !.inFlight = <<>>,
                            !.quarantined = @ \cup lost]
<1>1. r \in Records /\ r.inFlight \in Seq(Entries)
  BY RecordFields DEF RampInv, Typed, Repairs
<1>2. lost \in SUBSET Tasks /\ <<>> \in Seq(Entries)
  <2>1. \A i \in DOMAIN r.inFlight : r.inFlight[i] \in Entries
    BY <1>1
  <2> QED
    BY <2>1 DEF TasksOf, Entries
<1>3. r.terminal = 0 /\ r.next > TaskCount /\ r.retry = NoRetry
  BY DEF RampInv, RepairGood, Good, Ended
<1> HIDE DEF lost, r
<1>4. /\ new \in Records /\ new.state = "recoverable" /\ new.inFlight = <<>>
      /\ new.retry = r.retry /\ new.next = r.next /\ new.completed = r.completed
      /\ new.terminal = r.terminal /\ new.quarantined = r.quarantined \cup lost
  BY <1>1, <1>2, RecordFields DEF Records
<1> QED
  BY <1>1, <1>3, <1>4 DEF Repaired, r, lost

LEMMA RepairKeeps ==
  ASSUME RampInv, Repair PROVE RampInv'
<1>1. CASE RepairReads \/ \E i \in Slots : RepairAsks(i)
  <2>1. UNCHANGED <<record, alarm, slot, prefix, credential, forgotten>>
    BY <1>1 DEF RepairReads, RepairAsks
  <2>2. faults' \in 0..MaxFaults
    BY <1>1, FaultIsTyped DEF RepairReads, RepairAsks, Stale, RampInv, Typed
  <2>3. repair' \in Repairs /\ RepairGood'
    <3>1. CASE RepairReads
      <4>1. repair'.pc = "reading" /\ repair'.seen = record
        BY <3>1 DEF RepairReads
      <4>2. DOMAIN record.inFlight \subseteq Slots
        <5>1. record.inFlight \in Seq(Entries) /\ Apart(record.inFlight)
          BY RecordFields DEF RampInv, Typed, Good, Spread
        <5>2. Len(record.inFlight) <= MaxConcurrent /\ Len(record.inFlight) \in Nat
          BY <5>1, ApartFits
        <5> QED
          BY <5>1, <5>2 DEF Slots
      <4>3. repair' \in Repairs
        BY <3>1, <4>2 DEF RepairReads, Repairs, RampInv, Typed
      <4>4. RepairGood'
        BY <2>1, <3>1, <4>1 DEF RepairReads, RepairGood, RampInv, Good, Spread, Ended, Apart,
           SlotsOf, Retrying, Marked
      <4> QED
        BY <4>3, <4>4
    <3>2. ASSUME NEW i \in Slots, RepairAsks(i) PROVE repair' \in Repairs /\ RepairGood'
      <4>1. CASE repair' = NoRepair
        BY <4>1, AsleepIsTyped DEF NoRepair, RepairGood
      <4>2. CASE repair' = [repair EXCEPT !.left = @ \ {i}]
        <5>1. repair' \in Repairs /\ repair'.pc = repair.pc /\ repair'.seen = repair.seen
          BY <4>2 DEF RampInv, Typed, Repairs
        <5> QED
          BY <2>1, <5>1 DEF RepairGood, RampInv, Good, Spread, Ended, Apart, SlotsOf, Retrying,
             Marked
      <4> QED
        BY <3>2, <4>1, <4>2 DEF RepairAsks
    <3> QED
      BY <1>1, <3>1, <3>2
  <2>4. Typed'
    BY <2>1, <2>2, <2>3 DEF RampInv, Typed
  <2>5. Good(record)' /\ AlarmGood' /\ RunnersGood'
    BY <2>1 DEF RampInv, AlarmGood, RunnersGood, Good, Spread, Ended, Apart, SlotsOf, Retrying,
       Marked
  <2> QED
    BY <2>3, <2>4, <2>5 DEF RampInv
<1>2. CASE RepairWrites
  <2>1. /\ repair.pc = "reading" /\ record' = Repaired /\ repair' = NoRepair
        /\ UNCHANGED <<alarm, slot, prefix, credential, faults, forgotten>>
    BY <1>2 DEF RepairWrites, Repaired
  <2>2. /\ Repaired \in Records /\ Repaired.state = "recoverable" /\ Repaired.inFlight = <<>>
        /\ Repaired.retry = NoRetry /\ Repaired.next > TaskCount /\ Repaired.terminal = 0
        /\ Repaired.completed = repair.seen.completed
    BY <2>1, RepairedFields
  <2>3. repair.seen.completed \subseteq Marked
    BY <2>1 DEF RampInv, RepairGood, Good
  <2> HIDE DEF Repaired
  <2>4. Typed'
    BY <2>1, <2>2, AsleepIsTyped DEF RampInv, Typed
  <2>5. Good(record)'
    BY <2>1, <2>2, <2>3 DEF Good, Spread, Ended, Apart, Retrying, NoRetry, Marked
  <2>6. AlarmGood' /\ RunnersGood'
    BY <2>1 DEF RampInv, AlarmGood, RunnersGood, Good, Spread, Ended, Apart, SlotsOf, Retrying,
       Marked
  <2>7. RepairGood'
    BY <2>1 DEF RepairGood, NoRepair
  <2> QED
    BY <2>4, <2>5, <2>6, <2>7 DEF RampInv
<1> QED
  BY <1>1, <1>2 DEF Repair

LEMMA RampStutters ==
  ASSUME RampInv, UNCHANGED vars PROVE RampInv'
<1>1. /\ credential' \in BOOLEAN /\ prefix' \in [Tasks -> {"none", "payload", "completed"}]
      /\ Marked \subseteq Marked' /\ faults' \in 0..MaxFaults
      /\ slot' \in [Slots -> Containers] /\ RunnersGood'
  BY RunnersStay DEF vars, RampInv, Typed, Marked
<1> QED
  BY <1>1, LaneStays DEF vars

LEMMA RampStep == RampInv /\ [Next]_vars => RampInv'
<1> SUFFICES ASSUME RampInv, [Next]_vars PROVE RampInv'
  OBVIOUS
<1>1. CASE Begin
  BY <1>1, BeginKeeps
<1>2. CASE Alarm
  BY <1>2, AlarmFiresKeeps, PollUnreachableKeeps, PollFailureKeeps, PollQuietKeeps,
     StartReconciledKeeps, StartDeferredKeeps, StartBeginsKeeps, StartThrowsKeeps DEF Alarm
<1>3. CASE CoordinatorCrashes \/ CredentialElapses \/ Repair
  BY <1>3, CoordinatorCrashesKeeps, CredentialElapsesKeeps, RepairKeeps
<1>4. ASSUME NEW s \in Slots, Container(s) PROVE RampInv'
  <2>1. ASSUME NEW t \in Tasks, AbandonedStart(s, t) \/ StartRuns(s, t) \/ StartFails(s, t)
        PROVE  RampInv'
    BY <2>1, AbandonedStartKeeps, StartRunsKeeps, StartFailsKeeps
  <2> QED
    BY <1>4, <2>1, PendingAgesKeeps, RunnerWritesKeeps, RunnerSucceedsKeeps,
       RunnerFindsPayloadKeeps, RunnerFailsKeeps, ContainerStopsKeeps, ContainerRestartsKeeps
       DEF Container
<1>5. CASE UNCHANGED vars
  BY <1>5, RampStutters
<1> QED
  BY <1>1, <1>2, <1>3, <1>4, <1>5 DEF Next

LEMMA RampAlways == Spec => []RampInv
BY RampInit, RampStep, PTL DEF Spec

-----------------------------------------------------------------------------
(***************************************************************************)
(* Theorems of every lane                                                  *)
(***************************************************************************)
\* The fields of the record, the alarm and the containers stay what they are, however many
\* faults there are; no more tasks are in flight than the lane has slots.
THEOREM TypeCorrect == Spec => []TypeOK
<1>1. RampInv => TypeOK
  BY RecordFields, ApartFits DEF RampInv, Typed, TypeOK, Good, Spread
<1> QED
  BY <1>1, RampAlways, PTL

\* Tasks in flight, and the one that waits for its retry, have slots of their own: the pool
\* is never oversubscribed, whatever calls are lost or late and whichever of the coordinator
\* and the containers restart.
THEOREM PoolNeverOversubscribed == Spec => []SlotsDistinct
<1>1. RampInv => SlotsDistinct
  BY DEF RampInv, Good, Spread, Apart, SlotsDistinct
<1> QED
  BY <1>1, RampAlways, PTL

\* What a lane of any number of slots counts as completed has its completion marker in R2.
THEOREM CountedHasMarker == Spec => []CountedIsMarked
<1>1. RampInv => CountedIsMarked
  BY DEF RampInv, Good, CountedIsMarked
<1> QED
  BY <1>1, RampAlways, PTL

-----------------------------------------------------------------------------
(***************************************************************************)
(* No task is lost but in one way.  What a record or the forgotten tasks   *)
(* account for is a stretch of tasks from the first one on, which reaches  *)
(* to the next one: a retry never waits beyond it, so that the next task   *)
(* that follows from a late start leaves no task out.                      *)
(***************************************************************************)
Whole(r, left) ==
  /\ 1..(r.next - 1) \subseteq Accounts(r) \cup left
  /\ \A t \in Accounts(r) \cup left : 1..(t - 1) \subseteq Accounts(r) \cup left

\* A pass takes tasks from those in flight, counts some of them, and leaves open at most
\* the one it ends at.
Sorted(r, completed, remaining, open) ==
  /\ TasksOf(remaining) \cup completed \cup open = TasksOf(r.inFlight) \cup r.completed
  /\ TasksOf(remaining) \cup open \subseteq TasksOf(r.inFlight)

Deciding ==
  /\ alarm.task = (IF Retrying(alarm.seen) THEN alarm.seen.retry.task ELSE alarm.seen.next)
  /\ Sorted(alarm.seen, alarm.completed, alarm.remaining, {})

LaneInv ==
  /\ Whole(record, forgotten) /\ (record.state = "none" => forgotten = {})
  /\ alarm.pc # "idle" =>
       /\ Whole(alarm.seen, forgotten)
       /\ record.state # "none" /\ (record.state = "launching" => record = alarm.seen)
  /\ alarm.pc \in {"starting", "launched"} => Deciding
  /\ repair.pc = "reading" =>
       /\ record.state # "none"
       /\ Tasks \subseteq Accounts(repair.seen) \cup forgotten

\* What a record is followed by: the next task moves back in one case only, and no task
\* that was settled is taken up.
Onward(r, new) ==
  /\ \A t \in 1..(r.next - 1) : t \in Undecided(new) => t \in Undecided(r)
  /\ new.next >= r.next \/ (RestartsPassed(r) /\ new.next = r.retry.task + 1)
Follows(r, new, left) == Whole(new, left) /\ Onward(r, new)

\* What a record that an alarm writes has that the others do not say.
LEMMA NextIsNatural ==
  ASSUME NEW r \in Records
  PROVE  r.next \in 1..(TaskCount + 1)
         /\ DOMAIN r = {"state", "next", "inFlight", "retry", "completed", "quarantined", "terminal"}
BY RecordFields DEF Records

\* A stretch of tasks stays one when the task at its end is added, or one it has.
LEMMA StaysWhole ==
  ASSUME NEW r \in Records, NEW left, Whole(r, left), NEW new, NEW more,
         NEW u \in Tasks, u \in Accounts(r) \cup left \cup {r.next},
         Accounts(new) \cup more \cup {0} = Accounts(r) \cup left \cup {u, 0},
         new.next \in Nat, new.next <= r.next \/ new.next = u + 1
  PROVE  Whole(new, more)
<1> DEFINE K == Accounts(r) \cup left  L == Accounts(new) \cup more
<1>1. r.next \in Nat /\ u \in Nat
  BY NextIsNatural DEF Tasks
<1>2. 1..(r.next - 1) \subseteq K /\ \A t \in K : 1..(t - 1) \subseteq K
  BY DEF Whole
<1>3. 1..(u - 1) \subseteq K
  BY <1>1, <1>2
<1>4. \A n : n # 0 => (n \in L <=> n \in K \/ n = u)
  OBVIOUS
<1> HIDE DEF K, L
<1>5. 1..(new.next - 1) \subseteq L
  <2> SUFFICES ASSUME NEW n \in 1..(new.next - 1) PROVE n \in L
    OBVIOUS
  <2>1. n \in Nat /\ n # 0
    BY <1>1
  <2>2. n \in 1..(r.next - 1) \/ n \in 1..(u - 1) \/ n = u
    BY <1>1, <2>1
  <2> QED
    BY <1>2, <1>3, <1>4, <2>1, <2>2
<1>6. ASSUME NEW t \in L PROVE 1..(t - 1) \subseteq L
  <2>1. CASE t = 0
    <3>1. 1..(t - 1) = {}
      BY <2>1
    <3> QED
      BY <3>1
  <2>2. CASE t # 0
    <3>1. t \in K \/ t = u
      BY <1>4, <1>6, <2>2
    <3>2. 1..(t - 1) \subseteq K
      BY <1>2, <1>3, <3>1
    <3>3. \A n \in 1..(t - 1) : n # 0
      OBVIOUS
    <3> QED
      BY <1>4, <3>2, <3>3
  <2> QED
    BY <2>1, <2>2
<1> QED
  BY <1>5, <1>6 DEF Whole, K, L

\* The same when no task is added.
LEMMA KeepsWhole ==
  ASSUME NEW r \in Records, NEW left, Whole(r, left), NEW new, NEW more,
         Accounts(new) \cup more \cup {0} = Accounts(r) \cup left \cup {0}, new.next = r.next
  PROVE  Whole(new, more)
<1> DEFINE K == Accounts(r) \cup left  L == Accounts(new) \cup more
<1>1. 1..(r.next - 1) \subseteq K /\ \A t \in K : 1..(t - 1) \subseteq K
  BY DEF Whole
<1>2. \A n : n # 0 => (n \in L <=> n \in K)
  OBVIOUS
<1> HIDE DEF K, L
<1>3. 1..(new.next - 1) \subseteq L
  <2>1. \A n \in 1..(r.next - 1) : n # 0
    BY NextIsNatural
  <2> QED
    BY <1>1, <1>2, <2>1
<1>4. ASSUME NEW t \in L PROVE 1..(t - 1) \subseteq L
  <2>1. CASE t = 0
    <3>1. 1..(t - 1) = {}
      BY <2>1
    <3> QED
      BY <3>1
  <2>2. CASE t # 0
    <3>1. \A n \in 1..(t - 1) : n # 0
      OBVIOUS
    <3> QED
      BY <1>1, <1>2, <1>4, <2>2, <3>1
  <2> QED
    BY <2>1, <2>2
<1> QED
  BY <1>3, <1>4 DEF Whole, K, L

-----------------------------------------------------------------------------
(***************************************************************************)
(* What the passes take from the tasks in flight                           *)
(***************************************************************************)
\* The tasks a pass has found to have succeeded.
LEMMA CountedTasks ==
  ASSUME NEW s
  PROVE  Counted(s) = alarm.seen.completed
                       \cup {s[j].task : j \in {k \in DOMAIN s : Sees(s[k]) = "succeeded"}}
BY DEF Counted

LEMMA PassSorts ==
  ASSUME RampInv, alarm.pc # "idle", NEW i \in DOMAIN alarm.seen.inFlight,
         \A j \in 1..(i - 1) : Quiet(alarm.seen.inFlight[j])
  PROVE  LET r == alarm.seen
             part(j) == StillWorking(Before(i)) \o From(j)
         IN /\ Sorted(r, Counted(Before(i)), part(i), {})
            /\ Sorted(r, Counted(Before(i)), part(i + 1), {r.inFlight[i].task})
<1> DEFINE list == alarm.seen.inFlight
           before == SubSeq(list, 1, i - 1)
           part(j) == StillWorking(before) \o SubSeq(list, j, Len(list))
           W == {m \in 1..(i - 1) : IsWorking(list[m])}
           D == {m \in 1..(i - 1) : Sees(list[m]) = "succeeded"}
           done == {list[k].task : k \in D}
<1>1. list \in Seq(Entries) /\ i \in DOMAIN list /\ i \in 1..Len(list) /\ Len(list) \in Nat
  BY AlarmIsTyped DEF RampInv
<1>2. TasksOf(part(i)) = PassTasks(list, i, i) /\ TasksOf(part(i + 1)) = PassTasks(list, i, i + 1)
  <2>1. i \in {i, i + 1} /\ i + 1 \in {i, i + 1}
    OBVIOUS
  <2> HIDE DEF list
  <2> QED
    BY <1>1, <2>1, PassKeeps
<1>3. Counted(before) = alarm.seen.completed \cup done
  <2>1. DOMAIN before = 1..(i - 1) /\ \A k \in 1..(i - 1) : before[k] = list[k]
    BY <1>1
  <2> HIDE DEF before, list
  <2>2. {k \in DOMAIN before : Sees(before[k]) = "succeeded"} = D
    BY <2>1
  <2>3. {before[j].task : j \in {k \in DOMAIN before : Sees(before[k]) = "succeeded"}} = done
    BY <2>1, <2>2
  <2> QED
    BY <2>3, CountedTasks
<1>4. \A k \in 1..(i - 1) : k \in W \/ k \in D
  BY DEF Quiet, IsWorking
<1>5. /\ DOMAIN list = 1..Len(list)
      /\ \A k \in 1..Len(list) : k \in 1..(i - 1) \/ k = i \/ k \in (i + 1)..Len(list)
      /\ \A k \in 1..(i - 1) : k \in 1..Len(list)
      /\ \A k \in (i + 1)..Len(list) : k \in 1..Len(list) /\ k \in i..Len(list)
      /\ \A k \in i..Len(list) : k \in 1..Len(list)
      /\ i \in i..Len(list)
  BY <1>1
<1> HIDE DEF list, part, before
<1>6. TasksOf(list) = {list[k].task : k \in 1..Len(list)}
  BY <1>5 DEF TasksOf
<1>7. PassTasks(list, i, i) \cup done = TasksOf(list) /\ PassTasks(list, i, i) \subseteq TasksOf(list)
  BY <1>4, <1>5, <1>6 DEF PassTasks
<1>8. /\ PassTasks(list, i, i + 1) \cup done \cup {list[i].task} = TasksOf(list)
      /\ PassTasks(list, i, i + 1) \cup {list[i].task} \subseteq TasksOf(list)
  BY <1>4, <1>5, <1>6 DEF PassTasks
<1> QED
  BY <1>2, <1>3, <1>7, <1>8 DEF Sorted, part, before, list, Before, From

LEMMA QuietSorts ==
  ASSUME RampInv, alarm.pc # "idle",
         \A i \in DOMAIN alarm.seen.inFlight : Quiet(alarm.seen.inFlight[i])
  PROVE  Sorted(alarm.seen, Counted(alarm.seen.inFlight), StillWorking(alarm.seen.inFlight), {})
<1> DEFINE list == alarm.seen.inFlight
           done == {list[j].task : j \in {k \in DOMAIN list : Sees(list[k]) = "succeeded"}}
<1>1. list \in Seq(Entries)
  BY AlarmIsTyped DEF RampInv
<1>2. TasksOf(StillWorking(list)) = {list[k].task : k \in {m \in DOMAIN list : IsWorking(list[m])}}
  <2> HIDE DEF list
  <2> QED
    BY <1>1, StillWorkingKeeps
<1>3. TasksOf(StillWorking(list)) \cup done = TasksOf(list)
      /\ TasksOf(StillWorking(list)) \subseteq TasksOf(list)
  BY <1>2 DEF TasksOf, Quiet, IsWorking
<1>4. Counted(list) = alarm.seen.completed \cup done
  BY CountedTasks
<1> QED
  BY <1>3, <1>4 DEF Sorted

-----------------------------------------------------------------------------
(***************************************************************************)
(* What the records that an alarm writes keep                              *)
(***************************************************************************)
\* A retry that waits is one of a task.
LEMMA WaitingIsTask ==
  ASSUME NEW r \in Records
  PROVE  Waiting(r) \subseteq Tasks
<1>1. r.retry \in Retries
  BY RecordFields
<1> QED
  BY <1>1 DEF Waiting, Retrying, Retries, NoRetry

\* A record that keeps its tasks, settles the open one, and lets its retry go follows, if
\* the task of that retry is forgotten or the open one.
LEMMA KeptFollows ==
  ASSUME NEW r \in Records, NEW left, Whole(r, left), r.terminal = 0,
         NEW new, NEW more, NEW completed, NEW remaining, NEW open,
         Sorted(r, completed, remaining, open),
         new.next = r.next, new.completed = completed, new.inFlight = remaining,
         r.quarantined \subseteq new.quarantined, new.quarantined \subseteq r.quarantined \cup open,
         new.terminal \in {0} \cup open,
         Waiting(new) \subseteq Waiting(r) \cup open,
         open \subseteq Waiting(new) \cup new.quarantined \cup {new.terminal},
         left \subseteq more, more \subseteq left \cup Waiting(r),
         Waiting(r) \subseteq Waiting(new) \cup more \cup open
  PROVE  Follows(r, new, more)
<1>1. r.next \in Nat
  BY NextIsNatural
<1>2. Undecided(new) \subseteq Undecided(r)
  BY DEF Undecided, Sorted
<1>3. Onward(r, new)
  BY <1>1, <1>2 DEF Onward
<1>4. Accounts(new) \cup more \cup {0} = Accounts(r) \cup left \cup {0}
  BY DEF Accounts, Sorted
<1>5. Whole(new, more)
  BY <1>4, KeepsWhole
<1> QED
  BY <1>3, <1>5 DEF Follows

\* What a start that is under way is for: the retry that waits, or the next task.
LEMMA StartIsFor ==
  ASSUME RampInv, LaneInv, alarm.pc \in {"starting", "launched"}
  PROVE  /\ alarm.seen \in Records /\ Whole(alarm.seen, forgotten)
         /\ alarm.seen.terminal = 0 /\ alarm.task \in Tasks
         /\ Sorted(alarm.seen, alarm.completed, alarm.remaining, {})
         /\ alarm.task \in Accounts(alarm.seen) \cup forgotten \cup {alarm.seen.next}
         /\ Waiting(alarm.seen) \subseteq {alarm.task}
         /\ alarm.task \in Waiting(alarm.seen) \/ alarm.task = alarm.seen.next
<1>1. /\ Polled(alarm.seen, alarm.completed, alarm.remaining) /\ alarm.task \in Tasks
      /\ alarm.pc # "idle"
  BY StartPolled
<1>2. Whole(alarm.seen, forgotten) /\ Deciding
  BY <1>1 DEF LaneInv
<1>3. alarm.seen \in Records /\ alarm.seen.terminal = 0
  BY <1>1 DEF Polled, Good, Ended
<1> QED
  BY <1>1, <1>2, <1>3 DEF Deciding, Waiting, Accounts

LEMMA AcceptedFollows ==
  ASSUME RampInv, LaneInv, alarm.pc \in {"starting", "launched"}, NEW attempts \in Nat \ {0}
  PROVE  Follows(alarm.seen, Accepted(alarm.seen, attempts), forgotten)
<1> DEFINE r == alarm.seen
           u == alarm.task
           new == Accepted(r, attempts)
           entry == [task |-> u, slot |-> alarm.slot, attempts |-> attempts]
<1>1. /\ r \in Records /\ Whole(r, forgotten) /\ r.terminal = 0 /\ u \in Tasks
      /\ Sorted(r, alarm.completed, alarm.remaining, {})
      /\ u \in Accounts(r) \cup forgotten \cup {r.next}
      /\ Waiting(r) \subseteq {u} /\ (u \in Waiting(r) \/ u = r.next)
  BY StartIsFor
<1>2. entry \in Entries /\ entry.task = u /\ alarm.remaining \in Seq(Entries)
  BY StartPolled DEF Entries, Polled
<1>3. /\ new.inFlight = Append(alarm.remaining, entry) /\ new.retry = NoRetry
      /\ new.next = (IF r.retry.kind = "task" THEN r.next ELSE u + 1)
      /\ new.completed = alarm.completed /\ new.quarantined = r.quarantined
      /\ new.terminal = r.terminal
  BY <1>1, NextIsNatural DEF Accepted
<1>4. r.next \in Nat /\ u \in Nat
  BY <1>1, NextIsNatural DEF Tasks
<1> HIDE DEF new, entry, r, u
<1>5. TasksOf(new.inFlight) = TasksOf(alarm.remaining) \cup {u}
  BY <1>2, <1>3, AppendedEntry
<1>6. Waiting(new) = {}
  BY <1>3 DEF Waiting, Retrying, NoRetry
<1>7. Accounts(new) \cup forgotten \cup {0} = Accounts(r) \cup forgotten \cup {u, 0}
  BY <1>1, <1>3, <1>5, <1>6 DEF Accounts, Sorted
<1>8. Whole(new, forgotten)
  <2>1. new.next \in Nat /\ (new.next <= r.next \/ new.next = u + 1)
    BY <1>3, <1>4
  <2> QED
    BY <1>1, <1>7, <2>1, StaysWhole
<1>9. ASSUME NEW t \in 1..(r.next - 1), t \in Undecided(new) PROVE t \in Undecided(r)
  <2>1. t \in TasksOf(alarm.remaining) \/ t = u
    BY <1>5, <1>6, <1>9 DEF Undecided
  <2>2. t # r.next
    BY <1>4
  <2> QED
    BY <1>1, <2>1, <2>2 DEF Undecided, Sorted
<1>10. new.next >= r.next \/ (RestartsPassed(r) /\ new.next = r.retry.task + 1)
  <2>1. CASE r.retry.kind = "task"
    BY <1>3, <1>4, <2>1
  <2>2. CASE r.retry.kind = "start"
    <3>1. u = r.retry.task
      BY <1>1, <2>2 DEF Waiting, Retrying
    <3> QED
      BY <1>3, <1>4, <2>2, <3>1 DEF RestartsPassed
  <2>3. CASE r.retry.kind \notin {"task", "start"}
    <3>1. u = r.next
      BY <1>1, <2>3 DEF Waiting, Retrying
    <3> QED
      BY <1>3, <1>4, <2>3, <3>1
  <2> QED
    BY <2>1, <2>2, <2>3
<1> QED
  BY <1>8, <1>9, <1>10 DEF Follows, Onward, new, r

\* The task of a start that came to nothing stays on record: it waits for its retry, is
\* left to recovery, or ends the lane.
LEMMA HeldBackFollows ==
  ASSUME RampInv, LaneInv, NEW r, r = alarm.seen, r \in Records, Whole(r, forgotten),
         r.terminal = 0, NEW u \in Tasks, NEW completed, NEW remaining,
         Sorted(r, completed, remaining, {}),
         Waiting(r) \subseteq {u}, u \in Waiting(r) \/ u = r.next,
         NEW new, new.next = r.next, new.completed = completed, new.inFlight = remaining,
         r.quarantined \subseteq new.quarantined,
         new.quarantined \subseteq r.quarantined \cup {u},
         new.terminal \in {0, u}, Waiting(new) \subseteq {u},
         u \in Waiting(new) \cup new.quarantined \cup {new.terminal}
  PROVE  Follows(r, new, forgotten)
<1>1. r.next \in Nat /\ u \in Nat
  BY NextIsNatural DEF Tasks
<1>2. Accounts(new) \cup forgotten \cup {0} = Accounts(r) \cup forgotten \cup {u, 0}
  BY DEF Accounts, Sorted
<1>3. Whole(new, forgotten)
  <2>1. u \in Accounts(r) \cup forgotten \cup {r.next} /\ new.next \in Nat /\ new.next <= r.next
    BY <1>1 DEF Accounts
  <2> QED
    BY <1>2, <2>1, StaysWhole
<1>4. ASSUME NEW t \in 1..(r.next - 1), t \in Undecided(new) PROVE t \in Undecided(r)
  <2>1. t # r.next
    BY <1>1
  <2> QED
    BY <1>4, <2>1 DEF Undecided, Sorted
<1> QED
  BY <1>1, <1>3, <1>4 DEF Follows, Onward

LEMMA RefusedFollows ==
  ASSUME RampInv, LaneInv, alarm.pc \in {"starting", "launched"}, NEW attempts \in Nat
  PROVE  Follows(alarm.seen, Refused(alarm.seen, attempts), forgotten)
<1> DEFINE r == alarm.seen
           u == alarm.task
           new == Refused(r, attempts)
<1>1. /\ r \in Records /\ Whole(r, forgotten) /\ r.terminal = 0 /\ u \in Tasks
      /\ Sorted(r, alarm.completed, alarm.remaining, {})
      /\ Waiting(r) \subseteq {u} /\ (u \in Waiting(r) \/ u = r.next)
  BY StartIsFor
<1>2. /\ new.inFlight = alarm.remaining /\ new.next = r.next /\ new.completed = alarm.completed
      /\ new.terminal = r.terminal
      /\ \/ new.retry = NoRetry /\ new.quarantined = r.quarantined \cup {u}
         \/ /\ new.retry.kind = "start" /\ new.retry.task = u
            /\ new.quarantined = r.quarantined
  <2>1. CASE attempts > MaxAttempts
    BY <1>1, <2>1, NextIsNatural DEF Refused, Quarantine
  <2>2. CASE ~(attempts > MaxAttempts)
    BY <1>1, <2>2, NextIsNatural DEF Refused
  <2> QED
    BY <2>1, <2>2
<1> HIDE DEF new
<1>3. /\ Waiting(new) \subseteq {u} /\ u \in Waiting(new) \cup new.quarantined
      /\ r.quarantined \subseteq new.quarantined
      /\ new.quarantined \subseteq r.quarantined \cup {u}
  BY <1>2 DEF Waiting, Retrying, NoRetry
<1> HIDE DEF u
<1>4. Follows(r, new, forgotten)
  BY <1>1, <1>2, <1>3, HeldBackFollows
<1> QED
  BY <1>4 DEF new

-----------------------------------------------------------------------------
(***************************************************************************)
(* The lane, step by step                                                  *)
(***************************************************************************)
LaneStep == LaneInv' /\ (record.state = "launching" => Onward(record, record'))

LEMMA WriteFollows ==
  ASSUME LaneInv, alarm.pc # "idle", NEW r, Follows(alarm.seen, r, forgotten'), Write(r),
         r.state # "none", forgotten \subseteq forgotten', UNCHANGED repair
  PROVE  LaneStep
<1>1. record' = r /\ alarm'.pc = "idle"
  BY DEF Write, Asleep
<1>2. LaneInv'
  BY <1>1 DEF LaneInv, Follows
<1> QED
  BY <1>1, <1>2 DEF LaneInv, LaneStep, Follows

LEMMA SameLane ==
  ASSUME RampInv, LaneInv, UNCHANGED <<record, alarm, repair, forgotten>>
  PROVE  LaneStep
<1>1. LaneInv'
  BY DEF LaneInv, Deciding
<1>2. Onward(record, record)
  BY NextIsNatural DEF Onward, RampInv, Typed
<1> QED
  BY <1>1, <1>2 DEF LaneStep

LEMMA PollUnreachableFollows ==
  ASSUME RampInv, LaneInv, PollUnreachable PROVE LaneStep
<1>0. alarm.pc # "idle" /\ UNCHANGED repair
  BY DEF PollUnreachable
<1>1. PICK i \in DOMAIN alarm.seen.inFlight :
        /\ \A j \in 1..(i - 1) : Quiet(alarm.seen.inFlight[j])
        /\ Write(Reconcile(alarm.seen, Counted(Before(i)), Unresolved(i), alarm.seen.inFlight[i]))
        /\ Replaces(alarm.seen.inFlight[i].task)
  BY DEF PollUnreachable
<1> DEFINE r == alarm.seen
           part == StillWorking(Before(i)) \o From(i)
           entry == r.inFlight[i]
           completed == Counted(Before(i))
           new == Reconcile(r, completed, part, entry)
<1>2. Sorted(r, completed, part, {})
  BY <1>0, <1>1, PassSorts
<1>3. /\ r \in Records /\ Whole(r, forgotten) /\ r.terminal = 0 /\ r.state = "launching"
      /\ entry.task \in TasksOf(r.inFlight)
  BY <1>0, AlarmIsTyped DEF RampInv, LaneInv, Good, Ended, TasksOf
<1>4. Write(new) /\ forgotten' = forgotten \cup (Waiting(r) \ {entry.task})
  BY <1>1 DEF Unresolved, Replaces
<1> HIDE DEF r, part, entry, completed
<1>5. /\ new.next = r.next /\ new.completed = completed /\ new.inFlight = part
      /\ new.quarantined = r.quarantined /\ new.terminal = r.terminal
      /\ new.state = r.state /\ Waiting(new) = {}
  BY <1>3, NextIsNatural DEF Reconcile, Waiting, Retrying
<1> HIDE DEF new
<1>6. Follows(r, new, forgotten')
  <2>1. Accounts(new) \cup forgotten' \cup {0} = Accounts(r) \cup forgotten \cup {0}
    BY <1>2, <1>3, <1>4, <1>5 DEF Accounts, Sorted
  <2>2. Undecided(new) \subseteq Undecided(r)
    BY <1>2, <1>5 DEF Undecided, Sorted
  <2> QED
    BY <1>3, <1>5, <2>1, <2>2, KeepsWhole, NextIsNatural DEF Follows, Onward
<1> QED
  BY <1>0, <1>3, <1>4, <1>5, <1>6, WriteFollows DEF r

LEMMA PollFailureFollows ==
  ASSUME RampInv, LaneInv, PollFailure PROVE LaneStep
<1>0. alarm.pc # "idle" /\ UNCHANGED repair
  BY DEF PollFailure
<1>1. PICK i \in DOMAIN alarm.seen.inFlight :
        LET entry == alarm.seen.inFlight[i]
            completed == Counted(Before(i))
            remaining == StillWorking(Before(i)) \o From(i + 1)
        IN /\ \A j \in 1..(i - 1) : Quiet(alarm.seen.inFlight[j])
           /\ \/ /\ Replaces(entry.task)
                 /\ \/ \E limit \in Nat :
                         Write(Requeue(alarm.seen, completed, remaining, entry, limit))
                    \/ Write(Quarantine(alarm.seen, completed, remaining, entry.task))
              \/ /\ UNCHANGED forgotten
                 /\ Write(FailLane(alarm.seen, completed, remaining, entry.task))
  <2>1. MaxAttempts \in Nat /\ MaxRuntimeAttempts \in Nat
    OBVIOUS
  <2> QED
    BY <2>1 DEF PollFailure
<1> DEFINE r == alarm.seen
           completed == Counted(Before(i))
           remaining == StillWorking(Before(i)) \o From(i + 1)
           entry == r.inFlight[i]
<1>2. Sorted(r, completed, remaining, {entry.task})
  BY <1>0, <1>1, PassSorts
<1>3. /\ r \in Records /\ Whole(r, forgotten) /\ r.terminal = 0 /\ r.state = "launching"
      /\ Waiting(r) \subseteq Tasks
  BY <1>0, AlarmIsTyped, WaitingIsTask DEF RampInv, LaneInv, Good, Ended
<1>4. Replaces(entry.task) => forgotten' = forgotten \cup (Waiting(r) \ {entry.task})
  BY DEF Replaces
<1> HIDE DEF r, completed, remaining, entry
<1>6. ASSUME Replaces(entry.task), NEW new, Write(new),
             new = Quarantine(r, completed, remaining, entry.task)
      PROVE  LaneStep
  <2>1. /\ new.next = r.next /\ new.completed = completed /\ new.inFlight = remaining
        /\ new.quarantined = r.quarantined \cup {entry.task} /\ new.terminal = r.terminal
        /\ Waiting(new) = {} /\ new.state # "none"
    BY <1>3, <1>6, NextIsNatural DEF Quarantine, EndOrGoOn, Waiting, Retrying, NoRetry
  <2>2. Follows(r, new, forgotten')
    BY <1>2, <1>3, <1>4, <1>6, <2>1, KeptFollows
  <2> QED
    BY <1>0, <1>4, <1>6, <2>1, <2>2, WriteFollows DEF r
<1>7. ASSUME Replaces(entry.task), NEW limit \in Nat, NEW new, Write(new),
             new = Requeue(r, completed, remaining, entry, limit)
      PROVE  LaneStep
  <2>1. CASE entry.attempts + 1 > limit
    BY <1>6, <1>7, <2>1 DEF Requeue
  <2>2. CASE ~(entry.attempts + 1 > limit)
    <3>1. /\ new.next = r.next /\ new.completed = completed /\ new.inFlight = remaining
          /\ new.quarantined = r.quarantined /\ new.terminal = r.terminal
          /\ Waiting(new) = {entry.task} /\ new.state # "none"
      BY <1>3, <1>7, <2>2, NextIsNatural DEF Requeue, Waiting, Retrying
    <3>2. Follows(r, new, forgotten')
      BY <1>2, <1>3, <1>4, <1>7, <3>1, KeptFollows
    <3> QED
      BY <1>0, <1>4, <1>7, <3>1, <3>2, WriteFollows DEF r
  <2> QED
    BY <2>1, <2>2
<1>8. ASSUME UNCHANGED forgotten, NEW new, Write(new),
             new = FailLane(r, completed, remaining, entry.task)
      PROVE  LaneStep
  <2>1. /\ new.next = r.next /\ new.completed = completed /\ new.inFlight = remaining
        /\ new.quarantined = r.quarantined /\ new.terminal = entry.task
        /\ Waiting(new) = Waiting(r) /\ new.state # "none"
    BY <1>3, <1>8, NextIsNatural DEF FailLane, Waiting, Retrying
  <2>2. Follows(r, new, forgotten')
    BY <1>2, <1>3, <1>8, <2>1, KeptFollows
  <2> QED
    BY <1>0, <1>8, <2>1, <2>2, WriteFollows DEF r
<1> QED
  BY <1>1, <1>6, <1>7, <1>8 DEF r, completed, remaining, entry

LEMMA PollQuietFollows ==
  ASSUME RampInv, LaneInv, PollQuiet PROVE LaneStep
<1> DEFINE r == alarm.seen
           remaining == StillWorking(r.inFlight)
           completed == Counted(r.inFlight)
           t == IF Retrying(r) THEN r.retry.task ELSE r.next
           s == IF Retrying(r) THEN r.retry.slot ELSE FirstFree(remaining)
<1>0. alarm.pc # "idle" /\ alarm.pc = "polling" /\ UNCHANGED <<repair, forgotten>>
  BY DEF PollQuiet
<1>1. Sorted(r, completed, remaining, {})
  BY <1>0, QuietSorts DEF PollQuiet
<1>2. /\ r \in Records /\ Whole(r, forgotten) /\ r.terminal = 0 /\ r.state = "launching"
      /\ DOMAIN r = {"state", "next", "inFlight", "retry", "completed", "quarantined", "terminal"}
  BY <1>0, AlarmIsTyped, NextIsNatural DEF RampInv, LaneInv, Good, Ended
<1>3. CASE /\ alarm' = [alarm EXCEPT !.pc = "starting", !.remaining = remaining,
                                     !.completed = completed, !.task = t, !.slot = s]
           /\ UNCHANGED record
  <2>1. /\ alarm'.pc = "starting" /\ alarm'.seen = alarm.seen /\ alarm'.remaining = remaining
        /\ alarm'.completed = completed /\ alarm'.task = t
    BY <1>3 DEF RampInv, Typed, Alarms
  <2>2. Deciding'
    BY <1>1, <2>1 DEF Deciding, Sorted, TasksOf, Retrying
  <2>3. LaneInv'
    BY <1>0, <1>3, <2>1, <2>2 DEF LaneInv
  <2>4. Onward(record, record')
    BY <1>3, NextIsNatural DEF Onward, RampInv, Typed
  <2> QED
    BY <2>3, <2>4 DEF LaneStep
<1>4. CASE Write([r EXCEPT !.state = "expired", !.completed = completed,
                           !.inFlight = remaining, !.terminal = t]) /\ MayStart(r, remaining)
  <2> DEFINE new == [r EXCEPT !.state = "expired", !.completed = completed,
                              !.inFlight = remaining, !.terminal = t]
  <2> HIDE DEF r, remaining, completed
  <2>1. /\ t \in Tasks /\ Waiting(r) \subseteq {t} /\ (t \in Waiting(r) \/ t = r.next)
    <3>1. r.next \in Nat \ {0} /\ Waiting(r) \subseteq Tasks
      BY <1>2, NextIsNatural, WaitingIsTask
    <3> QED
      BY <1>4, <3>1 DEF MayStart, Waiting, Retrying, Tasks
  <2> HIDE DEF t
  <2>2. /\ new.next = r.next /\ new.completed = completed /\ new.inFlight = remaining
        /\ new.quarantined = r.quarantined /\ new.retry = r.retry /\ new.terminal = t
        /\ new.state = "expired"
    BY <1>2
  <2> HIDE DEF new
  <2>3. Waiting(new) = Waiting(r)
    BY <2>2 DEF Waiting, Retrying
  <2>4. Follows(r, new, forgotten)
    BY <1>1, <1>2, <2>1, <2>2, <2>3, HeldBackFollows DEF r
  <2> QED
    BY <1>0, <1>4, <2>2, <2>4, WriteFollows DEF r, new
<1>5. CASE /\ remaining = <<>> /\ r.retry = NoRetry
           /\ Write([r EXCEPT !.state = IF r.quarantined = {} THEN "completed" ELSE "recoverable",
                              !.completed = completed, !.inFlight = <<>>])
  <2> DEFINE new == [r EXCEPT !.state = IF r.quarantined = {} THEN "completed" ELSE "recoverable",
                              !.completed = completed, !.inFlight = <<>>]
  <2> HIDE DEF r, remaining, completed
  <2>1. /\ new.next = r.next /\ new.completed = completed /\ new.inFlight = remaining
        /\ new.quarantined = r.quarantined /\ new.retry = r.retry /\ new.terminal = r.terminal
        /\ new.state # "none"
    BY <1>2, <1>5
  <2> HIDE DEF new
  <2>2. Waiting(new) = Waiting(r)
    BY <2>1 DEF Waiting, Retrying
  <2>3. Follows(r, new, forgotten)
    BY <1>1, <1>2, <2>1, <2>2, KeptFollows
  <2> QED
    BY <1>0, <1>5, <2>1, <2>3, WriteFollows DEF r, new
<1>6. CASE Write([r EXCEPT !.completed = completed, !.inFlight = remaining, !.retry = Cleared(@)])
  <2> DEFINE new == [r EXCEPT !.completed = completed, !.inFlight = remaining, !.retry = Cleared(@)]
  <2> HIDE DEF r, remaining, completed
  <2>1. /\ new.next = r.next /\ new.completed = completed /\ new.inFlight = remaining
        /\ new.quarantined = r.quarantined /\ new.terminal = r.terminal
        /\ new.retry = Cleared(r.retry) /\ new.state # "none"
    BY <1>2
  <2> HIDE DEF new
  <2>2. Waiting(new) = Waiting(r)
    BY <2>1 DEF Waiting, Cleared, Retrying, NoRetry
  <2>3. Follows(r, new, forgotten)
    BY <1>1, <1>2, <2>1, <2>2, KeptFollows
  <2> QED
    BY <1>0, <1>6, <2>1, <2>3, WriteFollows DEF r, new
<1> QED
  BY <1>3, <1>4, <1>5, <1>6 DEF PollQuiet

\* The records that the outcome of a start writes are those of a lane that goes on, or ends.
LEMMA StartWrites ==
  ASSUME RampInv, LaneInv, alarm.pc \in {"starting", "launched"}, NEW n \in Nat,
         UNCHANGED <<repair, forgotten>>,
         Write(Refused(alarm.seen, n)) \/ (n # 0 /\ Write(Accepted(alarm.seen, n)))
  PROVE  LaneStep
<1>1. /\ alarm.pc # "idle" /\ alarm.seen \in Records /\ alarm.seen.state = "launching"
  BY AlarmIsTyped DEF RampInv
<1>2. Refused(alarm.seen, n).state # "none" /\ Accepted(alarm.seen, n).state # "none"
  <2>1. Accepted(alarm.seen, n).state = alarm.seen.state
    BY <1>1, NextIsNatural DEF Accepted
  <2>2. Refused(alarm.seen, n).state \in {alarm.seen.state, "recoverable", "launching"}
    BY <1>1, NextIsNatural DEF Refused, Quarantine, EndOrGoOn
  <2> QED
    BY <1>1, <2>1, <2>2
<1>3. CASE Write(Refused(alarm.seen, n))
  BY <1>1, <1>2, <1>3, RefusedFollows, WriteFollows
<1>4. CASE n # 0 /\ Write(Accepted(alarm.seen, n))
  BY <1>1, <1>2, <1>4, AcceptedFollows, WriteFollows
<1> QED
  BY <1>3, <1>4

LEMMA StartsFollow ==
  ASSUME RampInv, LaneInv, StartReconciled \/ StartDeferred \/ StartBegins \/ StartThrows
  PROVE  LaneStep
<1>1. /\ alarm.pc \in {"starting", "launched"} /\ alarm.pc # "idle"
      /\ alarm.task \in Tasks /\ alarm.slot \in Slots /\ UNCHANGED <<repair, forgotten>>
  <2>1. alarm.pc \in {"starting", "launched"} /\ alarm.pc # "idle" /\ UNCHANGED <<repair, forgotten>>
    BY DEF StartReconciled, StartDeferred, StartBegins, StartThrows
  <2> QED
    BY <2>1, StartPolled
<1>2. ASSUME NEW n \in Nat, Write(Refused(alarm.seen, n)) PROVE LaneStep
  BY <1>1, <1>2, StartWrites
<1>3. ASSUME NEW n \in Nat \ {0}, Write(Accepted(alarm.seen, n)) PROVE LaneStep
  BY <1>1, <1>3, StartWrites
<1> DEFINE s == alarm.slot  t == alarm.task
<1>4. /\ slot[s].launch.attempts \in Nat
      /\ Matches(s, t) => slot[s].launch.attempts \in Nat \ {0}
  BY <1>1, LaunchCounts
<1>5. CASE StartReconciled
  BY <1>3, <1>4, <1>5 DEF StartReconciled, AlreadyThere
<1>6. CASE StartDeferred
  BY <1>2, <1>4, <1>6 DEF StartDeferred
<1>7. CASE StartThrows
  <2> DEFINE prior == alarm.seen.retry
             n == IF prior.kind = "start" /\ prior.task = alarm.task THEN prior.attempts + 1 ELSE 1
  <2>1. prior \in Retries
    BY <1>1, AlarmIsTyped, RecordFields DEF RampInv
  <2>2. n \in Nat
    BY <2>1 DEF Retries, NoRetry
  <2> QED
    BY <1>2, <1>7, <2>2 DEF StartThrows
<1>8. CASE StartBegins
  <2>1. /\ alarm'.pc = "launched" /\ alarm'.seen = alarm.seen /\ alarm'.remaining = alarm.remaining
        /\ alarm'.completed = alarm.completed /\ alarm'.task = alarm.task
        /\ record' = record
    BY <1>8 DEF StartBegins, RampInv, Typed, Alarms
  <2>2. Deciding'
    BY <1>1, <2>1 DEF LaneInv, Deciding
  <2>3. LaneInv'
    BY <1>1, <2>1, <2>2 DEF LaneInv
  <2>4. Onward(record, record')
    BY <2>1, NextIsNatural DEF Onward, RampInv, Typed
  <2> QED
    BY <2>3, <2>4 DEF LaneStep
<1> QED
  BY <1>5, <1>6, <1>7, <1>8

LEMMA AnswerFollows ==
  ASSUME RampInv, LaneInv, NEW s \in Slots, NEW t \in Tasks, StartRuns(s, t) \/ StartFails(s, t)
  PROVE  LaneStep
<1>1. AttemptsOf(s, t) \in Nat \ {0}
  BY LaunchCounts
<1> DEFINE n == AttemptsOf(s, t)
<1>2. /\ Answer(s, t, Accepted(alarm.seen, n)) \/ Answer(s, t, Refused(alarm.seen, n))
      /\ UNCHANGED <<repair, forgotten>>
  BY DEF StartRuns, StartFails
<1> HIDE DEF n
<1>3. CASE /\ alarm.pc = "launched"
           /\ Write(Accepted(alarm.seen, n)) \/ Write(Refused(alarm.seen, n))
  BY <1>1, <1>2, <1>3, StartWrites DEF n
<1>4. CASE UNCHANGED <<record, alarm>>
  BY <1>2, <1>4, SameLane
<1> QED
  BY <1>2, <1>3, <1>4 DEF Answer

LEMMA BeginFollows ==
  ASSUME RampInv, LaneInv, Begin PROVE LaneStep
<1>1. /\ record'.next = 1 /\ record'.inFlight = <<>> /\ record'.retry = NoRetry
      /\ record'.completed = {} /\ record'.quarantined = {} /\ record'.terminal = 0
      /\ record.state = "none" /\ UNCHANGED <<alarm, repair, forgotten>>
      /\ record'.state = "launching"
  BY DEF Begin, NoRecord
<1>2. alarm.pc = "idle" /\ repair.pc # "reading"
  BY <1>1 DEF LaneInv
<1>3. Accounts(record') = {0}
  BY <1>1 DEF Accounts, Waiting, Retrying, NoRetry, TasksOf
<1>4. Whole(record', forgotten')
  <2>1. forgotten' = {} /\ 1..(1 - 1) = {} /\ 1..(0 - 1) = {}
    BY <1>1 DEF LaneInv
  <2> QED
    BY <1>1, <1>3, <2>1 DEF Whole
<1>5. LaneInv'
  BY <1>1, <1>2, <1>4 DEF LaneInv
<1> QED
  BY <1>1, <1>5 DEF LaneStep

LEMMA RepairFollows ==
  ASSUME RampInv, LaneInv, Repair PROVE LaneStep
<1>1. CASE RepairReads \/ \E i \in Slots : RepairAsks(i)
  <2>1. UNCHANGED <<record, alarm, forgotten>>
    BY <1>1 DEF RepairReads, RepairAsks
  <2>2. repair'.pc = "reading" => /\ record.state # "none"
                                  /\ Tasks \subseteq Accounts(repair'.seen) \cup forgotten
    <3>1. CASE RepairReads
      <4>1. repair'.seen = record /\ record.state = "launching" /\ record.next > TaskCount
        BY <3>1 DEF RepairReads
      <4>2. Tasks \subseteq 1..(record.next - 1)
        BY <4>1, NextIsNatural DEF RampInv, Typed, Tasks
      <4> QED
        BY <4>1, <4>2 DEF LaneInv, Whole
    <3>2. ASSUME NEW i \in Slots, RepairAsks(i), repair'.pc = "reading"
          PROVE  repair.pc = "reading" /\ repair'.seen = repair.seen
      <4>1. CASE repair' = NoRepair
        BY <3>2, <4>1 DEF NoRepair
      <4>2. CASE repair' = [repair EXCEPT !.left = @ \ {i}]
        <5>1. repair'.pc = repair.pc /\ repair'.seen = repair.seen
          BY <4>2 DEF RampInv, Typed, Repairs
        <5> QED
          BY <3>2, <5>1
      <4> QED
        BY <3>2, <4>1, <4>2 DEF RepairAsks
    <3> QED
      BY <1>1, <3>1, <3>2 DEF LaneInv
  <2>3. LaneInv'
    BY <2>1, <2>2 DEF LaneInv, Deciding
  <2>4. Onward(record, record')
    BY <2>1, NextIsNatural DEF Onward, RampInv, Typed
  <2> QED
    BY <2>3, <2>4 DEF LaneStep
<1>2. CASE RepairWrites
  <2>1. /\ repair.pc = "reading" /\ record' = Repaired /\ repair' = NoRepair
        /\ UNCHANGED <<alarm, forgotten>>
    BY <1>2 DEF RepairWrites, Repaired
  <2>2. /\ Repaired \in Records /\ repair.seen \in Records
        /\ Repaired.state = "recoverable" /\ Repaired.inFlight = <<>>
        /\ Repaired.quarantined = repair.seen.quarantined \cup TasksOf(repair.seen.inFlight)
        /\ Repaired.retry = NoRetry /\ repair.seen.retry = NoRetry
        /\ Repaired.next > TaskCount /\ Repaired.completed = repair.seen.completed
        /\ Repaired.terminal = 0 /\ repair.seen.terminal = 0
    BY <2>1, RepairedFields
  <2> HIDE DEF Repaired
  <2>3. TasksOf(Repaired.inFlight) = {} /\ Waiting(Repaired) = {} /\ Waiting(repair.seen) = {}
    BY <2>2 DEF TasksOf, Waiting, Retrying, NoRetry
  <2>4. Tasks \subseteq Accounts(Repaired) \cup forgotten
        /\ Accounts(Repaired) \cup forgotten \subseteq Tasks \cup {0}
    <3>1. Tasks \subseteq Accounts(repair.seen) \cup forgotten
      BY <2>1 DEF LaneInv
    <3>2. Repaired.completed \cup Repaired.quarantined \cup forgotten \subseteq Tasks
      BY <2>2, RecordFields DEF RampInv, Typed
    <3> QED
      BY <2>2, <2>3, <3>1, <3>2 DEF Accounts
  <2>5. Repaired.next = TaskCount + 1
    BY <2>2, NextIsNatural
  <2>6. Whole(Repaired, forgotten)
    <3>1. 1..(Repaired.next - 1) \subseteq Tasks
      BY <2>5 DEF Tasks
    <3>2. \A t \in Tasks \cup {0} : 1..(t - 1) \subseteq Tasks
      BY DEF Tasks
    <3> QED
      BY <2>4, <3>1, <3>2 DEF Whole
  <2>7. LaneInv'
    BY <2>1, <2>2, <2>6 DEF LaneInv, Deciding, NoRepair
  <2>8. Onward(record, record')
    <3>1. record.next <= TaskCount + 1
      BY NextIsNatural DEF RampInv, Typed
    <3> QED
      BY <2>1, <2>3, <2>5, <3>1 DEF Onward, Undecided
  <2> QED
    BY <2>7, <2>8 DEF LaneStep
<1> QED
  BY <1>1, <1>2 DEF Repair

LEMMA LaneNext ==
  ASSUME RampInv, LaneInv, Next
  PROVE  LaneStep
<1>1. CASE Begin \/ Repair
  BY <1>1, BeginFollows, RepairFollows
<1>2. CASE Alarm
  <2>1. CASE AlarmFires
    <3>1. /\ alarm'.seen = record /\ alarm'.pc = "polling" /\ record' = record
          /\ record.state = "launching" /\ UNCHANGED <<repair, forgotten>>
      BY <2>1 DEF AlarmFires, Asleep
    <3>2. LaneInv'
      BY <3>1 DEF LaneInv
    <3>3. Onward(record, record')
      BY <3>1, NextIsNatural DEF Onward, RampInv, Typed
    <3> QED
      BY <3>2, <3>3 DEF LaneStep
  <2> QED
    BY <1>2, <2>1, PollUnreachableFollows, PollFailureFollows, PollQuietFollows, StartsFollow DEF Alarm
<1>3. CASE CoordinatorCrashes
  <2>1. LaneInv'
    BY <1>3 DEF CoordinatorCrashes, Asleep, NoRepair, LaneInv
  <2>2. Onward(record, record')
    BY <1>3, NextIsNatural DEF CoordinatorCrashes, Onward, RampInv, Typed
  <2> QED
    BY <2>1, <2>2 DEF LaneStep
<1>4. CASE CredentialElapses
  BY <1>4, SameLane DEF CredentialElapses
<1>5. ASSUME NEW s \in Slots, Container(s) PROVE LaneStep
  <2>1. CASE \E t \in Tasks : StartRuns(s, t) \/ StartFails(s, t)
    BY <2>1, AnswerFollows
  <2>2. CASE UNCHANGED <<record, alarm, repair, forgotten>>
    BY <2>2, SameLane
  <2> QED
    BY <1>5, <2>1, <2>2 DEF Container, AbandonedStart, PendingAges, RunnerWrites, RunnerSucceeds,
       RunnerFindsPayload, RunnerFails, ContainerStops, ContainerRestarts
<1> QED
  BY <1>1, <1>2, <1>3, <1>4, <1>5 DEF Next

LEMMA LaneAlways == Spec => []LaneInv
<1>1. Init => LaneInv
  <2> SUFFICES ASSUME Init PROVE LaneInv
    OBVIOUS
  <2>1. Accounts(record) \cup forgotten = {0} /\ record.next = 1
    BY DEF Init, NoRecord, NoRetry, Accounts, Waiting, Retrying, TasksOf
  <2>2. 1..(1 - 1) = {} /\ 1..(0 - 1) = {}
    OBVIOUS
  <2> QED
    BY <2>1, <2>2 DEF Init, Asleep, NoRepair, LaneInv, Whole
<1>2. LaneInv /\ RampInv /\ [Next]_vars => LaneInv'
  <2>1. ASSUME LaneInv, RampInv, UNCHANGED vars PROVE LaneInv'
    BY <2>1, SameLane DEF vars, LaneStep
  <2> QED
    BY <2>1, LaneNext DEF LaneStep
<1> QED
  BY <1>1, <1>2, RampAlways, PTL DEF Spec

-----------------------------------------------------------------------------
(***************************************************************************)
(* Theorems about the tasks of a lane                                      *)
(***************************************************************************)
\* In a lane of any number of slots a task is lost in one way only: every task before the
\* next one is in flight, waits for its retry, is counted as completed, left to recovery or
\* named as the task the lane ended on, unless another task failed while it waited for its
\* retry.
THEOREM NoTaskIsLost == Spec => []AccountedFor
<1>1. LaneInv => AccountedFor
  BY DEF LaneInv, Whole, AccountedFor
<1> QED
  BY <1>1, LaneAlways, PTL

\* What the lane writes down of its tasks is what the store proves of them: a lane that
\* reports itself completed has the marker of every task but the forgotten ones, one that
\* reports recoverable failures has every marker but those and the ones it counts.
THEOREM LaneReportsMarkers == Spec => []LaneSound
<1>1. RampInv /\ LaneInv => LaneSound
  <2> SUFFICES ASSUME RampInv, LaneInv PROVE LaneSound
    OBVIOUS
  <2>1. record \in Records /\ Good(record) /\ Whole(record, forgotten)
    BY DEF RampInv, Typed, LaneInv
  <2>2. CountedIsMarked
    BY <2>1 DEF Good, CountedIsMarked
  <2>3. ASSUME record.state \in {"completed", "recoverable"}
        PROVE  Tasks \subseteq record.completed \cup record.quarantined \cup forgotten
    <3>1. /\ record.next > TaskCount /\ record.terminal = 0
          /\ TasksOf(record.inFlight) = {} /\ Waiting(record) = {}
      BY <2>1, <2>3 DEF Good, Ended, TasksOf, Waiting, Retrying, NoRetry
    <3>2. record.next \in Nat
      BY <2>1, NextIsNatural
    <3>3. \A t \in Tasks : t \in 1..(record.next - 1) /\ t # 0
      BY <3>1, <3>2 DEF Tasks
    <3> QED
      BY <2>1, <3>1, <3>3 DEF Whole, Accounts
  <2>4. record.state = "completed" => record.quarantined = {}
    BY <2>1 DEF Good, Ended
  <2> QED
    BY <2>2, <2>3, <2>4 DEF LaneSound, EndMeansMarked, CountedIsMarked, Marked
<1> QED
  BY <1>1, RampAlways, LaneAlways, PTL

\* While a lane of any number of slots runs, a task that was passed and settled is not taken
\* up again, and the next task moves back only when a start that was refused to a failed
\* task's retry succeeds after all.
THEOREM SettledOnce == Spec => SettledStaysSettled
<1> DEFINE Keeps == record.state = "launching" =>
                      /\ \A t \in 1..(record.next - 1) :
                           t \in Undecided(record') => t \in Undecided(record)
                      /\ \/ record'.next >= record.next
                         \/ RestartsPassed(record) /\ record'.next = record.retry.task + 1
<1>1. RampInv /\ LaneInv /\ [Next]_vars => [Keeps]_vars
  BY LaneNext DEF LaneStep, Onward
<1> QED
  BY <1>1, RampAlways, LaneAlways, PTL DEF Spec, SettledStaysSettled
=============================================================================
