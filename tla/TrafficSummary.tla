--------------------------- MODULE TrafficSummary ---------------------------
(***************************************************************************)
(* The analytics of a website (lib/analytics/aggregator.ts): the events of *)
(* the last days are counted one by one into totals, rankings and a trend. *)
(* A page, a referrer, a visitor and a session are numbers.                *)
(***************************************************************************)
EXTENDS Naturals, Integers, Sequences, SequencesExt, FiniteSets

CONSTANTS
  Events,        \* lists of events: [page, referrer, device, visitor, session, day]
  DaysAsked,     \* ranges a client may ask for
  MaxRange,      \* MAX_ANALYTICS_RANGE_DAYS
  TopK           \* rows of a ranking

TrafficOK == MaxRange \in Nat \ {0} /\ TopK \in Nat \ {0} /\ DaysAsked \subseteq Int

Devices == {"desktop", "mobile", "tablet"}

VARIABLES
  range,      \* days in the range
  events,     \* what the query returned
  seen,       \* events counted so far
  tally,      \* pages, referrers, devices, days: how often, and who came
  summary     \* the summary, once it is there

trafficVars == <<range, events, seen, tally, summary>>

\* normalizeAnalyticsRangeDays
Normalized(days) == IF days < 1 THEN 1 ELSE IF days > MaxRange THEN MaxRange ELSE days

Nobody == [visitors |-> {}, sessions |-> {}]
Fresh == [views |-> 0, visitors |-> {}]
NoTally == [pages |-> [p \in {} |-> 0], referrers |-> [p \in {} |-> 0],
            devices |-> [d \in Devices |-> 0], days |-> [d \in {} |-> Fresh], who |-> Nobody]
NoSummary == [state |-> "counting"]

\* a day is how long ago it is: the query returns those of the range
TrafficInit ==
  /\ \E days \in DaysAsked : range = Normalized(days)
  /\ \E list \in Events : events = SelectSeq(list, LAMBDA e : e.day <= range)
  /\ seen = 0 /\ tally = NoTally /\ summary = NoSummary

Plus(counts, key) ==
  [k \in DOMAIN counts \cup {key} |->
     (IF k \in DOMAIN counts THEN counts[k] ELSE 0) + (IF k = key THEN 1 ELSE 0)]

\* an event without a device is one of a desktop
Device(e) == IF e.device = "none" THEN "desktop" ELSE e.device
\* a bug for the run to find: a day is begun anew by each of its events
DayAlone(days, e) == [days EXCEPT ![e.day] = [views |-> 1, visitors |-> {e.visitor}]]
OnDay(days, e) == [days EXCEPT ![e.day] = [views |-> @.views + 1, visitors |-> @.visitors \cup {e.visitor}]]

Count ==
  /\ seen < Len(events)
  /\ LET e == events[seen + 1]
         days == [d \in DOMAIN tally.days \cup {e.day} |->
                    IF d \in DOMAIN tally.days THEN tally.days[d] ELSE Fresh] IN
     tally' = [pages |-> Plus(tally.pages, e.page), referrers |-> Plus(tally.referrers, e.referrer),
               devices |-> Plus(tally.devices, Device(e)), days |-> OnDay(days, e),
               who |-> [visitors |-> tally.who.visitors \cup {e.visitor},
                        sessions |-> tally.who.sessions \cup {e.session}]]
  /\ seen' = seen + 1
  /\ UNCHANGED <<range, events, summary>>

\* Object.entries(...).sort: descending, and in the order of their first event when equal
FirstSeen(field, k) == CHOOSE i \in DOMAIN events :
  events[i][field] = k /\ \A j \in 1..(i - 1) : events[j][field] # k
Ranked(counts, field) ==
  LET all == SetToSortSeq(DOMAIN counts, LAMBDA a, b :
        \/ counts[a] > counts[b]
        \/ counts[a] = counts[b] /\ FirstSeen(field, a) < FirstSeen(field, b)) IN
  SubSeq(all, 1, IF Len(all) < TopK THEN Len(all) ELSE TopK)

\* tenths of a percent, rounded half up
Share(views, total) == (views * 2000 + total) \div (2 * total)

Summarize ==
  /\ seen = Len(events) /\ summary = NoSummary
  /\ LET pages == Ranked(tally.pages, "page") IN
     summary' = [state |-> "given", total |-> Len(events),
       visitors |-> Cardinality(tally.who.visitors), sessions |-> Cardinality(tally.who.sessions),
       pages |-> [i \in DOMAIN pages |-> [page |-> pages[i], views |-> tally.pages[pages[i]],
                                          share |-> Share(tally.pages[pages[i]], Len(events))]],
       referrers |-> Ranked(tally.referrers, "referrer"), devices |-> tally.devices,
       \* from the day longest ago to today
       trend |-> LET days == SetToSortSeq(DOMAIN tally.days, LAMBDA a, b : a > b) IN
                 [i \in DOMAIN days |-> [day |-> days[i], views |-> tally.days[days[i]].views,
                    visitors |-> Cardinality(tally.days[days[i]].visitors)]]]
  /\ UNCHANGED <<range, events, seen, tally>>

TrafficNext == Count \/ Summarize
TrafficSpec == TrafficInit /\ [][TrafficNext]_trafficVars
----------------------------------------------------------------------------
SumOf(s, Value(_)) == FoldSeq(LAMBDA x, sum : Value(x) + sum, 0, s)
Occurs(field, v) == Len(SelectSeq(events, LAMBDA e : e[field] = v))

\* The parts of a summary agree with the events and with each other: the trend and the
\* devices add up to the total, a visitor of several days counts once in the total and once
\* in each day, and the pages shown are the most viewed, with shares that are not more
\* than the whole but for their rounding.
SummaryAgrees ==
  summary # NoSummary =>
    /\ SumOf(summary.trend, LAMBDA x : x.views) = summary.total
    /\ summary.devices["desktop"] + summary.devices["mobile"] + summary.devices["tablet"] = summary.total
    /\ summary.visitors <= SumOf(summary.trend, LAMBDA x : x.visitors)
    /\ SumOf(summary.trend, LAMBDA x : x.visitors) <= summary.total
    /\ \A i \in DOMAIN summary.trend : summary.trend[i].day <= range
    /\ \A i \in DOMAIN summary.pages : LET row == summary.pages[i] IN
         /\ row.views = Occurs("page", row.page)
         /\ \A e \in ToSet(events) : Occurs("page", e.page) > row.views =>
              \E j \in 1..(i - 1) : summary.pages[j].page = e.page
    /\ SumOf(summary.pages, LAMBDA x : x.share) <= 1000 + Len(summary.pages)
============================================================================
