------------------------------- MODULE Metric -------------------------------
(***************************************************************************)
(* The latency statistics of the echo client (utils/metric.c): a circular  *)
(* buffer of times, of which percentiles are found by selection in place.  *)
(* A session prints its statistics when the user asks for them and goes on *)
(* recording into the buffer that nth_min has left in another order.       *)
(*                                                                         *)
(* nth_min, whose recursive calls are its last steps, takes one action for *)
(* each iteration of its loop and one for what follows the loop; nothing   *)
(* is recorded meanwhile.  Times are not negative: metric_record takes the *)
(* value -1 for none.                                                      *)
(***************************************************************************)
EXTENDS Integers, Sequences, SequencesExt, FiniteSets

CONSTANTS Times,           \* latencies
          MetricCapacity,
          Percents,        \* the ratios asked for, in percent
          MaxRecords       \* bound: the times recorded

ASSUME MetricAssumption ==
  /\ Times \subseteq Nat /\ MetricCapacity \in Nat \ {0} /\ MaxRecords \in Nat
  \* A smaller ratio of two times would ask nth_min for the zeroth.
  /\ Percents \subseteq 50..99

VARIABLES times,     \* the buffer, from index 0
          count, begin,
          least, most,  \* min, max
          recorded,  \* all the times that were ever recorded
          asked,     \* the percentile nth_min is looking for, 0 for none
          call,      \* nth_min's arguments, data as the index of its first
                     \* entry, and its variables i and wi
          reported   \* the last percentile printed: [percent, value], or {}

metricVars == <<times, count, begin, least, most, recorded, asked, call, reported>>

INVALID_VALUE == -1

\* A call of nth_min(data, len, n), before its loop.
Call(data, length, n) == [data |-> data, len |-> length, n |-> n, i |-> 0, wi |-> 0]
NoCall == Call(0, 0, 0)

\* make_metric.
MetricInit ==
  /\ times = [i \in 0..(MetricCapacity - 1) |-> 0]
  /\ count = 0 /\ begin = 0
  /\ least = INVALID_VALUE /\ most = INVALID_VALUE
  /\ recorded = <<>>
  /\ asked = 0 /\ call = NoCall
  /\ reported = {}

\* How many entries of the buffer are in use.
len == IF count < MetricCapacity THEN count ELSE MetricCapacity

metric_record(time) ==
  /\ asked = 0
  /\ count < MaxRecords
  /\ least' = IF least = INVALID_VALUE \/ time < least THEN time ELSE least
  /\ most' = IF most = INVALID_VALUE \/ time > most THEN time ELSE most
  /\ count' = count + 1
  /\ times' = [times EXCEPT ![begin] = time]
  /\ begin' = (begin + 1) % MetricCapacity
  /\ recorded' = Append(recorded, time)
  /\ reported' = {}
  /\ UNCHANGED <<asked, call>>

\* metric_ratio, whose n is ratio * len without its fraction.
metric_ratio(percent) ==
  /\ asked = 0
  /\ len > 0
  /\ asked' = percent /\ call' = Call(0, len, (percent * len) \div 100)
  /\ reported' = {}
  /\ UNCHANGED <<times, count, begin, least, most, recorded>>

Exchanged(i, j) == [times EXCEPT ![i] = times[j], ![j] = times[i]]
LastIndex == call.data + call.len - 1

\* An iteration of the loop: an entry less than the pivot, the last one, moves
\* to the front.
Partition ==
  /\ asked # 0 /\ call.len # 1 /\ call.i < call.len - 1
  /\ IF times[call.data + call.i] < times[LastIndex]
     THEN /\ times' = Exchanged(call.data + call.wi, call.data + call.i)
          /\ call' = [call EXCEPT !.i = @ + 1, !.wi = @ + 1]
     ELSE call' = [call EXCEPT !.i = @ + 1] /\ UNCHANGED times
  /\ UNCHANGED <<count, begin, least, most, recorded, asked, reported>>

\* nth_min returns value.
Return(value) ==
  /\ reported' = {[percent |-> asked, value |-> value]}
  /\ asked' = 0 /\ call' = NoCall

\* Mutant: the rank counts from zero in the comparison with the pivot.
nth_min_zero ==
  /\ asked # 0 /\ (call.len = 1 \/ call.i = call.len - 1)
  /\ IF call.len = 1 THEN Return(times[call.data]) /\ UNCHANGED times
     ELSE /\ times' = Exchanged(call.data + call.wi, LastIndex)
          /\ IF call.n < call.wi THEN call' = Call(call.data, call.wi, call.n) /\ UNCHANGED <<asked, reported>>
             ELSE IF call.n = call.wi THEN Return(times[LastIndex])
             ELSE call' = Call(call.data + call.wi + 1, call.len - call.wi - 1, call.n - call.wi - 1)
                  /\ UNCHANGED <<asked, reported>>
  /\ UNCHANGED <<count, begin, least, most, recorded>>

\* The rest of nth_min: the pivot moves to where it belongs, and the search
\* ends there or goes on before or after it.
nth_min ==
  /\ asked # 0
  /\ \/ call.len = 1 /\ Return(times[call.data]) /\ UNCHANGED times
     \/ /\ call.len # 1 /\ call.i = call.len - 1
        /\ times' = Exchanged(call.data + call.wi, LastIndex)
        /\ \/ /\ call.n <= call.wi
              /\ call' = Call(call.data, call.wi, call.n)
              /\ UNCHANGED <<asked, reported>>
           \/ call.n = call.wi + 1 /\ Return(times[LastIndex])
           \/ /\ call.n > call.wi + 1
              /\ call' = Call(call.data + call.wi + 1, call.len - call.wi - 1, call.n - call.wi - 1)
              /\ UNCHANGED <<asked, reported>>
  /\ UNCHANGED <<count, begin, least, most, recorded>>

MetricNext ==
  \/ \E time \in Times : metric_record(time)
  \/ \E percent \in Percents : metric_ratio(percent)
  \/ Partition \/ nth_min

MetricSpec == MetricInit /\ [][MetricNext]_metricVars
-----------------------------------------------------------------------------
(* Properties. *)

Occurrences(f, I, v) == Cardinality({i \in I : f[i] = v})
UpTo(f, I, v) == Cardinality({i \in I : f[i] <= v})
Used == 0..(len - 1)

\* The rank that a percentile has among the times in the buffer.
Rank(percent) == IF len = 1 THEN 1 ELSE (percent * len) \div 100

\* However often statistics were printed, and so the buffer reordered, before
\* more was recorded: the buffer holds every time recorded so far, or, once it
\* is full, some of them, each at most as often as it was recorded; min and
\* max are of all of them; and a percentile is the time that has its rank
\* among those in the buffer.
StatisticsAreExact ==
  /\ \A i \in Used : Occurrences(times, Used, times[i])
                     <= Occurrences(recorded, DOMAIN recorded, times[i])
  /\ count > 0 => \A i \in DOMAIN recorded : recorded[i] \in least..most
  /\ {least, most} \subseteq Range(recorded) \cup {INVALID_VALUE}
  /\ \A r \in reported :
       /\ UpTo(times, Used, r.value - 1) < Rank(r.percent)
       /\ Rank(r.percent) <= UpTo(times, Used, r.value)
-----------------------------------------------------------------------------
(* What StatisticsAreExact needs in order to be inductive. *)

\* What the buffer holds, 0 where nothing was recorded yet.
Time == Times \cup {0}

MetricTypeOK ==
  /\ times \in [0..(MetricCapacity - 1) -> Time]
  /\ count \in Nat /\ begin \in 0..(MetricCapacity - 1)
  /\ count < MetricCapacity => begin = count
  /\ recorded \in Seq(Time) /\ Len(recorded) = count
  /\ asked \in Percents \cup {0}
  /\ call \in [data : Nat, len : Nat, n : Nat, i : Nat, wi : Nat]
  /\ reported \in SUBSET [percent : Percents, value : Time]

\* As in StatisticsAreExact, but for every time.
NoneTooOften ==
  \A v \in Time : Occurrences(times, Used, v) <= Occurrences(recorded, DOMAIN recorded, v)

Extremes ==
  IF count = 0 THEN least = INVALID_VALUE /\ most = INVALID_VALUE
  ELSE /\ least \in Range(recorded) /\ most \in Range(recorded)
       /\ \A i \in DOMAIN recorded : least <= recorded[i] /\ recorded[i] <= most

\* The entries that this call of nth_min may still move.
Window == call.data..LastIndex

\* The time of the rank asked for is among the call's entries, at the n-th
\* place in order, for none before them is greater and none after them less.
RankInWindow ==
  /\ call.len > 0 /\ call.data + call.len <= len
  /\ call.len = 1 \/ call.n \in 1..call.len
  /\ call.data + (IF call.len = 1 THEN 1 ELSE call.n) = Rank(asked)
  /\ \A i \in Used, j \in Window :
       (i < call.data => times[i] <= times[j]) /\ (i > LastIndex => times[j] <= times[i])

\* The loop has put the entries less than the pivot before the others.
Partitioned ==
  /\ call.wi <= call.i /\ (call.i = 0 \/ call.i < call.len)
  /\ \A j \in 0..(call.wi - 1) : times[call.data + j] < times[LastIndex]
  /\ \A j \in call.wi..(call.i - 1) : times[call.data + j] >= times[LastIndex]

Selecting == asked # 0 => RankInWindow /\ Partitioned /\ reported = {}

MetricInv ==
  /\ MetricTypeOK /\ NoneTooOften /\ Extremes /\ Selecting
  /\ \A r \in reported : UpTo(times, Used, r.value - 1) < Rank(r.percent)
                         /\ Rank(r.percent) <= UpTo(times, Used, r.value)
=============================================================================
