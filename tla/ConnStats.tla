----------------------------- MODULE ConnStats ------------------------------
(***************************************************************************)
(* The connection statistics behind /stats (src/src/stats.rs): a counter   *)
(* updated by atomic operations, a log of samples under a mutex, and a     *)
(* report that reads both, window by window.  An update is two steps, the  *)
(* counter and then the sample, and the requests that take them run in     *)
(* parallel; so does the report.                                           *)
(*                                                                         *)
(* Time is a clock in units of the model; an average is kept only as far   *)
(* as the report tells it apart: whether it reaches the number of CPUs.    *)
(***************************************************************************)
EXTENDS Naturals, Sequences, FiniteSets, Functions

CONSTANTS
  Requests,    \* decode requests, each handled at most once
  Cpus,        \* num_cpus
  MaxSamples,  \* max_samples (6000)
  Windows,     \* the windows of the report, shortest first; the first, which
               \* is too short to count, raises no alarm
  MaxClock     \* bound on the clock

ASSUME StatsAssumption ==
  /\ IsFiniteSet(Requests) /\ Cpus \in Nat \ {0} /\ MaxSamples \in Nat \ {0}
  /\ Windows \in Seq(Nat) /\ Windows # <<>> /\ MaxClock \in Nat

VARIABLES
  clock,   \* what Instant::now() reads
  active,  \* active_connections
  samples, \* the log, each entry with its time and value
  trimmed, \* entries that have been trimmed off
  at,      \* where a request is: "new", "started" (counted, sample to come),
           \* "busy", "ended" (no longer counted, sample to come), "gone"
  count,   \* what a request's fetch_add or fetch_sub came to
  peak,    \* the highest active has been
  rep      \* the report in the making, see NoReport

statsVars == <<clock, active, samples, trimmed, at, count, peak, rep>>

\* step: the window to look at next, then the two reads of the counter;
\* now: the time the current window ends, read before the lock; alarm: a window
\* but the first has reached 1.0; current, usage: the numbers of the report
NoReport == [step |-> 0, now |-> 0, timed |-> FALSE, alarm |-> FALSE,
             current |-> 0, usage |-> 0]

StatsInit ==
  /\ clock = 0 /\ active = 0 /\ samples = <<>> /\ trimmed = {} /\ peak = 0
  /\ at = [r \in Requests |-> "new"] /\ count = [r \in Requests |-> 0]
  /\ rep = NoReport

Sample(t, v) == [time |-> t, value |-> v]

----------------------------------------------------------------------------
(* Faults.                                                                 *)

\* fetch_add and fetch_sub return the old value, taken for the new one
EndMiscounted(r) ==
  /\ at[r] = "busy"
  /\ active' = active - 1
  /\ count' = [count EXCEPT ![r] = active]
  /\ at' = [at EXCEPT ![r] = "ended"]
  /\ UNCHANGED <<clock, samples, trimmed, peak, rep>>

StartMiscounted(r) ==
  /\ at[r] = "new"
  /\ active' = active + 1 /\ peak' = IF active' > peak THEN active' ELSE peak
  /\ count' = [count EXCEPT ![r] = active' + 1]
  /\ at' = [at EXCEPT ![r] = "started"]
  /\ UNCHANGED <<clock, samples, trimmed, rep>>

\* the time of a sample read before the lock is taken
RecordTimedEarly(r) ==
  /\ at[r] \in {"started", "ended"}
  /\ \E t \in {clock, clock - 1} \cap Nat : samples' = Append(samples, Sample(t, count[r]))
  /\ at' = [at EXCEPT ![r] = IF @ = "started" THEN "busy" ELSE "gone"]
  /\ UNCHANGED <<clock, active, count, peak, trimmed, rep>>

\* the guard of the early returns forgotten: only a finished request ends
EndLeaks(r) ==
  /\ at[r] = "busy"
  /\ active' \in {active, active - 1}
  /\ count' = [count EXCEPT ![r] = active']
  /\ at' = [at EXCEPT ![r] = "ended"]
  /\ UNCHANGED <<clock, samples, trimmed, peak, rep>>

----------------------------------------------------------------------------

Tick ==
  /\ clock < MaxClock
  /\ clock' = clock + 1
  /\ UNCHANGED <<active, samples, trimmed, at, count, peak, rep>>

\* connection_start: fetch_add(1) + 1
Start(r) ==
  /\ at[r] = "new"
  /\ active' = active + 1 /\ peak' = IF active' > peak THEN active' ELSE peak
  /\ count' = [count EXCEPT ![r] = active']
  /\ at' = [at EXCEPT ![r] = "started"]
  /\ UNCHANGED <<clock, samples, trimmed, rep>>

\* connection_end, from the guard's drop: fetch_sub(1) - 1
End(r) ==
  /\ at[r] = "busy"
  /\ active' = active - 1
  /\ count' = [count EXCEPT ![r] = active']
  /\ at' = [at EXCEPT ![r] = "ended"]
  /\ UNCHANGED <<clock, samples, trimmed, peak, rep>>

\* record_sample: time, push and trim, under the lock
Record(r) ==
  /\ at[r] \in {"started", "ended"}
  /\ LET all  == Append(samples, Sample(clock, count[r]))
         over == IF Len(all) > MaxSamples THEN Len(all) - MaxSamples ELSE 0
     IN  /\ samples' = SubSeq(all, over + 1, Len(all))
         /\ trimmed' = trimmed \cup {all[k] : k \in 1..over}
  /\ at' = [at EXCEPT ![r] = IF @ = "started" THEN "busy" ELSE "gone"]
  /\ UNCHANGED <<clock, active, count, peak, rep>>

\* to_json begins, and reads the time for its next window
ReadTime ==
  /\ rep.step < Len(Windows) /\ ~rep.timed
  /\ rep' = [rep EXCEPT !.timed = TRUE, !.now = clock]
  /\ UNCHANGED <<clock, active, samples, trimmed, at, count, peak>>

\* average: the mean of the samples in the window or, without any, the counter;
\* reaches is the mean divided by num_cpus reaching 1.0, the sum being the number of
\* units in the values
Reaches(window) ==
  LET relevant == {i \in 1..Len(samples) : samples[i].time + window >= rep.now}
      units    == {u \in relevant \X (1..Cardinality(Requests)) : u[2] <= samples[u[1]].value}
  IN  IF relevant = {} THEN active >= Cpus
                       ELSE Cardinality(units) >= Cpus * Cardinality(relevant)

ReadWindow ==
  /\ rep.timed
  /\ rep' = [rep EXCEPT !.timed = FALSE, !.step = rep.step + 1,
                        !.alarm = rep.alarm \/ (rep.step > 0 /\ Reaches(Windows[rep.step + 1]))]
  /\ UNCHANGED <<clock, active, samples, trimmed, at, count, peak>>

\* "current_connections" and then "utilization", each with a read of its own
ReadCounter ==
  /\ rep.step \in {Len(Windows), Len(Windows) + 1}
  /\ rep' = IF rep.step = Len(Windows)
            THEN [rep EXCEPT !.step = rep.step + 1, !.current = active]
            ELSE [rep EXCEPT !.step = rep.step + 1, !.usage = active]
  /\ UNCHANGED <<clock, active, samples, trimmed, at, count, peak>>

StatsNext ==
  \/ Tick \/ ReadTime \/ ReadWindow \/ ReadCounter
  \/ \E r \in Requests : Start(r) \/ End(r) \/ Record(r)

StatsSpec == StatsInit /\ [][StatsNext]_statsVars

----------------------------------------------------------------------------
(* Properties.                                                             *)

StatsTypeOK ==
  /\ clock \in 0..MaxClock /\ active \in 0..Cardinality(Requests)
  /\ samples \in Seq([time : 0..MaxClock, value : 0..Cardinality(Requests)])
  /\ Len(samples) <= MaxSamples
  /\ at \in [Requests -> {"new", "started", "busy", "ended", "gone"}]
  /\ count \in [Requests -> 0..Cardinality(Requests)]

\* The counter is the number of requests being handled, however their starts
\* and ends interleave and whichever way they are left (router.rs:92-103); in
\* particular fetch_sub never wraps around.
CounterIsInFlight ==
  active = Cardinality({r \in Requests : at[r] \in {"started", "busy"}})

\* The log is in order of time, so that trimming its front drops the oldest
\* samples and no window loses a sample that a shorter one keeps (stats.rs:46-58).
LogInTimeOrder ==
  \A i, j \in 1..Len(samples) : i < j => samples[i].time <= samples[j].time

\* Late samples and torn reads may blur a report, but it raises no alarm unless
\* the load has really reached the number of CPUs (stats.rs:93-101).
NoAlarmWithoutLoad == rep.alarm => peak >= Cpus

\* Samples may be logged in another order than they were counted in, but none goes
\* missing: when no update is under way the log, until it is trimmed, holds every
\* level up to the highest the counter has reached, and the current one
\* (stats.rs:34-58).
Quiet == \A r \in Requests : at[r] \notin {"started", "ended"}
LogIsTheWalk ==
  Quiet /\ trimmed = {} =>
    LET values == {s.value : s \in Range(samples)}
    IN  /\ values \subseteq 0..peak
        /\ peak > 0 => 1..peak \subseteq values
        /\ samples # <<>> => active \in values
=============================================================================
