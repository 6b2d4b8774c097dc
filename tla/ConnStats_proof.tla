--------------------------- MODULE ConnStats_proof --------------------------
(***************************************************************************)
(* Proofs about the statistics, for any number of requests and any size of *)
(* the log: the counter is exact, the log in order of time, nothing is     *)
(* missing from it until it is trimmed, and no average exceeds the highest *)
(* load there has been.                                                    *)
(***************************************************************************)
EXTENDS ConnStats, FiniteSetTheorems, TLAPS

Entries == [time : 0..MaxClock, value : 0..Cardinality(Requests)]

InFlight == {r \in Requests : at[r] \in {"started", "busy"}}

\* Counted, with the sample still to come.
Pending == {r \in Requests : at[r] \in {"started", "ended"}}

\* No sample is later than now.
NotAhead == \A i \in 1..Len(samples) : samples[i].time <= clock

\* The values that have been logged or are about to be.
Known == {s.value : s \in Range(samples)} \cup {count[r] : r \in Pending}

WalkInv ==
  trimmed = {} =>
    /\ Known \subseteq 0..peak
    /\ \A v \in 1..peak : v \in Known
    /\ samples # <<>> \/ Pending # {} => active \in Known

\* No value logged or to be logged is above the highest the counter has been.
UnderPeak ==
  /\ \A i \in 1..Len(samples) : samples[i].value <= peak
  /\ \A r \in Pending : count[r] <= peak

Reports == [step : Nat, now : Nat, timed : BOOLEAN, alarm : BOOLEAN, current : Nat, usage : Nat]

AlarmInv == rep \in Reports /\ NoAlarmWithoutLoad

StatsInv ==
  /\ StatsTypeOK /\ CounterIsInFlight /\ LogInTimeOrder
  /\ NotAhead /\ peak \in Nat /\ active <= peak /\ WalkInv
  /\ UnderPeak /\ AlarmInv

----------------------------------------------------------------------------

LEMMA RequestsFinite == IsFiniteSet(Requests) /\ Cardinality(Requests) \in Nat /\ MaxClock \in Nat /\ MaxSamples \in Nat \ {0}
  BY StatsAssumption, FS_CardinalityType

\* The counter stays within the number of requests.
LEMMA InFlightBounded ==
  IsFiniteSet(InFlight) /\ Cardinality(InFlight) \in Nat /\ Cardinality(InFlight) <= Cardinality(Requests)
<1>1. InFlight \in SUBSET Requests
  BY DEF InFlight
<1> QED BY <1>1, RequestsFinite, FS_Subset, FS_CardinalityType

\* What is left of a log that has been trimmed.
LEMMA Trimmed ==
  ASSUME NEW S, NEW s \in Seq(S), NEW n \in 0..Len(s)
  PROVE  LET t == SubSeq(s, n + 1, Len(s))
         IN  /\ t \in Seq(S) /\ Len(t) = Len(s) - n
             /\ \A i \in 1..Len(t) : t[i] = s[i + n] /\ i + n \in 1..Len(s)
             /\ n = 0 => t = s
<1> DEFINE t == SubSeq(s, n + 1, Len(s))
<1>1. Len(s) \in Nat /\ n \in Nat /\ n <= Len(s)
  OBVIOUS
<1>2. t = [i \in 1..(Len(s) - n) |-> s[i + n]]
  BY <1>1
<1>3. \A i \in 1..(Len(s) - n) : i + n \in 1..Len(s)
  BY <1>1
<1>4. Len(s) - n \in Nat
  BY <1>1
<1>5. t \in Seq(S) /\ Len(t) = Len(s) - n
  BY <1>2, <1>3, <1>4
<1>6. n = 0 => t = s
  BY <1>1
<1> QED BY <1>2, <1>3, <1>5, <1>6

\* What Record makes of the log.
LEMMA Logged ==
  ASSUME StatsInv, NEW r \in Requests, Record(r)
  PROVE  /\ samples' \in Seq(Entries) /\ Len(samples') <= MaxSamples
         /\ \E n \in Nat : \A i \in 1..Len(samples') :
              /\ i + n <= Len(samples) => samples'[i] = samples[i + n] /\ i + n \in 1..Len(samples)
              /\ i + n > Len(samples) => samples'[i] = Sample(clock, count[r]) /\ i = Len(samples')
         /\ trimmed' = {} => trimmed = {} /\ samples' = Append(samples, Sample(clock, count[r]))
<1> DEFINE all == Append(samples, Sample(clock, count[r]))
           over == IF Len(all) > MaxSamples THEN Len(all) - MaxSamples ELSE 0
<1>1. samples \in Seq(Entries) /\ Len(samples) <= MaxSamples /\ Len(samples) \in Nat
  BY DEF StatsInv, StatsTypeOK, Entries
<1>2. Sample(clock, count[r]) \in Entries
  BY DEF StatsInv, StatsTypeOK, Sample, Entries
<1>3. /\ all \in Seq(Entries) /\ Len(all) = Len(samples) + 1
      /\ all[Len(samples) + 1] = Sample(clock, count[r])
      /\ \A i \in 1..Len(samples) : all[i] = samples[i]
  BY <1>1, <1>2
<1>4. samples' = SubSeq(all, over + 1, Len(all)) /\ trimmed' = trimmed \cup {all[k] : k \in 1..over}
  BY DEF Record
<1> HIDE DEF all
<1>5. over \in 0..Len(all) /\ Len(all) - over <= MaxSamples
  BY <1>1, <1>3, RequestsFinite
<1> HIDE DEF over
<1>6. /\ samples' \in Seq(Entries) /\ Len(samples') = Len(all) - over
      /\ \A i \in 1..Len(samples') : samples'[i] = all[i + over] /\ i + over \in 1..Len(all)
      /\ over = 0 => samples' = all
  BY <1>3, <1>4, <1>5, Trimmed
<1>7. ASSUME trimmed' = {}  PROVE trimmed = {} /\ over = 0
  <2>1. over # 0 => 1 \in 1..over
    BY <1>5
  <2> QED BY <1>4, <1>7, <2>1
<1>8. \A i \in 1..Len(samples') :
        /\ i + over <= Len(samples) => samples'[i] = samples[i + over] /\ i + over \in 1..Len(samples)
        /\ i + over > Len(samples) => samples'[i] = Sample(clock, count[r]) /\ i = Len(samples')
  <2> SUFFICES ASSUME NEW i \in 1..Len(samples')
               PROVE  /\ i + over <= Len(samples) => samples'[i] = samples[i + over] /\ i + over \in 1..Len(samples)
                      /\ i + over > Len(samples) => samples'[i] = Sample(clock, count[r]) /\ i = Len(samples')
    OBVIOUS
  <2>1. samples'[i] = all[i + over] /\ i + over \in 1..(Len(samples) + 1) /\ i + over \in Nat /\ i + over >= 1
    BY <1>3, <1>6
  <2>2. Len(samples') = Len(samples) + 1 - over /\ over \in Nat
    BY <1>3, <1>5, <1>6
  <2>3. i + over <= Len(samples) => i + over \in 1..Len(samples)
    BY <1>1, <2>1
  <2>4. i + over > Len(samples) => i + over = Len(samples) + 1 /\ i = Len(samples')
    BY <1>1, <2>1, <2>2
  <2> QED BY <1>3, <2>1, <2>3, <2>4
<1>9. over \in Nat
  BY <1>3, <1>5
<1> QED BY <1>5, <1>6, <1>7, <1>8, <1>9 DEF all
LEMMA StatsInitInv == StatsInit => StatsInv
<1> SUFFICES ASSUME StatsInit PROVE StatsInv
  OBVIOUS
<1>1. samples = <<>> /\ Len(samples) = 0 /\ samples \in Seq(Entries) /\ Range(samples) = {}
  <2>1. samples = <<>> /\ DOMAIN samples = {} /\ samples \in Seq(Entries)
    BY DEF StatsInit
  <2> QED BY <2>1 DEF Range
<1>2. InFlight = {} /\ Pending = {}
  BY DEF StatsInit, InFlight, Pending
<1>3. Known = {}
  BY <1>1, <1>2 DEF Known
<1>4. StatsTypeOK
  BY <1>1, RequestsFinite DEF StatsInit, StatsTypeOK, Entries
<1>5. CounterIsInFlight
  BY <1>2, FS_EmptySet DEF StatsInit, CounterIsInFlight, InFlight
<1>6. UnderPeak /\ AlarmInv
  BY <1>1, <1>2 DEF StatsInit, UnderPeak, AlarmInv, Reports, NoReport, NoAlarmWithoutLoad
<1> QED BY <1>1, <1>2, <1>3, <1>4, <1>5, <1>6
        DEF StatsInit, StatsInv, LogInTimeOrder, NotAhead, WalkInv

----------------------------------------------------------------------------
(* The counter.                                                            *)

LEMMA CounterNext ==
  ASSUME StatsInv, [StatsNext]_statsVars
  PROVE  CounterIsInFlight' /\ active' \in 0..Cardinality(Requests)
<1>0. active = Cardinality(InFlight) /\ at \in [Requests -> {"new", "started", "busy", "ended", "gone"}]
  BY DEF StatsInv, CounterIsInFlight, InFlight, StatsTypeOK
<1>1. ASSUME NEW r \in Requests, Start(r)  PROVE active' = Cardinality(InFlight')
  <2>1. InFlight' = InFlight \cup {r} /\ r \notin InFlight
    BY <1>0, <1>1 DEF Start, InFlight
  <2> QED BY <1>0, <1>1, <2>1, InFlightBounded, FS_AddElement DEF Start
<1>2. ASSUME NEW r \in Requests, End(r)  PROVE active' = Cardinality(InFlight')
  <2>1. InFlight' = InFlight \ {r} /\ r \in InFlight
    BY <1>0, <1>2 DEF End, InFlight
  <2> QED BY <1>0, <1>2, <2>1, InFlightBounded, FS_RemoveElement DEF End
<1>3. ASSUME NEW r \in Requests, Record(r)  PROVE active' = Cardinality(InFlight')
  <2>1. InFlight' = InFlight
    BY <1>0, <1>3 DEF Record, InFlight
  <2> QED BY <1>0, <1>3, <2>1 DEF Record
<1>4. ASSUME Tick \/ ReadTime \/ ReadWindow \/ ReadCounter \/ UNCHANGED statsVars
      PROVE  active' = Cardinality(InFlight')
  <2>1. active' = active /\ at' = at
    BY <1>4 DEF Tick, ReadTime, ReadWindow, ReadCounter, statsVars
  <2>2. InFlight' = InFlight
    BY <2>1 DEF InFlight
  <2> QED BY <1>0, <2>1, <2>2
<1>5. active' = Cardinality(InFlight')
  BY <1>1, <1>2, <1>3, <1>4 DEF StatsNext
<1>6. InFlight' \in SUBSET Requests
  BY DEF InFlight
<1>7. Cardinality(InFlight') \in Nat /\ Cardinality(InFlight') <= Cardinality(Requests)
  BY <1>6, RequestsFinite, FS_Subset, FS_CardinalityType
<1> QED BY <1>5, <1>7, RequestsFinite DEF CounterIsInFlight, InFlight

----------------------------------------------------------------------------
(* Types, and the order of the log.                                        *)

LEMMA LogNext ==
  ASSUME StatsInv, [StatsNext]_statsVars
  PROVE  StatsTypeOK' /\ LogInTimeOrder' /\ NotAhead' /\ peak' \in Nat /\ active' <= peak'
<1>0. /\ StatsTypeOK /\ LogInTimeOrder /\ NotAhead /\ peak \in Nat /\ active <= peak
      /\ active' \in 0..Cardinality(Requests)
  BY CounterNext DEF StatsInv
<1>1. samples \in Seq(Entries) /\ clock \in Nat /\ active \in Nat /\ Len(samples) \in Nat
      /\ \A i \in 1..Len(samples) : samples[i].time \in Nat
  <2>1. samples \in Seq(Entries) /\ clock \in Nat /\ active \in Nat /\ Len(samples) \in Nat
    BY <1>0, RequestsFinite DEF StatsTypeOK, Entries
  <2>2. \A i \in 1..Len(samples) : samples[i] \in Entries
    BY <2>1
  <2>3. \A e \in Entries : e.time \in Nat
    BY RequestsFinite DEF Entries
  <2> QED BY <2>1, <2>2, <2>3
<1>2. ASSUME NEW r \in Requests, Record(r)
      PROVE  StatsTypeOK' /\ LogInTimeOrder' /\ NotAhead' /\ peak' \in Nat /\ active' <= peak'
  <2>1. clock' = clock /\ active' = active /\ count' = count /\ peak' = peak
    BY <1>2 DEF Record
  <2>2. StatsTypeOK'
    BY <1>0, <1>2, <2>1, Logged DEF Record, StatsTypeOK, Entries
  <2>3. PICK n \in Nat : \A i \in 1..Len(samples') :
          /\ i + n <= Len(samples) => samples'[i] = samples[i + n] /\ i + n \in 1..Len(samples)
          /\ i + n > Len(samples) => samples'[i] = Sample(clock, count[r]) /\ i = Len(samples')
    BY <1>2, Logged
  <2>4. Sample(clock, count[r]).time = clock
    BY DEF Sample
  <2>5. NotAhead'
    <3>1. \A i \in 1..Len(samples') : samples'[i].time <= clock
      BY <1>0, <1>1, <2>3, <2>4 DEF NotAhead
    <3> QED BY <2>1, <3>1 DEF NotAhead
  <2>6. LogInTimeOrder'
    <3> SUFFICES ASSUME NEW i \in 1..Len(samples'), NEW j \in 1..Len(samples'), i < j
                 PROVE  samples'[i].time <= samples'[j].time
      BY DEF LogInTimeOrder
    <3>1. i + n <= Len(samples)
      <4>1. Len(samples') \in Nat
        BY <1>2, Logged
      <4> QED BY <1>1, <2>3, <4>1
    <3>2. samples'[i] = samples[i + n] /\ i + n \in 1..Len(samples)
      BY <2>3, <3>1
    <3>3. CASE j + n <= Len(samples)
      <4>1. samples'[j] = samples[j + n] /\ j + n \in 1..Len(samples) /\ i + n < j + n
        BY <2>3, <3>3
      <4> QED BY <1>0, <3>2, <4>1 DEF LogInTimeOrder
    <3>4. CASE j + n > Len(samples)
      BY <1>0, <2>3, <2>4, <3>2, <3>4 DEF NotAhead
    <3> QED BY <1>1, <3>3, <3>4
  <2> QED BY <1>0, <2>1, <2>2, <2>5, <2>6
<1>3. ASSUME samples' = samples, clock' \in {clock, clock + 1}
      PROVE  LogInTimeOrder' /\ NotAhead'
  <2>1. LogInTimeOrder'
    BY <1>0, <1>3 DEF LogInTimeOrder
  <2>2. NotAhead'
    <3>1. \A i \in 1..Len(samples) : samples[i].time <= clock'
      BY <1>0, <1>1, <1>3 DEF NotAhead
    <3> QED BY <1>3, <3>1 DEF NotAhead
  <2> QED BY <2>1, <2>2
<1>4. ASSUME NEW r \in Requests, Start(r)
      PROVE  /\ StatsTypeOK' /\ peak' \in Nat /\ active' <= peak'
             /\ samples' = samples /\ clock' = clock
  BY <1>0, <1>1, <1>4 DEF Start, StatsTypeOK
<1>5. ASSUME NEW r \in Requests, End(r)
      PROVE  /\ StatsTypeOK' /\ peak' \in Nat /\ active' <= peak'
             /\ samples' = samples /\ clock' = clock
  BY <1>0, <1>1, <1>5 DEF End, StatsTypeOK
<1>6. CASE Tick
  <2>1. StatsTypeOK' /\ samples' = samples /\ clock' = clock + 1 /\ peak' = peak /\ active' = active
    BY <1>0, <1>6, RequestsFinite DEF Tick, StatsTypeOK
  <2> QED BY <1>0, <1>3, <2>1
<1>7. CASE ReadTime \/ ReadWindow \/ ReadCounter \/ UNCHANGED statsVars
  <2>1. UNCHANGED <<clock, active, samples, at, count, peak>>
    BY <1>7 DEF ReadTime, ReadWindow, ReadCounter, statsVars
  <2>2. StatsTypeOK'
    BY <1>0, <2>1 DEF StatsTypeOK
  <2> QED BY <1>0, <1>3, <2>1, <2>2
<1> QED BY <1>2, <1>3, <1>4, <1>5, <1>6, <1>7 DEF StatsNext

----------------------------------------------------------------------------
(* No value is lost between the counter and the log.                       *)

LEMMA WalkNext ==
  ASSUME StatsInv, [StatsNext]_statsVars
  PROVE  WalkInv'
<1> SUFFICES ASSUME trimmed' = {}
             PROVE  /\ Known' \subseteq 0..peak'
                    /\ \A v \in 1..peak' : v \in Known'
                    /\ samples' # <<>> \/ Pending' # {} => active' \in Known'
  BY DEF WalkInv
<1>0. /\ at \in [Requests -> {"new", "started", "busy", "ended", "gone"}]
      /\ count \in [Requests -> 0..Cardinality(Requests)] /\ samples \in Seq(Entries)
      /\ peak \in Nat /\ active \in Nat /\ active <= peak /\ WalkInv
      /\ active' \in 0..Cardinality(Requests) /\ Cardinality(Requests) \in Nat
  BY CounterNext, RequestsFinite DEF StatsInv, StatsTypeOK, Entries
<1>1. ASSUME NEW r \in Requests, Record(r)
      PROVE  /\ Known' \subseteq 0..peak'
             /\ \A v \in 1..peak' : v \in Known'
             /\ active' \in Known'
  <2>1. trimmed = {} /\ samples' = Append(samples, Sample(clock, count[r]))
    BY <1>1, Logged
  <2>2. active' = active /\ count' = count /\ peak' = peak /\ r \in Pending /\ Pending' = Pending \ {r}
    BY <1>0, <1>1 DEF Record, Pending
  <2>3. Range(samples') = Range(samples) \cup {Sample(clock, count[r])}
    <3>1. Sample(clock, count[r]) \in Entries
      BY <1>0 DEF Sample, Entries, StatsInv, StatsTypeOK
    <3>2. /\ DOMAIN samples = 1..Len(samples) /\ DOMAIN samples' = 1..(Len(samples) + 1) /\ Len(samples) \in Nat
          /\ \A i \in 1..Len(samples) : samples'[i] = samples[i]
          /\ samples'[Len(samples) + 1] = Sample(clock, count[r])
      BY <1>0, <2>1, <3>1
    <3> QED BY <3>2 DEF Range
  <2>4. Sample(clock, count[r]).value = count[r]
    BY DEF Sample
  <2>5. {s.value : s \in Range(samples')} = {s.value : s \in Range(samples)} \cup {count[r]}
    BY <2>3, <2>4
  <2>6. {count'[q] : q \in Pending'} \cup {count[r]} = {count[q] : q \in Pending}
    BY <2>2
  <2>7. Known' = Known
    BY <2>5, <2>6 DEF Known
  <2> QED BY <1>0, <2>1, <2>2, <2>7 DEF WalkInv
<1>2. ASSUME NEW r \in Requests, Start(r) \/ End(r)
      PROVE  /\ Known' \subseteq 0..peak'
             /\ \A v \in 1..peak' : v \in Known'
             /\ active' \in Known'
  <2>1. /\ r \notin Pending /\ Pending' = Pending \cup {r} /\ samples' = samples /\ trimmed' = trimmed
        /\ count' = [count EXCEPT ![r] = active']
    BY <1>0, <1>2 DEF Start, End, Pending
  <2>2. \A q \in Pending : count'[q] = count[q]
    BY <1>0, <2>1 DEF Pending
  <2>3. count'[r] = active'
    BY <1>0, <2>1
  <2>4. Known' = Known \cup {active'}
    BY <2>1, <2>2, <2>3 DEF Known
  <2>5. /\ peak' \in Nat /\ peak <= peak' /\ active' <= peak'
        /\ peak' \in {peak, active'} /\ (peak' = active' /\ peak' # peak => peak' = peak + 1)
    <3>1. CASE Start(r)
      BY <1>0, <3>1 DEF Start
    <3>2. CASE End(r)
      BY <1>0, <3>2 DEF End
    <3> QED BY <1>2, <3>1, <3>2
  <2>6. Known \subseteq 0..peak /\ \A v \in 1..peak : v \in Known
    BY <1>0, <2>1 DEF WalkInv
  <2>7. Known' \subseteq 0..peak'
    BY <1>0, <2>4, <2>5, <2>6
  <2>8. \A v \in 1..peak' : v \in 1..peak \/ v = active'
    BY <1>0, <2>5
  <2> QED BY <2>4, <2>6, <2>7, <2>8
<1>3. CASE Tick \/ ReadTime \/ ReadWindow \/ ReadCounter \/ UNCHANGED statsVars
  <2>1. UNCHANGED <<active, samples, trimmed, at, count, peak>>
    BY <1>3 DEF Tick, ReadTime, ReadWindow, ReadCounter, statsVars
  <2>2. Known' = Known /\ Pending' = Pending
    BY <2>1 DEF Known, Pending
  <2> QED BY <1>0, <2>1, <2>2 DEF WalkInv
<1> QED BY <1>1, <1>2, <1>3 DEF StatsNext

----------------------------------------------------------------------------
(* The averages.                                                           *)

LEMMA UnderPeakNext ==
  ASSUME StatsInv, [StatsNext]_statsVars
  PROVE  UnderPeak' /\ peak <= peak'
<1>0. /\ at \in [Requests -> {"new", "started", "busy", "ended", "gone"}]
      /\ count \in [Requests -> 0..Cardinality(Requests)] /\ samples \in Seq(Entries)
      /\ peak \in Nat /\ active \in Nat /\ active <= peak /\ UnderPeak
      /\ Cardinality(Requests) \in Nat
  BY RequestsFinite DEF StatsInv, StatsTypeOK, Entries
<1>1. \A i \in 1..Len(samples) : samples[i].value \in Nat
  <2>1. \A i \in 1..Len(samples) : samples[i] \in Entries
    BY <1>0
  <2> QED BY <1>0, <2>1 DEF Entries
<1>2. ASSUME NEW r \in Requests, Record(r)
      PROVE  UnderPeak' /\ peak <= peak'
  <2>1. count' = count /\ peak' = peak /\ r \in Pending /\ Pending' \subseteq Pending
    BY <1>0, <1>2 DEF Record, Pending
  <2>2. PICK n \in Nat : \A i \in 1..Len(samples') :
          /\ i + n <= Len(samples) => samples'[i] = samples[i + n] /\ i + n \in 1..Len(samples)
          /\ i + n > Len(samples) => samples'[i] = Sample(clock, count[r]) /\ i = Len(samples')
    BY <1>2, Logged
  <2>3. Sample(clock, count[r]).value <= peak
    BY <1>0, <2>1 DEF Sample, UnderPeak
  <2>4. ASSUME NEW i \in 1..Len(samples')  PROVE samples'[i].value <= peak
    <3>1. i + n <= Len(samples) \/ i + n > Len(samples)
      BY <1>0
    <3>2. CASE i + n <= Len(samples)
      <4>1. samples'[i] = samples[i + n] /\ i + n \in 1..Len(samples)
        BY <2>2, <3>2
      <4> QED BY <1>0, <4>1 DEF UnderPeak
    <3>3. CASE i + n > Len(samples)
      BY <2>2, <2>3, <3>3
    <3> QED BY <3>1, <3>2, <3>3
  <2>5. \A q \in Pending' : count'[q] <= peak
    BY <1>0, <2>1 DEF UnderPeak
  <2> QED BY <1>0, <2>1, <2>4, <2>5 DEF UnderPeak
<1>3. ASSUME NEW r \in Requests, Start(r) \/ End(r)
      PROVE  UnderPeak' /\ peak <= peak'
  <2>1. /\ Pending' = Pending \cup {r} /\ samples' = samples
        /\ count' = [count EXCEPT ![r] = active'] /\ Pending \subseteq Requests
    BY <1>0, <1>3 DEF Start, End, Pending
  <2>2. peak' \in Nat /\ peak <= peak' /\ active' <= peak' /\ active' \in Int
    <3>1. CASE Start(r)
      BY <1>0, <3>1 DEF Start
    <3>2. CASE End(r)
      BY <1>0, <3>2 DEF End
    <3> QED BY <1>3, <3>1, <3>2
  <2>3. \A i \in 1..Len(samples') : samples'[i].value <= peak'
    BY <1>0, <1>1, <2>1, <2>2 DEF UnderPeak
  <2>4. ASSUME NEW q \in Pending'  PROVE count'[q] <= peak'
    <3>1. CASE q = r
      BY <1>0, <2>1, <2>2, <3>1
    <3>2. CASE q # r
      <4>1. q \in Pending /\ q \in Requests /\ count'[q] = count[q]
        BY <1>0, <2>1, <3>2
      <4> QED BY <1>0, <2>2, <4>1 DEF UnderPeak
    <3> QED BY <3>1, <3>2
  <2> QED BY <2>2, <2>3, <2>4 DEF UnderPeak
<1>4. CASE Tick \/ ReadTime \/ ReadWindow \/ ReadCounter \/ UNCHANGED statsVars
  <2>1. UNCHANGED <<samples, at, count, peak>>
    BY <1>4 DEF Tick, ReadTime, ReadWindow, ReadCounter, statsVars
  <2>2. Pending' = Pending
    BY <2>1 DEF Pending
  <2> QED BY <1>0, <2>1, <2>2 DEF UnderPeak
<1> QED BY <1>2, <1>3, <1>4 DEF StatsNext

\* A mean does not exceed its largest term.
LEMMA MeanUnderPeak ==
  ASSUME StatsInv, NEW window, Reaches(window)
  PROVE  peak >= Cpus
<1> DEFINE relevant == {i \in 1..Len(samples) : samples[i].time + window >= rep.now}
           units    == {u \in relevant \X (1..Cardinality(Requests)) : u[2] <= samples[u[1]].value}
           grid     == relevant \X (1..peak)
<1>1. /\ peak \in Nat /\ Cpus \in Nat \ {0} /\ active \in Nat /\ active <= peak /\ UnderPeak
      /\ samples \in Seq(Entries) /\ Len(samples) \in Nat /\ Cardinality(Requests) \in Nat
  BY RequestsFinite, StatsAssumption DEF StatsInv, StatsTypeOK, Entries
<1>2. CASE relevant = {}
  BY <1>1, <1>2 DEF Reaches
<1>3. CASE relevant # {}
  <2>1. Cardinality(units) >= Cpus * Cardinality(relevant)
    BY <1>3 DEF Reaches
  <2>2. IsFiniteSet(relevant) /\ Cardinality(relevant) \in Nat /\ Cardinality(relevant) # 0
    <3>1. relevant \in SUBSET (1..Len(samples))
      OBVIOUS
    <3>2. IsFiniteSet(1..Len(samples))
      BY <1>1, FS_Interval
    <3> HIDE DEF relevant
    <3> QED BY <1>3, <3>1, <3>2, FS_Subset, FS_CardinalityType, FS_EmptySet
  <2>3. IsFiniteSet(1..peak) /\ Cardinality(1..peak) = peak
    <3>1. \A b \in Int : IsFiniteSet(1..b) /\ Cardinality(1..b) = IF 1 > b THEN 0 ELSE b - 1 + 1
      BY FS_Interval
    <3> QED BY <1>1, <3>1
  <2>4. units \subseteq grid
    <3> SUFFICES ASSUME NEW u \in units  PROVE u \in grid
      OBVIOUS
    <3>1. u \in relevant \X (1..Cardinality(Requests)) /\ u[2] <= samples[u[1]].value
      OBVIOUS
    <3>2. u[1] \in 1..Len(samples) /\ u[1] \in relevant /\ u[2] \in 1..Cardinality(Requests)
      BY <3>1
    <3>3. samples[u[1]] \in Entries /\ samples[u[1]].value <= peak
      BY <1>1, <3>2 DEF UnderPeak
    <3>4. samples[u[1]].value \in Nat
      BY <1>1, <3>3 DEF Entries
    <3>5. u[2] \in 1..peak
      BY <1>1, <3>1, <3>2, <3>3, <3>4
    <3> QED BY <3>1, <3>2, <3>5
  <2> HIDE DEF relevant
  <2>5. IsFiniteSet(grid) /\ Cardinality(grid) = Cardinality(relevant) * peak
    BY <2>2, <2>3, FS_Product
  <2> HIDE DEF grid, units
  <2>6. Cardinality(units) <= Cardinality(relevant) * peak /\ Cardinality(units) \in Nat
    BY <2>4, <2>5, FS_Subset, FS_CardinalityType
  <2>7. ASSUME NEW n \in Nat, n # 0, n * peak >= Cpus * n  PROVE peak >= Cpus
    BY <1>1, <2>7
  <2>8. Cardinality(relevant) * peak >= Cpus * Cardinality(relevant)
    <3>1. Cardinality(relevant) * peak \in Nat /\ Cpus * Cardinality(relevant) \in Nat
      BY <1>1, <2>2
    <3> QED BY <2>1, <2>6, <3>1
  <2> QED BY <2>2, <2>7, <2>8
<1> QED BY <1>2, <1>3

LEMMA AlarmNext ==
  ASSUME StatsInv, [StatsNext]_statsVars
  PROVE  AlarmInv'
<1>0. /\ rep \in Reports /\ NoAlarmWithoutLoad /\ active \in Nat /\ clock \in Nat
      /\ peak \in Nat /\ peak' \in Nat /\ peak <= peak' /\ Cpus \in Nat
  BY UnderPeakNext, LogNext, RequestsFinite, StatsAssumption DEF StatsInv, AlarmInv, StatsTypeOK
<1>1. CASE ReadTime
  BY <1>0, <1>1 DEF ReadTime, AlarmInv, NoAlarmWithoutLoad, Reports
<1>2. CASE ReadCounter
  <2>1. rep.step + 1 \in Nat
    BY <1>0 DEF Reports
  <2>2. rep' \in Reports /\ rep'.alarm = rep.alarm /\ peak' = peak
    BY <1>0, <1>2, <2>1 DEF ReadCounter, Reports
  <2> QED BY <1>0, <2>2 DEF AlarmInv, NoAlarmWithoutLoad
<1>3. CASE ReadWindow
  <2> DEFINE reached == rep.step > 0 /\ Reaches(Windows[rep.step + 1])
  <2>1. reached => peak >= Cpus
    BY MeanUnderPeak
  <2>2. rep' = [rep EXCEPT !.timed = FALSE, !.step = rep.step + 1, !.alarm = rep.alarm \/ reached]
        /\ peak' = peak
    BY <1>3 DEF ReadWindow
  <2> DEFINE sounded == rep.alarm \/ reached
  <2>3. rep' = [rep EXCEPT !.timed = FALSE, !.step = rep.step + 1, !.alarm = sounded] /\ sounded \in BOOLEAN
    BY <2>2
  <2>5. sounded => rep.alarm \/ reached
    OBVIOUS
  <2> HIDE DEF reached, sounded
  <2>4. rep' \in Reports /\ (rep'.alarm => rep.alarm \/ reached)
    <3>1. rep.step + 1 \in Nat
      BY <1>0 DEF Reports
    <3> QED BY <1>0, <2>3, <2>5, <3>1 DEF Reports
  <2> QED BY <1>0, <2>1, <2>2, <2>4 DEF AlarmInv, NoAlarmWithoutLoad
<1>4. CASE rep' = rep
  BY <1>0, <1>4 DEF AlarmInv, NoAlarmWithoutLoad
<1>5. ASSUME NEW r \in Requests, Start(r) \/ End(r) \/ Record(r)  PROVE rep' = rep
  BY <1>5 DEF Start, End, Record
<1>6. Tick \/ UNCHANGED statsVars => rep' = rep
  BY DEF Tick, statsVars
<1> QED BY <1>1, <1>2, <1>3, <1>4, <1>5, <1>6 DEF StatsNext

\* StatsInv holds in every state.
THEOREM StatsInvariant == StatsSpec => []StatsInv
<1>1. StatsInv /\ [StatsNext]_statsVars => StatsInv'
  BY CounterNext, LogNext, WalkNext, UnderPeakNext, AlarmNext DEF StatsInv
<1> QED BY StatsInitInv, <1>1, PTL DEF StatsSpec

----------------------------------------------------------------------------
(* The properties.                                                         *)

\* For any number of requests, the counter is the number of requests in flight;
\* fetch_sub never wraps around (stats.rs:41-44).
THEOREM CounterIsExact == StatsSpec => []CounterIsInFlight
<1>1. StatsInv => CounterIsInFlight
  BY DEF StatsInv
<1> QED BY <1>1, StatsInvariant, PTL

\* Types: the log never holds more than max_samples (stats.rs:54-56).
THEOREM StatsTypes == StatsSpec => []StatsTypeOK
<1>1. StatsInv => StatsTypeOK
  BY DEF StatsInv
<1> QED BY <1>1, StatsInvariant, PTL

\* For any number of requests and any size of the log, it is in order of time
\* (stats.rs:46-58).
THEOREM LogIsInTimeOrder == StatsSpec => []LogInTimeOrder
<1>1. StatsInv => LogInTimeOrder
  BY DEF StatsInv
<1> QED BY <1>1, StatsInvariant, PTL

\* For any number of requests, what the log misses has been trimmed: in whatever order
\* updates log, no level the counter has reached goes missing (stats.rs:34-58).
THEOREM LogMissesNothing == StatsSpec => []LogIsTheWalk
<1>1. StatsInv => LogIsTheWalk
  <2> SUFFICES ASSUME StatsInv, Quiet, trimmed = {}
               PROVE  LET values == {s.value : s \in Range(samples)}
                      IN  /\ values \subseteq 0..peak
                          /\ peak > 0 => 1..peak \subseteq values
                          /\ samples # <<>> => active \in values
    BY DEF LogIsTheWalk
  <2>1. Pending = {}
    BY DEF Quiet, Pending
  <2>2. Known = {s.value : s \in Range(samples)}
    BY <2>1 DEF Known
  <2> QED BY <2>2 DEF StatsInv, WalkInv
<1> QED BY <1>1, StatsInvariant, PTL

\* For any number of requests, any log and any windows, however the report's reads fall
\* between the updates: it raises no alarm unless the load has reached the number of
\* CPUs (stats.rs:74-101).
THEOREM AlarmsAreForLoad == StatsSpec => []NoAlarmWithoutLoad
<1>1. StatsInv => NoAlarmWithoutLoad
  BY DEF StatsInv, AlarmInv
<1> QED BY <1>1, StatsInvariant, PTL
=============================================================================
