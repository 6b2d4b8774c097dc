------------------------- MODULE DecoderPool_proof --------------------------
(***************************************************************************)
(* Proofs about the decoder pool, for any number of CPUs and requests: the *)
(* types, that no job is ever in two places, and that the pool implements  *)
(* the first-come-first-served JobService.                                 *)
(***************************************************************************)
EXTENDS DecoderPool, FiniteSetTheorems, TLAPS

----------------------------------------------------------------------------
(* Sequences and their elements.                                           *)

Distinct(s) == \A i, j \in 1..Len(s) : s[i] = s[j] => i = j

\* A queue that grows.
LEMMA Grows ==
  ASSUME NEW S, NEW s \in Seq(S), NEW x \in S
  PROVE  /\ Append(s, x) \in Seq(S) /\ Len(Append(s, x)) = Len(s) + 1
         /\ Range(Append(s, x)) = Range(s) \cup {x}
         /\ Distinct(s) /\ x \notin Range(s) => Distinct(Append(s, x))
<1>1. /\ Append(s, x) \in Seq(S) /\ Len(Append(s, x)) = Len(s) + 1
      /\ \A i \in 1..Len(s) : Append(s, x)[i] = s[i]
      /\ Append(s, x)[Len(s) + 1] = x
  OBVIOUS
<1>2. DOMAIN s = 1..Len(s) /\ DOMAIN Append(s, x) = 1..(Len(s) + 1) /\ Len(s) \in Nat
  OBVIOUS
<1>3. Range(Append(s, x)) = Range(s) \cup {x}
  BY <1>1, <1>2 DEF Range
<1>4. ASSUME Distinct(s), x \notin Range(s)  PROVE Distinct(Append(s, x))
  BY <1>1, <1>2, <1>4 DEF Distinct, Range
<1> QED BY <1>1, <1>3, <1>4

\* A queue that loses its head.
LEMMA Shrinks ==
  ASSUME NEW S, NEW s \in Seq(S), s # <<>>
  PROVE  /\ Head(s) \in S /\ Tail(s) \in Seq(S) /\ Len(Tail(s)) = Len(s) - 1
         /\ Range(s) = Range(Tail(s)) \cup {Head(s)}
         /\ Distinct(s) => Distinct(Tail(s)) /\ Head(s) \notin Range(Tail(s))
<1>1. /\ Head(s) \in S /\ Tail(s) \in Seq(S) /\ Len(Tail(s)) = Len(s) - 1 /\ Head(s) = s[1]
      /\ \A i \in 1..(Len(s) - 1) : Tail(s)[i] = s[i + 1]
  OBVIOUS
<1>2. DOMAIN s = 1..Len(s) /\ DOMAIN Tail(s) = 1..(Len(s) - 1) /\ Len(s) \in Nat /\ Len(s) >= 1
  OBVIOUS
<1>3. Range(s) = Range(Tail(s)) \cup {Head(s)}
  <2>1. \A i \in 1..Len(s) : i = 1 \/ (i - 1 \in 1..(Len(s) - 1) /\ (i - 1) + 1 = i)
    BY <1>2
  <2>2. \A i \in 1..(Len(s) - 1) : i + 1 \in 1..Len(s)
    BY <1>2
  <2>3. \A i \in 1..Len(s) : s[i] = Head(s) \/ \E j \in 1..(Len(s) - 1) : s[i] = Tail(s)[j]
    BY <1>1, <2>1
  <2>4. \A i \in 1..(Len(s) - 1) : Tail(s)[i] \in Range(s)
    BY <1>1, <1>2, <2>2 DEF Range
  <2>5. Head(s) \in Range(s)
    BY <1>1, <1>2 DEF Range
  <2>6. \A y \in Range(s) : y = Head(s) \/ y \in Range(Tail(s))
    BY <1>2, <2>3 DEF Range
  <2>7. \A y \in Range(Tail(s)) : y \in Range(s)
    BY <1>2, <2>4 DEF Range
  <2> QED BY <2>5, <2>6, <2>7
<1>4. ASSUME Distinct(s)  PROVE Distinct(Tail(s)) /\ Head(s) \notin Range(Tail(s))
  BY <1>1, <1>2, <1>4 DEF Distinct, Range
<1> QED BY <1>1, <1>3, <1>4

LEMMA Empty == <<>> \in Seq(Requests) /\ Len(<<>>) = 0 /\ Range(<<>>) = {} /\ Distinct(<<>>)
<1>1. <<>> \in Seq(Requests) /\ Len(<<>>) = 0 /\ DOMAIN <<>> = {}
  OBVIOUS
<1> QED BY <1>1 DEF Range, Distinct

----------------------------------------------------------------------------
(* The invariant.                                                          *)

\* A worker has a job exactly while it runs one, and no two have the same.
OneWorkerEach ==
  /\ \A w \in Workers : worker[w] = "run" => job[w] \in Requests
  /\ \A v, w \in Workers : worker[v] = "run" /\ worker[w] = "run" /\ job[v] = job[w] => v = w

\* A job is in one place: asked for, queued, running or over.
OnePlaceEach ==
  /\ Distinct(queue)
  /\ \A r \in Range(queue) : r \notin Running /\ r \notin over
  /\ \A r \in Running : r \notin over
  /\ \A r \in Requests : request[r] \in {"idle", "acquiring", "refused"} =>
       r \notin Range(queue) /\ r \notin Running /\ r \notin over

\* Only a worker that runs a job is kept by it.
OnlyRunningKept == \A r \in Requests : output[r] # "open" => r \in Running

PoolInv ==
  PoolTypeOK /\ OneWorkerEach /\ OnePlaceEach /\ OnlyRunningKept /\ (AllGone => queue = <<>>)

\* A worker is through with its job.
Completes(w) == EndJob(w) \/ Abort(w)

\* There is a worker.
LEMMA SizePos == Size \in Nat /\ Size >= 2 /\ 1 \in Workers
  BY PoolAssumption DEF Size, Workers

LEMMA PoolInitInv == PoolInit => PoolInv
<1> SUFFICES ASSUME PoolInit PROVE PoolInv
  OBVIOUS
<1>1. PoolTypeOK
  BY Empty, SizePos DEF PoolInit, PoolTypeOK
<1>2. OneWorkerEach /\ Running = {}
  BY DEF PoolInit, OneWorkerEach, Running
<1>3. OnePlaceEach
  BY <1>2, Empty DEF PoolInit, OnePlaceEach
<1>4. OnlyRunningKept
  BY DEF PoolInit, OnlyRunningKept
<1> QED BY <1>1, <1>2, <1>3, <1>4 DEF PoolInv, PoolInit

\* What a worker that is through does to itself, its job and the channels.
LEMMA CompletesNext ==
  ASSUME PoolInv, NEW w \in Workers, Completes(w)
  PROVE  /\ worker[w] = "run" /\ job[w] \in Requests /\ InputOver(job[w])
         /\ worker'[w] \in {"lock", "gone"} /\ (worker'[w] = "gone" => job[w] \in Fatal /\ EndJob(w))
         /\ \A v \in Workers \ {w} : worker'[v] = worker[v] /\ job'[v] = job[v]
         /\ over' = over \cup {job[w]} /\ UNCHANGED <<request, pool>>
         /\ output' = [output EXCEPT ![job[w]] = "open"]
         /\ job' = [job EXCEPT ![w] = NoJob]
         /\ worker' \in [Workers -> {"lock", "recv", "run", "gone"}]
         /\ queue' = IF \A v \in Workers : worker'[v] = "gone" THEN <<>> ELSE queue
<1>0. PoolTypeOK /\ OneWorkerEach
  BY DEF PoolInv
<1>1. worker[w] = "run" /\ InputOver(job[w])
  BY DEF Completes, EndJob, Abort, InputOver
<1>2. job[w] \in Requests
  BY <1>0, <1>1 DEF OneWorkerEach
<1>3. PICK next \in {"lock", "gone"} :
        Leaves(w, next) /\ (next = "gone" => job[w] \in Fatal /\ EndJob(w))
  BY DEF Completes, EndJob, Abort
<1>4. /\ worker' = [worker EXCEPT ![w] = next] /\ job' = [job EXCEPT ![w] = NoJob]
      /\ worker \in [Workers -> {"lock", "recv", "run", "gone"}]
      /\ job \in [Workers -> Requests \cup {NoJob}]
      /\ over' = over \cup {job[w]} /\ UNCHANGED <<request, pool>>
      /\ output' = [output EXCEPT ![job[w]] = "open"]
  BY <1>0, <1>3 DEF Leaves, PoolTypeOK
<1>5. worker'[w] = next
  BY <1>4
<1>6. queue' = IF \A v \in Workers : worker'[v] = "gone" THEN <<>> ELSE queue
  <2>1. CASE EndJob(w)
    BY <2>1 DEF EndJob
  <2>2. CASE Abort(w)
    BY <1>4, <2>2 DEF Abort, Leaves
  <2> QED BY <2>1, <2>2 DEF Completes
<1> QED BY <1>1, <1>2, <1>3, <1>4, <1>5, <1>6

\* What a worker that is hindered in its job leaves as it is.
LEMMA HindersNext ==
  ASSUME PoolInv, NEW w \in Workers, Hinders(w)
  PROVE  /\ UNCHANGED <<queue, request, worker, job, over, pool>>
         /\ job[w] \in Requests /\ job[w] \in Running
         /\ \E s \in {"full", "silent"} : output' = [output EXCEPT ![job[w]] = s]
<1>1. worker[w] = "run"
  BY DEF Hinders, FillOutput, LoseEof
<1>2. job[w] \in Requests /\ job[w] \in Running
  BY <1>1 DEF PoolInv, OneWorkerEach, Running
<1> QED BY <1>2 DEF Hinders, FillOutput, LoseEof

\* What the queue, the workers and the jobs look like after a step of each kind.
LEMMA PoolTypeNext == PoolInv /\ [PoolNext]_poolVars => PoolTypeOK'
<1> SUFFICES ASSUME PoolInv, [PoolNext]_poolVars PROVE PoolTypeOK'
  OBVIOUS
<1> USE DEF PoolInv, PoolTypeOK
<1>1. ASSUME NEW r \in Requests, Ask(r)  PROVE PoolTypeOK'
  BY <1>1 DEF Ask
<1>2. ASSUME NEW r \in Requests, Enqueue(r)  PROVE PoolTypeOK'
  BY <1>2, Grows, SizePos DEF Enqueue
<1>3. ASSUME NEW r \in Requests, Refuse(r)  PROVE PoolTypeOK'
  BY <1>3 DEF Refuse
<1>4. ASSUME NEW r \in Requests, EndInput(r)  PROVE PoolTypeOK'
  BY <1>4 DEF EndInput
<1>5. CASE DropPool
  BY <1>5 DEF DropPool
<1>6. ASSUME NEW w \in Workers, Lock(w)  PROVE PoolTypeOK'
  BY <1>6 DEF Lock
<1>7. ASSUME NEW w \in Workers, TakeJob(w)  PROVE PoolTypeOK'
  BY <1>7, Shrinks, SizePos DEF TakeJob
<1>8. ASSUME NEW w \in Workers, Exit(w)  PROVE PoolTypeOK'
  BY <1>8 DEF Exit
<1>9. ASSUME NEW w \in Workers, Completes(w)  PROVE PoolTypeOK'
  <2>1. /\ job[w] \in Requests /\ over' = over \cup {job[w]} /\ UNCHANGED <<request, pool>>
        /\ output' = [output EXCEPT ![job[w]] = "open"]
        /\ job' = [job EXCEPT ![w] = NoJob]
        /\ worker' \in [Workers -> {"lock", "recv", "run", "gone"}]
        /\ queue' = queue \/ queue' = <<>>
    BY <1>9, CompletesNext
  <2>2. queue' \in Seq(Requests) /\ Len(queue') <= Size
    <3>1. CASE queue' = queue
      BY <3>1
    <3>2. CASE queue' = <<>>
      BY <3>2, Empty, SizePos
    <3> QED BY <2>1, <3>1, <3>2
  <2> QED BY <2>1, <2>2
<1>10. CASE UNCHANGED poolVars
  BY <1>10 DEF poolVars
<1>11. ASSUME NEW r \in Requests, Release(r) \/ TakeOutput(r)  PROVE PoolTypeOK'
  BY <1>11 DEF Release, TakeOutput
<1>12. ASSUME NEW w \in Workers, Hinders(w)  PROVE PoolTypeOK'
  BY <1>12, HindersNext
<1> QED
  BY <1>1, <1>2, <1>3, <1>4, <1>5, <1>6, <1>7, <1>8, <1>9, <1>10, <1>11, <1>12
  DEF PoolNext, WorkerStep, Completes

\* What a worker runs, and what it makes of the set of running jobs.
LEMMA WorkersNext ==
  ASSUME PoolInv, [PoolNext]_poolVars
  PROVE  /\ OneWorkerEach'
         /\ \A w \in Workers : TakeJob(w) => Running' = Running \cup {Head(queue)}
         /\ \A w \in Workers : Completes(w) => job[w] \in Running /\ Running' = Running \ {job[w]}
         /\ (\A w \in Workers : ~TakeJob(w) /\ ~Completes(w)) => Running' = Running
<1> USE DEF PoolInv, PoolTypeOK
<1>1. ASSUME NEW w \in Workers, TakeJob(w)
      PROVE  OneWorkerEach' /\ Running' = Running \cup {Head(queue)}
  <2>1. Head(queue) \in Requests /\ Head(queue) \in Range(queue)
    BY <1>1, Shrinks DEF TakeJob
  <2>2. \A v \in Workers \ {w} : worker'[v] = worker[v] /\ job'[v] = job[v]
    BY <1>1 DEF TakeJob
  <2>3. worker'[w] = "run" /\ job'[w] = Head(queue) /\ worker[w] = "recv"
    BY <1>1 DEF TakeJob
  <2>4. \A v \in Workers : worker[v] = "run" => job[v] # Head(queue)
    BY <2>1 DEF OnePlaceEach, Running
  <2>5. Running' = Running \cup {Head(queue)}
    BY <2>2, <2>3 DEF Running
  <2> QED BY <2>1, <2>2, <2>3, <2>4, <2>5 DEF OneWorkerEach
<1>2. ASSUME NEW w \in Workers, Completes(w)
      PROVE  OneWorkerEach' /\ job[w] \in Running /\ Running' = Running \ {job[w]}
  <2>1. worker[w] = "run" /\ worker'[w] # "run"
    BY <1>2, CompletesNext
  <2>2. \A v \in Workers \ {w} : worker'[v] = worker[v] /\ job'[v] = job[v]
    BY <1>2, CompletesNext
  <2>3. job[w] \in Running /\ Running' = Running \ {job[w]}
    BY <2>1, <2>2 DEF Running, OneWorkerEach
  <2> QED BY <2>1, <2>2, <2>3 DEF OneWorkerEach
<1>3. ASSUME NEW w \in Workers, Lock(w) \/ Exit(w)
      PROVE  OneWorkerEach' /\ Running' = Running
  <2>1. job' = job /\ \A v \in Workers : worker'[v] = "run" <=> worker[v] = "run"
    BY <1>3 DEF Lock, Exit
  <2> QED BY <2>1 DEF OneWorkerEach, Running
<1>4. ASSUME UNCHANGED <<worker, job>>
      PROVE  OneWorkerEach' /\ Running' = Running
  <2>1. worker' = worker /\ job' = job
    BY <1>4
  <2> QED BY <2>1 DEF OneWorkerEach, Running
<1>5. \/ \E w \in Workers : TakeJob(w) \/ Completes(w) \/ Lock(w) \/ Exit(w)
      \/ UNCHANGED <<worker, job>>
  BY HindersNext DEF PoolNext, WorkerStep, Completes, Ask, Enqueue, Refuse, EndInput, Release,
     TakeOutput, DropPool, poolVars
<1>6. \A v, w \in Workers : ~(TakeJob(v) /\ Completes(w))
  <2> SUFFICES ASSUME NEW v \in Workers, NEW w \in Workers, TakeJob(v), Completes(w) PROVE FALSE
    OBVIOUS
  <2>1. over' = over /\ over' = over \cup {job[w]} /\ job[w] \in Running
    BY <1>2, CompletesNext DEF TakeJob
  <2> QED BY <2>1 DEF OnePlaceEach
<1>8. CASE \E w \in Workers : TakeJob(w)
  BY <1>1, <1>6, <1>8
<1>9. CASE \E w \in Workers : Completes(w)
  BY <1>2, <1>6, <1>9
<1>10. CASE \A w \in Workers : ~TakeJob(w) /\ ~Completes(w)
  BY <1>3, <1>4, <1>5, <1>10
<1> QED BY <1>8, <1>9, <1>10

\* A job is in one place after the step, too.
LEMMA PlacesNext == PoolInv /\ [PoolNext]_poolVars => OnePlaceEach' /\ (AllGone' => queue' = <<>>)
<1> SUFFICES ASSUME PoolInv, [PoolNext]_poolVars
             PROVE  OnePlaceEach' /\ (AllGone' => queue' = <<>>)
  OBVIOUS
<1>0. PoolTypeOK /\ OneWorkerEach /\ OnePlaceEach /\ (AllGone => queue = <<>>)
  BY DEF PoolInv
<1>q. queue \in Seq(Requests) /\ over \subseteq Requests
      /\ request \in [Requests -> {"idle", "acquiring", "held", "ended", "dropped", "refused"}]
  BY <1>0 DEF PoolTypeOK
<1>1. ASSUME NEW r \in Requests, Ask(r) \/ Refuse(r) \/ EndInput(r) \/ Release(r)
                                \/ TakeOutput(r)
      PROVE  OnePlaceEach' /\ (AllGone' => queue' = <<>>)
  <2>1. queue' = queue /\ over' = over /\ Running' = Running /\ worker' = worker
    BY <1>1 DEF Ask, Refuse, EndInput, Release, TakeOutput, Running
  <2>2. \A q \in Requests : request'[q] \in {"idle", "acquiring", "refused"}
                              => request[q] \in {"idle", "acquiring", "refused"}
    BY <1>1, <1>q DEF Ask, Refuse, EndInput, Release, TakeOutput
  <2> QED BY <1>0, <2>1, <2>2 DEF OnePlaceEach, AllGone
<1>2. ASSUME NEW r \in Requests, Enqueue(r)
      PROVE  OnePlaceEach' /\ (AllGone' => queue' = <<>>)
  <2>1. over' = over /\ Running' = Running /\ worker' = worker /\ queue' = Append(queue, r)
    BY <1>2 DEF Enqueue, Running
  <2>2. r \notin Range(queue) /\ r \notin Running /\ r \notin over
    BY <1>0, <1>2 DEF Enqueue, OnePlaceEach
  <2>3. Range(queue') = Range(queue) \cup {r} /\ Distinct(queue')
    BY <1>0, <1>q, <2>1, <2>2, Grows DEF OnePlaceEach
  <2>4. \A q \in Requests : request'[q] = IF q = r THEN "held" ELSE request[q]
    BY <1>2, <1>q DEF Enqueue
  <2>5. ~AllGone'
    BY <1>2, <2>1 DEF Enqueue, AllGone
  <2> QED BY <1>0, <2>1, <2>2, <2>3, <2>4, <2>5 DEF OnePlaceEach
<1>3. ASSUME NEW w \in Workers, TakeJob(w)
      PROVE  OnePlaceEach' /\ (AllGone' => queue' = <<>>)
  <2>1. over' = over /\ request' = request /\ queue' = Tail(queue) /\ queue # <<>>
    BY <1>3 DEF TakeJob
  <2>2. Running' = Running \cup {Head(queue)}
    BY <1>3, WorkersNext
  <2>3. /\ Range(queue) = Range(queue') \cup {Head(queue)}
        /\ Distinct(queue') /\ Head(queue) \notin Range(queue')
    BY <1>0, <1>q, <2>1, Shrinks DEF OnePlaceEach
  <2>4. worker'[w] = "run"
    BY <1>0, <1>3 DEF TakeJob, PoolTypeOK
  <2> QED BY <1>0, <2>1, <2>2, <2>3, <2>4 DEF OnePlaceEach, AllGone
<1>4. ASSUME NEW w \in Workers, Completes(w)
      PROVE  OnePlaceEach' /\ (AllGone' => queue' = <<>>)
  <2>1. request' = request /\ over' = over \cup {job[w]} /\ request[job[w]] \in {"ended", "dropped"}
    BY <1>4, CompletesNext DEF InputOver
  <2>2. job[w] \in Running /\ Running' = Running \ {job[w]}
    BY <1>4, WorkersNext
  <2>3. queue' = queue \/ queue' = <<>>
    BY <1>4, CompletesNext
  <2>4. Range(queue') \subseteq Range(queue) /\ Distinct(queue')
    BY <1>0, <2>3, Empty DEF OnePlaceEach
  <2>5. AllGone' => queue' = <<>>
    BY <1>4, CompletesNext DEF AllGone
  <2> QED BY <1>0, <2>1, <2>2, <2>4, <2>5 DEF OnePlaceEach
<1>5. ASSUME NEW w \in Workers, Lock(w) \/ Exit(w)
      PROVE  OnePlaceEach' /\ (AllGone' => queue' = <<>>)
  <2>1. queue' = queue /\ over' = over /\ request' = request /\ job' = job
    BY <1>5 DEF Lock, Exit
  <2>2. Running' = Running
    <3>1. \A v \in Workers : worker'[v] = "run" <=> worker[v] = "run"
      BY <1>0, <1>5 DEF Lock, Exit, PoolTypeOK
    <3> QED BY <2>1, <3>1 DEF Running
  <2>3. AllGone' => queue' = <<>>
    BY <1>0, <1>5 DEF Lock, Exit, AllGone, PoolTypeOK
  <2> QED BY <1>0, <2>1, <2>2, <2>3 DEF OnePlaceEach
<1>6. CASE DropPool \/ UNCHANGED poolVars
  <2>1. queue' = queue /\ over' = over /\ request' = request /\ job' = job /\ worker' = worker
    BY <1>6 DEF DropPool, poolVars
  <2> QED BY <1>0, <2>1 DEF OnePlaceEach, AllGone, Running
<1>7. ASSUME NEW w \in Workers, Hinders(w)
      PROVE  OnePlaceEach' /\ (AllGone' => queue' = <<>>)
  <2>1. queue' = queue /\ over' = over /\ request' = request /\ job' = job /\ worker' = worker
    BY <1>7, HindersNext
  <2> QED BY <1>0, <2>1 DEF OnePlaceEach, AllGone, Running
<1> QED BY <1>1, <1>2, <1>3, <1>4, <1>5, <1>6, <1>7 DEF PoolNext, WorkerStep, Completes

\* A job that ends keeps its worker no longer.
LEMMA KeptNext == PoolInv /\ [PoolNext]_poolVars => OnlyRunningKept'
<1> SUFFICES ASSUME PoolInv, [PoolNext]_poolVars PROVE OnlyRunningKept'
  OBVIOUS
<1>1. OnlyRunningKept /\ output \in [Requests -> {"open", "full", "eased", "silent"}]
  BY DEF PoolInv, PoolTypeOK
<1>2. ASSUME NEW r \in Requests, TakeOutput(r)  PROVE OnlyRunningKept'
  BY <1>1, <1>2 DEF TakeOutput, OnlyRunningKept, Running
<1>3. ASSUME NEW w \in Workers, Hinders(w)  PROVE OnlyRunningKept'
  <2>1. Running' = Running
    BY <1>3, HindersNext DEF Running
  <2> QED BY <1>1, <1>3, <2>1, HindersNext DEF OnlyRunningKept
<1>4. ASSUME NEW w \in Workers, Completes(w)  PROVE OnlyRunningKept'
  <2>1. Running' = Running \ {job[w]}
    BY <1>4, WorkersNext
  <2>2. output' = [output EXCEPT ![job[w]] = "open"] /\ job[w] \in Requests
    BY <1>4, CompletesNext
  <2> QED BY <1>1, <2>1, <2>2 DEF OnlyRunningKept
<1>5. CASE output' = output /\ \A w \in Workers : ~Completes(w)
  <2>1. Running \subseteq Running'
    BY <1>5, WorkersNext
  <2> QED BY <1>1, <1>5, <2>1 DEF OnlyRunningKept
<1>6. \/ output' = output
      \/ \E r \in Requests : TakeOutput(r)
      \/ \E w \in Workers : Hinders(w) \/ Completes(w)
  BY DEF PoolNext, WorkerStep, Completes, Ask, Enqueue, Refuse, EndInput, Release, DropPool,
     Lock, TakeJob, Exit, poolVars
<1> QED BY <1>2, <1>3, <1>4, <1>5, <1>6

\* PoolInv holds in every state of the pool.
THEOREM PoolInvariant == PoolSpec => []PoolInv
<1>1. PoolInv /\ [PoolNext]_poolVars => PoolInv'
  BY PoolTypeNext, PlacesNext, WorkersNext, KeptNext DEF PoolInv
<1> QED BY PoolInitInv, <1>1, PTL DEF PoolSpec

----------------------------------------------------------------------------
(* The pool implements the service.                                        *)

\* A worker that takes a job makes for less than Size jobs running.
LEMMA RoomToRun ==
  ASSUME PoolInv, NEW w \in Workers, worker[w] # "run"
  PROVE  Cardinality(Running) < Size
<1> DEFINE busy == {v \in Workers : worker[v] = "run"}
           f == [v \in busy |-> job[v]]
<1>1. IsFiniteSet(Workers) /\ Cardinality(Workers) = Size
  BY FS_Interval, SizePos DEF Workers
<1>2. IsFiniteSet(Workers \ {w}) /\ Cardinality(Workers \ {w}) = Size - 1
  BY <1>1, FS_RemoveElement
<1>3. IsFiniteSet(busy) /\ Cardinality(busy) <= Size - 1
  <2>1. busy \in SUBSET (Workers \ {w})
    OBVIOUS
  <2> HIDE DEF busy
  <2> QED BY <1>2, <2>1, FS_Subset
<1>4. f \in Surjection(busy, Running)
  BY DEF Surjection, Running
<1>5. IsFiniteSet(Running) /\ Cardinality(Running) <= Cardinality(busy)
  <2> HIDE DEF busy, f
  <2> QED BY <1>3, <1>4, FS_Surjection
<1>6. Cardinality(Running) \in Nat /\ Cardinality(busy) \in Nat
  <2> HIDE DEF busy
  <2> QED BY <1>3, <1>5, FS_CardinalityType
<1> HIDE DEF busy
<1> QED BY <1>3, <1>5, <1>6, SizePos

\* closed is a truth value.
LEMMA AllGoneBool == AllGone \in BOOLEAN /\ AllGone' \in BOOLEAN
  BY DEF AllGone

\* Only Exit and EndJob let a worker go.
LEMMA StillOpen ==
  ASSUME [PoolNext]_poolVars, \A w \in Workers : ~Exit(w) /\ ~Completes(w), PoolInv
  PROVE  AllGone' <=> AllGone
<1>1. \A v \in Workers : worker'[v] = "gone" <=> worker[v] = "gone"
  BY HindersNext DEF PoolNext, WorkerStep, Completes, Ask, Enqueue, Refuse, EndInput, Release,
     TakeOutput, DropPool, poolVars, Lock, TakeJob, PoolInv, PoolTypeOK
<1> QED BY <1>1 DEF AllGone

\* The steps of the pool, one by one, as steps of the service.
LEMMA ServiceNext == PoolInv /\ [PoolNext]_poolVars => [Service!Next]_Service!vars
<1> SUFFICES ASSUME PoolInv, [PoolNext]_poolVars PROVE [Service!Next]_Service!vars
  OBVIOUS
<1>0. PoolTypeOK /\ OneWorkerEach /\ OnePlaceEach
  BY DEF PoolInv
<1>1. ASSUME NEW r \in Requests, Enqueue(r)  PROVE Service!Accept(r)
  <2>1. ~AllGone /\ Len(queue) < Size /\ queue' = Append(queue, r) /\ over' = over
    BY <1>1 DEF Enqueue, AllGone
  <2>2. r \notin Range(queue) \cup Running \cup over
    BY <1>0, <1>1 DEF Enqueue, OnePlaceEach
  <2>3. Running' = Running /\ (AllGone' <=> AllGone)
    BY <1>1 DEF Enqueue, Running, AllGone
  <2>4. AllGone' = AllGone
    BY <2>3, AllGoneBool
  <2> QED BY <2>1, <2>2, <2>3, <2>4 DEF Service!Accept, Service!Range, Range
<1>2. ASSUME NEW w \in Workers, TakeJob(w)  PROVE Service!Start
  <2>1. queue # <<>> /\ queue' = Tail(queue) /\ over' = over /\ worker[w] = "recv"
    BY <1>2 DEF TakeJob
  <2>2. Running' = Running \cup {Head(queue)}
    BY <1>2, WorkersNext
  <2>3. Cardinality(Running) < Size
    BY <2>1, RoomToRun
  <2>4. ~AllGone /\ ~AllGone'
    BY <1>0, <1>2 DEF TakeJob, AllGone, PoolTypeOK
  <2>5. AllGone' = AllGone
    BY <2>4, AllGoneBool
  <2> QED BY <2>1, <2>2, <2>3, <2>4, <2>5 DEF Service!Start, Service!Cardinality, Cardinality
<1>3. ASSUME NEW w \in Workers, Completes(w)
      PROVE  \E r \in Requests : Service!End(r) \/ Service!BreakDown(r)
  <2>1. job[w] \in Requests /\ over' = over \cup {job[w]} /\ worker[w] = "run"
    BY <1>3, CompletesNext
  <2>2. job[w] \in Running /\ Running' = Running \ {job[w]}
    BY <1>3, WorkersNext
  <2>3. ~AllGone
    BY <2>1 DEF AllGone
  <2>4. CASE AllGone'
    <3>1. queue' = <<>>
      BY <1>3, <2>4, CompletesNext DEF AllGone
    <3>2. \A v \in Workers \ {w} : worker[v] = "gone"
      BY <1>3, <2>4, CompletesNext DEF AllGone
    <3>3. Running = {job[w]}
      BY <2>1, <3>2 DEF Running
    <3> QED BY <2>1, <2>2, <2>3, <2>4, <3>1, <3>3 DEF Service!BreakDown
  <2>5. CASE ~AllGone'
    <3>1. queue' = queue
      BY <1>3, <2>5, CompletesNext DEF AllGone
    <3> QED BY <2>1, <2>2, <2>3, <2>5, <3>1, AllGoneBool DEF Service!End
  <2> QED BY <2>1, <2>4, <2>5
<1>4. ASSUME NEW w \in Workers, Exit(w)  PROVE Service!Close \/ UNCHANGED Service!vars
  <2>1. queue = <<>> /\ queue' = queue /\ over' = over /\ worker[w] = "recv" /\ job' = job
    BY <1>4 DEF Exit
  <2>2. \A v \in Workers : worker'[v] = "run" <=> worker[v] = "run"
    BY <1>0, <1>4 DEF Exit, PoolTypeOK
  <2>3. Running' = Running /\ ~AllGone
    BY <2>1, <2>2 DEF Running, AllGone
  <2>4. AllGone' => Running = {}
    BY <2>2 DEF Running, AllGone
  <2> QED BY <2>1, <2>3, <2>4, AllGoneBool DEF Service!Close, Service!vars
<1>5. CASE /\ \A r \in Requests : ~Enqueue(r)
           /\ \A w \in Workers : ~TakeJob(w) /\ ~Completes(w) /\ ~Exit(w)
  <2>1. queue' = queue /\ over' = over
    BY <1>5, SizePos, HindersNext DEF PoolNext, WorkerStep, Completes, Ask, Refuse, EndInput,
       Release, TakeOutput, DropPool, poolVars, Lock
  <2>2. Running' = Running
    BY <1>5, WorkersNext
  <2>3. AllGone' <=> AllGone
    BY <1>5, StillOpen
  <2> QED BY <2>1, <2>2, <2>3, AllGoneBool DEF Service!vars
<1> QED BY <1>1, <1>2, <1>3, <1>4, <1>5 DEF Service!Next

\* Types: for any number of CPUs and requests, the job channel never holds more jobs
\* than the pool has workers (pool.rs:37).
THEOREM PoolTypes == PoolSpec => []PoolTypeOK
<1>1. PoolInv => PoolTypeOK
  BY DEF PoolInv
<1> QED BY <1>1, PoolInvariant, PTL

\* For any number of CPUs and requests, the pool is the service of JobService: what
\* acquire accepts is run once, in order, at most Size at a time (pool.rs:37-56).
THEOREM PoolServesInOrder == PoolSpec => ServesInOrder
<1>1. PoolInit => Service!Init
  <2> SUFFICES ASSUME PoolInit PROVE Service!Init
    OBVIOUS
  <2>1. Running = {} /\ ~AllGone
    BY SizePos DEF PoolInit, Running, AllGone
  <2> QED BY <2>1 DEF PoolInit, Service!Init
<1> QED BY <1>1, ServiceNext, PoolInvariant, PTL DEF PoolSpec, ServesInOrder, Service!Spec

----------------------------------------------------------------------------
(* Lost workers and the jobs lost with them.                               *)

\* A worker that left a dropped pool has found its queue empty, and it stays so:
\* whenever the last worker's end discards a job, all were lost to jobs in Fatal.
LossesKnown ==
  pool = "open" \/ queue # <<>> => Cardinality(Lost) <= Cardinality(over \cap Fatal)
AskersHoldPool == pool = "dropped" => \A r \in Requests : request[r] # "acquiring"
NoneForgotten == AllLost \/ Unserved \subseteq Range(queue)

LossInv == LossesKnown /\ AskersHoldPool /\ NoneForgotten

LEMMA LostFinite ==
  ASSUME PoolTypeOK
  PROVE  /\ IsFiniteSet(Lost) /\ Cardinality(Lost) \in Nat
         /\ IsFiniteSet(over \cap Fatal) /\ Cardinality(over \cap Fatal) \in Nat
         /\ AllGone => Cardinality(Lost) = Size
<1>1. IsFiniteSet(Workers) /\ Cardinality(Workers) = Size
  BY FS_Interval, SizePos DEF Workers
<1>2. Lost \in SUBSET Workers /\ over \cap Fatal \in SUBSET Requests
  BY DEF Lost, PoolTypeOK
<1>3. AllGone => Lost = Workers
  BY DEF AllGone, Lost
<1> QED BY <1>1, <1>2, <1>3, FS_Subset, FS_CardinalityType, PoolAssumption

\* One more worker is lost only with one more job in Fatal that is over.
LEMMA CompletesLosses ==
  ASSUME PoolInv, NEW w \in Workers, Completes(w), Cardinality(Lost) <= Cardinality(over \cap Fatal)
  PROVE  Cardinality(Lost') <= Cardinality((over \cap Fatal)')
<1>0. PoolTypeOK /\ OneWorkerEach /\ OnePlaceEach
  BY DEF PoolInv
<1>1. /\ IsFiniteSet(Lost) /\ Cardinality(Lost) \in Nat
      /\ IsFiniteSet(over \cap Fatal) /\ Cardinality(over \cap Fatal) \in Nat
  BY <1>0, LostFinite
<1>2. over' = over \cup {job[w]} /\ job[w] \notin over
  BY <1>0, CompletesNext DEF OnePlaceEach, Running
<1>3. CASE worker'[w] = "gone"
  <2>1. job[w] \in Fatal
    BY <1>3, CompletesNext
  <2>2. Lost' = Lost \cup {w} /\ w \notin Lost
    BY <1>3, CompletesNext DEF Lost
  <2>3. (over \cap Fatal)' = (over \cap Fatal) \cup {job[w]} /\ job[w] \notin over \cap Fatal
    BY <1>2, <2>1
  <2>4. Cardinality(Lost') = Cardinality(Lost) + 1
    BY <1>1, <2>2, FS_AddElement
  <2>5. Cardinality((over \cap Fatal)') = Cardinality(over \cap Fatal) + 1
    BY <1>1, <2>3, FS_AddElement
  <2> QED BY <1>1, <2>4, <2>5
<1>4. CASE worker'[w] # "gone"
  <2>1. Lost' = Lost
    BY <1>4, CompletesNext DEF Lost
  <2>2. over \cap Fatal \in SUBSET (over \cap Fatal)' /\ IsFiniteSet((over \cap Fatal)')
    <3>1. (over \cap Fatal)' = over \cap Fatal \/ (over \cap Fatal)' = (over \cap Fatal) \cup {job[w]}
      BY <1>2
    <3>2. IsFiniteSet((over \cap Fatal) \cup {job[w]})
      BY <1>1, FS_AddElement
    <3> QED BY <1>1, <3>1, <3>2
  <2>3. Cardinality(over \cap Fatal) <= Cardinality((over \cap Fatal)') /\ Cardinality((over \cap Fatal)') \in Nat
    BY <2>2, FS_Subset, FS_CardinalityType
  <2> QED BY <1>1, <2>1, <2>3
<1> QED BY <1>3, <1>4

LEMMA LossesNext ==
  ASSUME PoolInv, LossInv, [PoolNext]_poolVars
  PROVE  LossesKnown' /\ AskersHoldPool'
<1>0. PoolTypeOK /\ LossesKnown /\ AskersHoldPool
  BY DEF PoolInv, LossInv
<1>1. CASE \E w \in Workers : Completes(w)
  <2>1. PICK w \in Workers : Completes(w)
    BY <1>1
  <2>2. AskersHoldPool'
    BY <1>0, <2>1, CompletesNext DEF AskersHoldPool
  <2>3. pool' = pool /\ (queue' # <<>> => queue # <<>>)
    BY <2>1, CompletesNext
  <2> QED BY <1>0, <2>1, <2>2, <2>3, CompletesLosses DEF LossesKnown
<1>2. CASE \E w \in Workers : Exit(w)
  BY <1>0, <1>2 DEF Exit, LossesKnown, AskersHoldPool
<1>3. ASSUME NEW r \in Requests, Ask(r) \/ Enqueue(r) \/ Refuse(r) \/ EndInput(r)
                                \/ Release(r) \/ TakeOutput(r)
      PROVE  LossesKnown' /\ AskersHoldPool'
  <2>1. pool' = pool /\ Lost' = Lost /\ over' = over /\ (queue' = queue \/ pool = "open")
    BY <1>0, <1>3 DEF Ask, Enqueue, Refuse, EndInput, Release, TakeOutput, Lost, AskersHoldPool, PoolTypeOK
  <2>2. AskersHoldPool'
    BY <1>0, <1>3 DEF Ask, Enqueue, Refuse, EndInput, Release, TakeOutput, AskersHoldPool, PoolTypeOK
  <2> QED BY <1>0, <2>1, <2>2 DEF LossesKnown
<1>4. CASE \/ \E w \in Workers : Lock(w) \/ TakeJob(w) \/ Hinders(w)
           \/ DropPool \/ UNCHANGED poolVars
  <2>1. /\ request' = request /\ over' = over /\ (pool' = pool \/ pool = "open")
        /\ queue' = queue \/ queue # <<>>
    BY <1>4, HindersNext DEF Lock, TakeJob, DropPool, poolVars
  <2>2. \A v \in Workers : worker'[v] = "gone" <=> worker[v] = "gone"
    BY <1>0, <1>4, HindersNext DEF Lock, TakeJob, DropPool, poolVars, PoolTypeOK
  <2>3. Lost' = Lost
    BY <2>2 DEF Lost
  <2>4. AskersHoldPool'
    BY <1>0, <1>4, HindersNext DEF Lock, TakeJob, DropPool, poolVars, AskersHoldPool
  <2>5. pool' \in {"open", "dropped"} /\ pool \in {"open", "dropped"}
    BY <1>0, <1>4, HindersNext DEF Lock, TakeJob, DropPool, poolVars, PoolTypeOK
  <2> QED BY <1>0, <2>1, <2>3, <2>4, <2>5 DEF LossesKnown
<1> QED BY <1>1, <1>2, <1>3, <1>4 DEF PoolNext, WorkerStep, Completes

LEMMA ForgottenNext ==
  ASSUME PoolInv, LossInv, [PoolNext]_poolVars
  PROVE  NoneForgotten'
<1>0. /\ PoolTypeOK /\ OnePlaceEach /\ LossesKnown /\ NoneForgotten
      /\ queue \in Seq(Requests)
      /\ request \in [Requests -> {"idle", "acquiring", "held", "ended", "dropped", "refused"}]
  BY DEF PoolInv, LossInv, PoolTypeOK
<1>1. CASE AllLost
  <2>1. worker' = worker /\ over' = over
    BY <1>1, HindersNext DEF AllLost, AllGone, PoolNext, WorkerStep, Lock, TakeJob, Exit, EndJob,
       Abort, Ask, Enqueue, Refuse, EndInput, Release, TakeOutput, DropPool, poolVars
  <2> QED BY <1>1, <2>1 DEF AllLost, AllGone, NoneForgotten
<1>2. ASSUME Unserved \subseteq Range(queue),
             NEW r \in Requests, Ask(r) \/ Enqueue(r) \/ Refuse(r) \/ EndInput(r)
                                \/ Release(r) \/ TakeOutput(r)
      PROVE  NoneForgotten'
  <2>1. over' = over /\ Running' = Running
    BY <1>2 DEF Ask, Enqueue, Refuse, EndInput, Release, TakeOutput, Running
  <2>2. \A q \in Requests : request'[q] \in {"held", "ended", "dropped"} =>
          request[q] \in {"held", "ended", "dropped"} \/ (q = r /\ Enqueue(r))
    BY <1>0, <1>2 DEF Ask, Enqueue, Refuse, EndInput, Release, TakeOutput
  <2>3. Range(queue) \subseteq Range(queue') /\ (Enqueue(r) => r \in Range(queue'))
    <3>1. CASE Enqueue(r)
      <4>1. queue' = Append(queue, r)
        BY <3>1 DEF Enqueue
      <4> QED BY <1>0, <4>1, Grows
    <3>2. CASE ~Enqueue(r)
      BY <1>2, <3>2 DEF Ask, Refuse, EndInput, Release, TakeOutput
    <3> QED BY <3>1, <3>2
  <2> QED BY <1>2, <2>1, <2>2, <2>3 DEF NoneForgotten, Unserved
<1>3. ASSUME Unserved \subseteq Range(queue), NEW w \in Workers, TakeJob(w)
      PROVE  NoneForgotten'
  <2>1. Running' = Running \cup {Head(queue)} /\ over' = over /\ request' = request
    BY <1>3, WorkersNext DEF TakeJob
  <2>2. Range(queue) = Range(queue') \cup {Head(queue)}
    BY <1>0, <1>3, Shrinks DEF TakeJob
  <2> QED BY <1>3, <2>1, <2>2 DEF NoneForgotten, Unserved
<1>4. ASSUME Unserved \subseteq Range(queue), NEW w \in Workers, Completes(w)
      PROVE  NoneForgotten'
  <2>1. /\ Running' = Running \ {job[w]} /\ over' = over \cup {job[w]} /\ request' = request
        /\ job[w] \in Running
    BY <1>4, WorkersNext, CompletesNext
  <2>2. Unserved' = Unserved
    BY <2>1 DEF Unserved
  <2>3. CASE queue' = queue
    BY <1>4, <2>2, <2>3 DEF NoneForgotten
  <2>4. CASE queue' # queue
    <3>1. AllGone' /\ queue # <<>>
      BY <1>4, <2>4, CompletesNext, Empty DEF AllGone
    <3>2. Cardinality(Lost') <= Cardinality((over \cap Fatal)')
      BY <1>0, <1>4, <3>1, CompletesLosses DEF LossesKnown
    <3>3. Cardinality(Lost') = Size /\ Cardinality((over \cap Fatal)') \in Nat
      <4>1. Lost' = Workers
        BY <3>1 DEF AllGone, Lost
      <4>2. over' \subseteq Requests
        BY PoolTypeNext DEF PoolTypeOK
      <4>3. (over \cap Fatal)' \in SUBSET Requests
        BY <4>2
      <4>4. Cardinality(Workers) = Size
        BY FS_Interval, SizePos DEF Workers
      <4> QED BY <4>1, <4>3, <4>4, FS_Subset, FS_CardinalityType, PoolAssumption
    <3>4. AllLost'
      BY <3>1, <3>2, <3>3, SizePos DEF AllLost
    <3> QED BY <3>4 DEF NoneForgotten
  <2> QED BY <2>3, <2>4
<1>5. ASSUME Unserved \subseteq Range(queue),
             \/ \E w \in Workers : Lock(w) \/ Exit(w) \/ Hinders(w)
             \/ DropPool \/ UNCHANGED poolVars
      PROVE  NoneForgotten'
  <2>1. queue' = queue /\ over' = over /\ request' = request /\ job' = job
    BY <1>5, HindersNext DEF Lock, Exit, DropPool, poolVars
  <2>2. \A v \in Workers : worker'[v] = "run" <=> worker[v] = "run"
    BY <1>0, <1>5, HindersNext DEF Lock, Exit, DropPool, poolVars, PoolTypeOK
  <2>3. Running' = Running
    BY <2>1, <2>2 DEF Running
  <2> QED BY <1>5, <2>1, <2>3 DEF NoneForgotten, Unserved
<1> QED BY <1>0, <1>1, <1>2, <1>3, <1>4, <1>5 DEF NoneForgotten, PoolNext, WorkerStep, Completes

LEMMA LossInit == PoolInit => LossInv
<1> SUFFICES ASSUME PoolInit PROVE LossInv
  OBVIOUS
<1>1. Lost = {} /\ over \cap Fatal = {} /\ Unserved = {}
  BY DEF PoolInit, Lost, Unserved
<1>2. \A r \in Requests : request[r] # "acquiring"
  BY DEF PoolInit
<1> QED BY <1>1, <1>2, FS_EmptySet DEF LossInv, LossesKnown, AskersHoldPool, NoneForgotten

THEOREM LossInvariant == PoolSpec => []LossInv
<1>1. PoolInv /\ LossInv /\ [PoolNext]_poolVars => LossInv'
  BY LossesNext, ForgottenNext DEF LossInv
<1> QED BY LossInit, <1>1, PoolInvariant, PTL DEF PoolSpec

\* For any number of CPUs and requests, a worker of an open pool is lost only to a job
\* whose metrics divide by zero, and each to a job of its own (pool.rs:163-171).
THEOREM LossesAreExplained == PoolSpec => []LossesAreFatal
<1>1. LossInv => LossesAreFatal
  BY DEF LossInv, LossesKnown, LossesAreFatal
<1> QED BY <1>1, LossInvariant, PTL

\* A job that has been accepted is queued, running or done as long as one worker has
\* not been lost to a job in Fatal, also while the pool is being shut down
\* (pool.rs:46-56, 205).
THEOREM NoJobForgotten == PoolSpec => []NoneForgotten
<1>1. LossInv => NoneForgotten
  BY DEF LossInv
<1> QED BY <1>1, LossInvariant, PTL
=============================================================================
