------------------------- MODULE MediaServer_proof --------------------------
(***************************************************************************)
(* Proofs about the process around a pool, for any number of CPUs, runtime *)
(* threads and requests: it uses the pool as the pool allows, keeps within *)
(* its threads, and needs a load above its capacity to stall.              *)
(***************************************************************************)
EXTENDS MediaServer, DecoderPool_proof

----------------------------------------------------------------------------
(* The server's steps as steps of the pool.                                *)

\* A handler's task goes on.
Handles(r) ==
  \/ Connect(r) \/ CallAcquire(r) \/ CallSend(r) \/ Take(r) \/ SignalEof(r) \/ CallRecv(r)
  \/ Finish(r) \/ ReturnEarly(r) \/ Cancel(r) \/ BlockedCallReturns(r)

LEMMA LetGoInPool ==
  ASSUME NEW r \in Requests, LetGo(r)
  PROVE  Release(r) \/ UNCHANGED poolVars
  BY DEF LetGo

LEMMA HandlesInPool ==
  ASSUME NEW r \in Requests, Handles(r)
  PROVE  /\ phase' = phase /\ protocol' = protocol
         /\ \/ Ask(r) \/ Enqueue(r) \/ Refuse(r) \/ EndInput(r) \/ Release(r) \/ TakeOutput(r)
            \/ UNCHANGED poolVars
<1>1. CASE Finish(r) \/ ReturnEarly(r) \/ Cancel(r)
  BY <1>1, LetGoInPool DEF Finish, ReturnEarly, Cancel
<1>2. CASE Connect(r) \/ CallAcquire(r) \/ CallSend(r) \/ Take(r) \/ SignalEof(r) \/ CallRecv(r)
  BY <1>2 DEF Connect, CallAcquire, CallSend, Take, SignalEof, CallRecv
<1>3. CASE BlockedCallReturns(r)
  BY <1>3 DEF BlockedCallReturns, Acquired, AcquireFails, SendReturns, RecvReturns, DropReturns
<1> QED BY <1>1, <1>2, <1>3 DEF Handles

LEMMA ServerPoolNext == [ServerNext]_serverVars => [PoolNext]_poolVars
<1> SUFFICES ASSUME [ServerNext]_serverVars PROVE [PoolNext]_poolVars
  OBVIOUS
<1>1. ASSUME NEW r \in Requests, Handles(r)  PROVE [PoolNext]_poolVars
  BY <1>1, HandlesInPool DEF PoolNext
<1>2. CASE Interrupt \/ Signal \/ CloseListeners \/ MainReturns \/ RuntimeDropped
  BY <1>2 DEF Interrupt, Signal, CloseListeners, MainReturns, RuntimeDropped, PoolNext
<1>3. ASSUME NEW w \in Workers, WorkerRuns(w) \/ WorkerHindered(w)  PROVE [PoolNext]_poolVars
  BY <1>3 DEF WorkerRuns, WorkerHindered, PoolNext
<1>4. CASE UNCHANGED serverVars
  BY <1>4 DEF serverVars
<1> QED BY <1>1, <1>2, <1>3, <1>4 DEF ServerNext, Handles

\* The server uses its pool as the pool's specification allows: its handlers ask,
\* end and drop in the order the pool counts on, through shutdown and cancellation
\* (main.rs, pool.rs:191-249).
THEOREM ServerIsPool == ServerSpec => PoolSpec
<1>1. ServerInit => PoolInit
  BY DEF ServerInit
<1> QED BY <1>1, ServerPoolNext, PTL DEF ServerSpec, PoolSpec

\* In the whole process jobs are served once and in order.
THEOREM ServerServesInOrder == ServerSpec => ServesInOrder
  BY ServerIsPool, PoolServesInOrder, PTL

\* In the whole process a worker of an open pool is lost only to a job of its own whose
\* metrics divide by zero: neither cancellation nor an early return nor shutdown takes
\* one (pool.rs:46-57).
THEOREM ServerLosesOnlyToFatal == ServerSpec => []LossesAreFatal
  BY ServerIsPool, LossesAreExplained, PTL

----------------------------------------------------------------------------
(* The invariant: what a task does agrees with what its request is to the  *)
(* pool.                                                                   *)

TasksOK ==
  /\ task \in [Requests -> {"new", "parked", "acquire", "send", "recv", "drop", "gone"}]
  /\ protocol \in Protocols
  /\ phase \in {"up", "interrupted", "signalled", "closed", "stopping", "stopped"}

Allowed(t, q) ==
  \/ t = "new" /\ q = "idle"
  \/ t = "parked" /\ q \in {"idle", "held", "ended"}
  \/ t = "acquire" /\ q = "acquiring"
  \/ t = "send" /\ q = "held"
  \/ t = "recv" /\ q = "ended"
  \/ t = "drop" /\ q \in {"held", "ended"}
  \/ t = "gone" /\ q \in {"idle", "dropped", "refused"}

Linked == \A r \in Requests : Allowed(task[r], request[r])

ServerInv == PoolInv /\ TasksOK /\ Linked /\ Cardinality(OnThread) <= Threads

LEMMA ServerInitInv == ServerInit => ServerInv
<1> SUFFICES ASSUME ServerInit PROVE ServerInv
  OBVIOUS
<1>1. PoolInv
  BY PoolInitInv DEF ServerInit
<1>2. TasksOK /\ Linked
  BY DEF ServerInit, PoolInit, TasksOK, Linked, Allowed
<1>3. OnThread = {}
  BY DEF ServerInit, OnThread
<1> QED BY <1>1, <1>2, <1>3, FS_EmptySet, ThreadAssumption DEF ServerInv

\* A step takes a thread only if one is free, and then one.
ThreadsNext(r) == OnThread' \subseteq OnThread \/ (FreeThread /\ OnThread' \subseteq OnThread \cup {r})

\* A task that is polled, or returns from a call, with what the pool does meanwhile.
LEMMA PolledNext ==
  ASSUME ServerInv, NEW r \in Requests, NEW s, NEW q, Polled(r, s), Allowed(s, q),
         UNCHANGED <<protocol, phase>>,
         request' = [request EXCEPT ![r] = q]
  PROVE  TasksOK' /\ Linked' /\ ThreadsNext(r)
<1>1. task \in [Requests -> {"new", "parked", "acquire", "send", "recv", "drop", "gone"}]
      /\ request \in [Requests -> {"idle", "acquiring", "held", "ended", "dropped", "refused"}]
  BY DEF ServerInv, TasksOK, PoolInv, PoolTypeOK
<1>2. s \in {"new", "parked", "acquire", "send", "recv", "drop", "gone"}
  BY DEF Allowed
<1>3. task' = [task EXCEPT ![r] = s] /\ FreeThread
  BY DEF Polled
<1>4. TasksOK'
  BY <1>1, <1>2, <1>3 DEF ServerInv, TasksOK
<1>5. Linked'
  BY <1>1, <1>3 DEF ServerInv, Linked
<1>6. OnThread' \subseteq OnThread \cup {r}
  BY <1>1, <1>3 DEF OnThread
<1> QED BY <1>3, <1>4, <1>5, <1>6 DEF ThreadsNext

LEMMA ReturnsNext ==
  ASSUME ServerInv, NEW r \in Requests, NEW call, NEW s, NEW q, Returns(r, call, s),
         Allowed(s, q), s \notin {"acquire", "send", "recv", "drop"},
         UNCHANGED <<protocol, phase>>,
         request' = [request EXCEPT ![r] = q]
  PROVE  TasksOK' /\ Linked' /\ ThreadsNext(r)
<1>1. task \in [Requests -> {"new", "parked", "acquire", "send", "recv", "drop", "gone"}]
      /\ request \in [Requests -> {"idle", "acquiring", "held", "ended", "dropped", "refused"}]
  BY DEF ServerInv, TasksOK, PoolInv, PoolTypeOK
<1>2. s \in {"new", "parked", "acquire", "send", "recv", "drop", "gone"}
  BY DEF Allowed
<1>3. task' = [task EXCEPT ![r] = s]
  BY DEF Returns
<1>4. TasksOK'
  BY <1>1, <1>2, <1>3 DEF ServerInv, TasksOK
<1>5. Linked'
  BY <1>1, <1>3 DEF ServerInv, Linked
<1>6. OnThread' \subseteq OnThread
  BY <1>1, <1>3 DEF OnThread
<1> QED BY <1>4, <1>5, <1>6 DEF ThreadsNext

\* A request that the step leaves as it is.
LEMMA SameRequest ==
  ASSUME ServerInv, NEW r \in Requests, UNCHANGED poolVars \/ TakeOutput(r)
  PROVE  request' = [request EXCEPT ![r] = request[r]]
  BY DEF ServerInv, PoolInv, PoolTypeOK, poolVars, TakeOutput

\* A job whose handler may find its input channel full.
LEMMA HasJob ==
  ASSUME ServerInv, NEW r \in Requests, Queued(r) \/ output[r] # "open"
  PROVE  request[r] \in {"held", "ended", "dropped"}
  BY DEF ServerInv, PoolInv, PoolTypeOK, OnlyRunningKept, OnePlaceEach, Queued

LEMMA LetGoNext ==
  ASSUME ServerInv, NEW r \in Requests, LetGo(r), UNCHANGED <<protocol, phase>>
  PROVE  TasksOK' /\ Linked' /\ ThreadsNext(r)
<1>1. task[r] = "parked" /\ request[r] \in {"idle", "held", "ended"}
  BY DEF LetGo, Polled, ServerInv, Linked, Allowed
<1>2. CASE (Queued(r) \/ output[r] = "full") /\ Polled(r, "drop") /\ UNCHANGED poolVars
  <2>1. Allowed("drop", request[r])
    BY <1>1, <1>2, HasJob DEF Allowed
  <2> QED BY <1>2, <2>1, SameRequest, PolledNext
<1>3. CASE Polled(r, "gone") /\ request[r] \in {"held", "ended"} /\ Release(r)
  <2>1. Allowed("gone", "dropped")
    BY DEF Allowed
  <2> QED BY <1>3, <2>1, PolledNext DEF Release
<1>4. CASE Polled(r, "gone") /\ request[r] = "idle" /\ UNCHANGED poolVars
  <2>1. Allowed("gone", request[r])
    BY <1>4 DEF Allowed
  <2> QED BY <1>4, <2>1, SameRequest, PolledNext
<1> QED BY <1>1, <1>2, <1>3, <1>4 DEF LetGo

\* Every step keeps tasks and requests in agreement.
LEMMA TasksNext ==
  ASSUME ServerInv, [ServerNext]_serverVars
  PROVE  /\ TasksOK' /\ Linked'
         /\ OnThread' \subseteq OnThread \/ \E r \in Requests : ThreadsNext(r)
<1> USE DEF Allowed
<1>1. ASSUME NEW r \in Requests, Connect(r)
      PROVE  TasksOK' /\ Linked' /\ OnThread' \subseteq OnThread
  <2>1. /\ task \in [Requests -> {"new", "parked", "acquire", "send", "recv", "drop", "gone"}]
        /\ request' = request /\ protocol' = protocol /\ phase' = phase
    BY <1>1 DEF Connect, poolVars, ServerInv, TasksOK
  <2>2. task[r] = "new" /\ task' = [task EXCEPT ![r] = "parked"] /\ request[r] = "idle"
    BY <1>1 DEF Connect, ServerInv, Linked
  <2>3. TasksOK' /\ Linked'
    BY <2>1, <2>2 DEF TasksOK, Linked, ServerInv
  <2> QED BY <2>1, <2>2, <2>3 DEF OnThread
<1>2. ASSUME NEW r \in Requests, CallAcquire(r)  PROVE TasksOK' /\ Linked' /\ ThreadsNext(r)
  BY <1>2, PolledNext DEF CallAcquire, Ask
<1>3. ASSUME NEW r \in Requests, CallSend(r)  PROVE TasksOK' /\ Linked' /\ ThreadsNext(r)
  BY <1>3, PolledNext, SameRequest DEF CallSend
<1>4. ASSUME NEW r \in Requests, SignalEof(r)  PROVE TasksOK' /\ Linked' /\ ThreadsNext(r)
  BY <1>4, PolledNext DEF SignalEof, EndInput
<1>5. ASSUME NEW r \in Requests, Finish(r) \/ ReturnEarly(r) \/ Cancel(r)
      PROVE  TasksOK' /\ Linked' /\ ThreadsNext(r)
  BY <1>5, LetGoNext DEF Finish, ReturnEarly, Cancel
<1>6. ASSUME NEW r \in Requests, Acquired(r)  PROVE TasksOK' /\ Linked' /\ ThreadsNext(r)
  BY <1>6, ReturnsNext DEF Acquired, Enqueue
<1>7. ASSUME NEW r \in Requests, AcquireFails(r)  PROVE TasksOK' /\ Linked' /\ ThreadsNext(r)
  BY <1>7, ReturnsNext DEF AcquireFails, Refuse
<1>8. ASSUME NEW r \in Requests, SendReturns(r)  PROVE TasksOK' /\ Linked' /\ ThreadsNext(r)
  <2>1. request[r] = "held"
    BY <1>8 DEF SendReturns, Returns, ServerInv, Linked
  <2> QED BY <1>8, <2>1, ReturnsNext, SameRequest DEF SendReturns
<1>9. ASSUME NEW r \in Requests, RecvReturns(r)  PROVE TasksOK' /\ Linked' /\ ThreadsNext(r)
  <2>1. request[r] = "ended"
    BY <1>9 DEF RecvReturns, Returns, ServerInv, Linked
  <2> QED BY <1>9, <2>1, ReturnsNext, SameRequest DEF RecvReturns
<1>10. ASSUME NEW r \in Requests, DropReturns(r)  PROVE TasksOK' /\ Linked' /\ ThreadsNext(r)
  BY <1>10, ReturnsNext DEF DropReturns, Release
<1>11. ASSUME NEW r \in Requests, Take(r)  PROVE TasksOK' /\ Linked' /\ ThreadsNext(r)
  BY <1>11, PolledNext, SameRequest DEF Take, TakeOutput
<1>12. ASSUME NEW r \in Requests, CallRecv(r)  PROVE TasksOK' /\ Linked' /\ ThreadsNext(r)
  BY <1>12, PolledNext, SameRequest DEF CallRecv
<1>13. ASSUME Interrupt \/ Signal \/ CloseListeners \/ MainReturns \/ RuntimeDropped
              \/ (\E w \in Workers : WorkerRuns(w) \/ WorkerHindered(w)) \/ UNCHANGED serverVars
       PROVE  TasksOK' /\ Linked' /\ OnThread' \subseteq OnThread
  <2>1. task' = task /\ request' = request /\ protocol' = protocol
    BY <1>13 DEF Interrupt, Signal, CloseListeners, MainReturns, RuntimeDropped, DropPool,
       WorkerRuns, WorkerStep, Lock, TakeJob, Exit, EndJob, Abort, Leaves, WorkerHindered,
       Hinders, FillOutput, LoseEof, serverVars, poolVars
  <2>2. phase' \in {"up", "interrupted", "signalled", "closed", "stopping", "stopped"}
    BY <1>13 DEF Interrupt, Signal, CloseListeners, MainReturns, RuntimeDropped, WorkerRuns,
       WorkerHindered, serverVars, ServerInv, TasksOK
  <2> QED BY <2>1, <2>2 DEF ServerInv, TasksOK, Linked, OnThread
<1> QED
  BY <1>1, <1>2, <1>3, <1>4, <1>5, <1>6, <1>7, <1>8, <1>9, <1>10, <1>11, <1>12, <1>13
  DEF ServerNext, BlockedCallReturns

\* Requests are finitely many, hence so are the tasks on threads.
LEMMA OnThreadFinite == IsFiniteSet(OnThread) /\ Cardinality(OnThread) \in Nat
<1>1. OnThread \in SUBSET Requests
  BY DEF OnThread
<1>2. IsFiniteSet(OnThread)
  BY <1>1, FS_Subset, PoolAssumption
<1> QED BY <1>2, FS_CardinalityType

\* No step holds more threads than there are.
LEMMA ThreadsSuffice ==
  ASSUME Cardinality(OnThread) <= Threads, [ServerNext]_serverVars, ServerInv
  PROVE  Cardinality(OnThread') <= Threads
<1>0. IsFiniteSet(OnThread) /\ Cardinality(OnThread) \in Nat /\ Threads \in Nat
  BY OnThreadFinite, ThreadAssumption
<1>1. CASE OnThread' \subseteq OnThread
  <2>1. IsFiniteSet(OnThread') /\ Cardinality(OnThread') <= Cardinality(OnThread)
    BY <1>0, <1>1, FS_Subset
  <2>2. Cardinality(OnThread') \in Nat
    BY <2>1, FS_CardinalityType
  <2> QED BY <1>0, <2>1, <2>2
<1>2. ASSUME NEW r \in Requests, FreeThread, OnThread' \subseteq OnThread \cup {r}
      PROVE  Cardinality(OnThread') <= Threads
  <2>1. IsFiniteSet(OnThread \cup {r}) /\ Cardinality(OnThread \cup {r}) <= Cardinality(OnThread) + 1
    BY <1>0, FS_AddElement
  <2>2. IsFiniteSet(OnThread') /\ Cardinality(OnThread') <= Cardinality(OnThread \cup {r})
    BY <1>2, <2>1, FS_Subset
  <2>3. Cardinality(OnThread') \in Nat /\ Cardinality(OnThread \cup {r}) \in Nat
    BY <2>1, <2>2, FS_CardinalityType
  <2> QED BY <1>0, <1>2, <2>1, <2>2, <2>3 DEF FreeThread
<1> QED BY <1>1, <1>2, TasksNext DEF ThreadsNext

LEMMA ServerNextInv == ServerInv /\ [ServerNext]_serverVars => ServerInv'
<1> SUFFICES ASSUME ServerInv, [ServerNext]_serverVars PROVE ServerInv'
  OBVIOUS
<1>1. PoolInv'
  BY ServerPoolNext, PoolTypeNext, PlacesNext, WorkersNext, KeptNext DEF ServerInv, PoolInv
<1>2. Cardinality(OnThread)' <= Threads
  BY ThreadsSuffice DEF ServerInv
<1> QED BY <1>1, <1>2, TasksNext DEF ServerInv

\* ServerInv holds in every state of the process.
THEOREM ServerInvariant == ServerSpec => []ServerInv
  BY ServerInitInv, ServerNextInv, PTL DEF ServerSpec

\* Types: for any number of runtime threads, no more handlers block than there are
\* threads (main.rs:51).
THEOREM ServerTypes == ServerSpec => []ServerTypeOK
<1>1. ServerInv => ServerTypeOK
  BY DEF ServerInv, ServerTypeOK, TasksOK, PoolInv
<1> QED BY <1>1, ServerInvariant, PTL

----------------------------------------------------------------------------
(* What it takes to stall.                                                 *)

LEMMA OpenFinite == IsFiniteSet(Open) /\ IsFiniteSet(StandingJobs) /\ IsFiniteSet(Left)
<1>1. Open \in SUBSET Requests /\ StandingJobs \in SUBSET Requests /\ Left \in SUBSET Workers
  BY DEF Open, StandingJobs, Left
<1>2. IsFiniteSet(Workers)
  BY FS_Interval, SizePos DEF Workers
<1> QED BY <1>1, <1>2, FS_Subset, PoolAssumption

\* Handlers on a thread are open, and run no job while they wait for a worker.
LEMMA WaitingHandlers ==
  ASSUME ServerInv, NEW r \in OnThread
  PROVE  r \in Requests /\ r \in Open /\ (WaitsForWorker(r) => r \notin Running /\ queue # <<>>)
<1>1. Allowed(task[r], request[r]) /\ r \in Requests
  BY DEF ServerInv, Linked, OnThread
<1>2. r \in Open
  BY <1>1 DEF Allowed, Open, OnThread
<1>3. CASE task[r] = "acquire" /\ Len(queue) = Size
  BY <1>1, <1>2, <1>3, Empty, SizePos DEF Allowed, ServerInv, PoolInv, OnePlaceEach
<1>4. CASE Queued(r)
  BY <1>1, <1>2, <1>4, Empty DEF Queued, ServerInv, PoolInv, OnePlaceEach
<1> QED BY <1>1, <1>2, <1>3, <1>4 DEF WaitsForWorker

\* Where all workers that are left run jobs, these are as many; a job that needs its
\* handler has one that is open.
LEMMA BusyWorkers ==
  ASSUME ServerInv, \A w \in Left : worker[w] = "run" /\ (NeedsHandler(job[w]) \/ Standing(job[w]))
  PROVE  /\ Running \subseteq Open \cup StandingJobs
         /\ IsFiniteSet(Running) /\ Cardinality(Running) = Cardinality(Left)
<1> DEFINE f == [w \in Left |-> job[w]]
<1>1. \A w \in Left : worker[w] = "run" /\ job[w] \in Requests
  BY DEF ServerInv, PoolInv, OneWorkerEach, Left
<1>2. Running = {job[w] : w \in Left}
  BY <1>1 DEF Running, Left
<1>3. \A w \in Left : job[w] \in Open \cup StandingJobs
  <2> TAKE w \in Left
  <2>1. job[w] \in Requests /\ Allowed(task[job[w]], request[job[w]])
    BY <1>1 DEF ServerInv, Linked
  <2>2. CASE NeedsHandler(job[w])
    BY <2>1, <2>2 DEF NeedsHandler, Allowed, Open
  <2>3. CASE Standing(job[w])
    BY <2>1, <2>3 DEF StandingJobs
  <2> QED BY <2>2, <2>3
<1>4. f \in Injection(Left, Running) /\ f \in Surjection(Left, Running)
  <2>1. f \in [Left -> Running] /\ \A r \in Running : \E w \in Left : f[w] = r
    BY <1>2
  <2>2. \A v, w \in Left : f[v] = f[w] => v = w
    BY <1>1 DEF ServerInv, PoolInv, OneWorkerEach, Left
  <2> HIDE DEF f
  <2> QED BY <2>1, <2>2 DEF Injection, IsInjective, Surjection
<1>5. IsFiniteSet(Left)
  BY OpenFinite
<1> HIDE DEF f
<1> QED BY <1>2, <1>3, <1>4, <1>5, FS_Surjection

LEMMA CountBoth ==
  ASSUME NEW S, NEW T, IsFiniteSet(S), IsFiniteSet(T)
  PROVE  /\ IsFiniteSet(S \cup T) /\ IsFiniteSet(S \cap T)
         /\ Cardinality(S) \in Nat /\ Cardinality(T) \in Nat
         /\ Cardinality(S \cup T) \in Nat /\ Cardinality(S \cap T) \in Nat
         /\ Cardinality(S) + Cardinality(T) = Cardinality(S \cup T) + Cardinality(S \cap T)
<1>1. /\ IsFiniteSet(S \cup T)
      /\ Cardinality(S \cup T) = Cardinality(S) + Cardinality(T) - Cardinality(S \cap T)
  BY FS_Union
<1>2. IsFiniteSet(S \cap T)
  <2>1. S \cap T \in SUBSET S
    OBVIOUS
  <2> QED BY <2>1, FS_Subset
<1> QED BY <1>1, <1>2, FS_CardinalityType

\* Two sets within the union of two others, and with what they share within what those
\* share, are no larger together.
LEMMA NoLargerTogether ==
  ASSUME NEW X, NEW Y, NEW S, NEW T, IsFiniteSet(X), IsFiniteSet(Y), IsFiniteSet(S), IsFiniteSet(T),
         X \cup Y \subseteq S \cup T, X \cap Y \subseteq S \cap T
  PROVE  Cardinality(S) + Cardinality(T) >= Cardinality(X) + Cardinality(Y)
<1>1. /\ X \cup Y \in SUBSET (S \cup T) /\ X \cap Y \in SUBSET (S \cap T)
      /\ IsFiniteSet(S \cup T) /\ IsFiniteSet(S \cap T)
  BY CountBoth
<1>2. /\ Cardinality(X \cup Y) <= Cardinality(S \cup T)
      /\ Cardinality(X \cap Y) <= Cardinality(S \cap T)
  BY <1>1, FS_Subset
<1>3. /\ Cardinality(S) \in Nat /\ Cardinality(T) \in Nat
      /\ Cardinality(S \cup T) \in Nat /\ Cardinality(S \cap T) \in Nat
      /\ Cardinality(S) + Cardinality(T) = Cardinality(S \cup T) + Cardinality(S \cap T)
  BY CountBoth
<1>4. /\ Cardinality(X) \in Nat /\ Cardinality(Y) \in Nat
      /\ Cardinality(X \cup Y) \in Nat /\ Cardinality(X \cap Y) \in Nat
      /\ Cardinality(X) + Cardinality(Y) = Cardinality(X \cup Y) + Cardinality(X \cap Y)
  BY CountBoth
<1> QED BY <1>2, <1>3, <1>4

\* For any number of CPUs, threads and requests, jobs that stand among them: the runtime
\* stalls only if a call on every thread hangs with a job of its own, or if there are as
\* many open requests and jobs that stand as workers and threads together.  Nothing else
\* a handler does, its early return, its cancellation or a failed write, leaves a worker
\* behind (pool.rs:91, 221, 244-249).
THEOREM StallsOnlyUnderLoad == ServerSpec => []StallNeedsLoad
<1>1. ServerInv => StallNeedsLoad
  <2> SUFFICES ASSUME ServerInv, Stalled, NEW r \in OnThread, ~HangsInCall(r)
               PROVE  Cardinality(Open) + Cardinality(StandingJobs) >= Cardinality(Left) + Threads
    BY DEF StallNeedsLoad
  <2>1. queue # <<>>
    BY WaitingHandlers DEF Stalled
  <2>2. \A w \in Left : worker[w] = "run" /\ (NeedsHandler(job[w]) \/ Standing(job[w]))
    BY <2>1 DEF Stalled
  <2>3. /\ Running \subseteq Open \cup StandingJobs
        /\ IsFiniteSet(Running) /\ Cardinality(Running) = Cardinality(Left)
    BY <2>2, BusyWorkers
  <2>4. OnThread \subseteq Open
    BY WaitingHandlers
  <2>5. Running \cap OnThread \subseteq Open \cap StandingJobs
    BY <2>4, WaitingHandlers DEF Stalled, HangsInCall, Standing, StandingJobs
  <2>6. IsFiniteSet(OnThread) /\ IsFiniteSet(Open) /\ IsFiniteSet(StandingJobs)
    BY OnThreadFinite, OpenFinite
  <2>7. Running \cup OnThread \subseteq Open \cup StandingJobs
    BY <2>3, <2>4
  <2>8. Cardinality(Open) + Cardinality(StandingJobs) >= Cardinality(Running) + Cardinality(OnThread)
    BY <2>3, <2>5, <2>6, <2>7, NoLargerTogether
  <2> QED BY <2>3, <2>8 DEF Stalled
<1> QED BY <1>1, ServerInvariant, PTL

----------------------------------------------------------------------------
(* Where the server rests.                                                 *)

\* main drops the pool last.
PoolOutlivesMain == phase # "stopped" => pool = "open"

LEMMA PoolOutlivesMainNext ==
  ASSUME PoolOutlivesMain, [ServerNext]_serverVars
  PROVE  PoolOutlivesMain'
<1>1. ASSUME NEW r \in Requests, Handles(r)  PROVE pool' = pool /\ phase' = phase
  BY <1>1, HandlesInPool DEF Ask, Enqueue, Refuse, EndInput, Release, TakeOutput, poolVars
<1>2. CASE Interrupt \/ Signal \/ CloseListeners \/ MainReturns \/ RuntimeDropped
  BY <1>2 DEF Interrupt, Signal, CloseListeners, MainReturns, RuntimeDropped, poolVars, PoolOutlivesMain
<1>3. ASSUME NEW w \in Workers, WorkerRuns(w) \/ WorkerHindered(w)  PROVE pool' = pool /\ phase' = phase
  BY <1>3 DEF WorkerRuns, WorkerStep, Lock, TakeJob, Exit, EndJob, Abort, Leaves, WorkerHindered,
     Hinders, FillOutput, LoseEof
<1>4. CASE UNCHANGED serverVars
  BY <1>4 DEF serverVars, poolVars, PoolOutlivesMain
<1> QED BY <1>1, <1>2, <1>3, <1>4 DEF ServerNext, Handles, PoolOutlivesMain

\* Workers that cannot move wait for a job, for the handler of their job, or for good,
\* or are gone; if one waits for a job there is none.
LEMMA RestingWorkers ==
  ASSUME ServerInv, ~WorkersCanMove
  PROVE  /\ \A w \in Left : worker[w] # "run" => queue = <<>>
         /\ AllGone => queue = <<>>
         /\ \A w \in Workers : worker[w] = "run" =>
              /\ job[w] \in Requests /\ job[w] \in Running /\ ~Queued(job[w])
              /\ NeedsHandler(job[w]) \/ Standing(job[w])
<1>1. /\ worker \in [Workers -> {"lock", "recv", "run", "gone"}]
      /\ request \in [Requests -> {"idle", "acquiring", "held", "ended", "dropped", "refused"}]
      /\ output \in [Requests -> {"open", "full", "eased", "silent"}]
      /\ OneWorkerEach /\ OnePlaceEach
  BY DEF ServerInv, PoolInv, PoolTypeOK
<1>2. ASSUME NEW w \in Left, worker[w] # "run"  PROVE queue = <<>>
  <2>1. PICK v \in Workers : worker[v] = "recv"
    BY <1>1, <1>2 DEF Left, WorkersCanMove
  <2> QED BY <2>1 DEF WorkersCanMove
<1>3. ASSUME NEW w \in Workers, worker[w] = "run"
      PROVE  /\ job[w] \in Requests /\ job[w] \in Running /\ ~Queued(job[w])
             /\ NeedsHandler(job[w]) \/ Standing(job[w])
  <2>1. job[w] \in Requests /\ job[w] \in Running
    BY <1>1, <1>3 DEF OneWorkerEach, Running
  <2>2. ~Queued(job[w]) /\ request[job[w]] \notin {"idle", "acquiring", "refused"}
    BY <1>1, <2>1 DEF OnePlaceEach, Queued
  <2>3. /\ request[job[w]] \in {"held", "ended", "dropped"}
        /\ output[job[w]] \in {"open", "full", "eased", "silent"}
    BY <1>1, <2>1, <2>2
  <2>4. InputOver(job[w]) => output[job[w]] \in {"full", "silent"}
    BY <1>3, <2>3 DEF WorkersCanMove
  <2>5. request[job[w]] = "dropped" => output[job[w]] # "full"
    BY <1>3 DEF WorkersCanMove
  <2> QED BY <2>1, <2>2, <2>3, <2>4, <2>5 DEF InputOver, NeedsHandler, Standing, EofLost
<1> QED BY <1>2, <1>3 DEF ServerInv, PoolInv

\* With all threads held and nothing to move, the server is stalled.
LEMMA HeldThreadsStall ==
  ASSUME ServerInv, ~ServerCanMove, ~FreeThread
  PROVE  Stalled
<1>1. \A r \in OnThread : WaitsForWorker(r) \/ HangsInCall(r)
  BY DEF ServerCanMove
<1>2. Cardinality(OnThread) = Threads
  BY OnThreadFinite, ThreadAssumption DEF ServerInv, FreeThread
<1>3. \A w \in Left : IF worker[w] = "run" THEN NeedsHandler(job[w]) \/ Standing(job[w]) ELSE queue = <<>>
  BY RestingWorkers DEF ServerCanMove, Left
<1> QED BY <1>1, <1>2, <1>3 DEF Stalled

\* With a thread free and nothing to move, all is done but for what hangs.
LEMMA FreeThreadsAreDone ==
  ASSUME ServerInv, LossInv, PoolOutlivesMain, ~ServerCanMove, FreeThread
  PROVE  /\ \A r \in Open : Hangs(r)
         /\ Unserved = {} \/ AllLost \/ AllStand
         /\ phase \in (IF Open = {} THEN {"up", "stopped"} ELSE {"up", "stopping", "stopped"})
         /\ pool = "open" \/ OnlyStandingStay
<1>1. /\ task \in [Requests -> {"new", "parked", "acquire", "send", "recv", "drop", "gone"}]
      /\ worker \in [Workers -> {"lock", "recv", "run", "gone"}]
      /\ phase \in {"up", "interrupted", "signalled", "closed", "stopping", "stopped"}
      /\ pool \in {"open", "dropped"}
  BY DEF ServerInv, TasksOK, PoolInv, PoolTypeOK
<1>2. \A r \in Requests : Allowed(task[r], request[r])
  BY DEF ServerInv, Linked
<1>3. \A r \in OnThread : WaitsForWorker(r) \/ HangsInCall(r)
  BY DEF ServerCanMove
<1>4. ~WorkersCanMove
  BY DEF ServerCanMove
<1>5. \A r \in Requests : task[r] = "parked" =>
        /\ phase # "stopping" /\ request[r] # "held"
        /\ request[r] = "ended" => output[r] # "full" /\ r \in Range(queue) \cup Running
  BY DEF ServerCanMove
\* The jobs that run stand, since the handler of another could go on.
<1>6. \A w \in Workers : worker[w] = "run" => Standing(job[w])
  <2> SUFFICES ASSUME NEW w \in Workers, worker[w] = "run", ~Standing(job[w]) PROVE FALSE
    OBVIOUS
  <2>1. job[w] \in Requests /\ ~Queued(job[w]) /\ NeedsHandler(job[w])
    BY <1>4, RestingWorkers
  <2>2. task[job[w]] \in {"parked", "send", "recv", "drop"} /\ task[job[w]] # "parked"
    BY <1>2, <1>5, <2>1 DEF Allowed, NeedsHandler
  <2>3. job[w] \in OnThread
    BY <2>1, <2>2 DEF OnThread
  <2>4. ~WaitsForWorker(job[w]) /\ ~HangsInCall(job[w])
    BY <2>1, <2>2 DEF WaitsForWorker, HangsInCall, Standing
  <2> QED BY <1>3, <2>3, <2>4
<1>7. queue = <<>> \/ AllStand
  <2>1. CASE AllGone
    BY <1>4, <2>1, RestingWorkers
  <2>2. CASE ~AllGone /\ queue # <<>>
    <3>1. Left # {}
      BY <2>2 DEF AllGone, Left
    <3>2. \A w \in Left : worker[w] = "run" /\ w \in Workers
      BY <1>4, <2>2, RestingWorkers DEF Left
    <3> QED BY <1>6, <3>1, <3>2 DEF AllStand
  <2> QED BY <2>1, <2>2
<1>8. \A r \in OnThread : r \in Open /\ Hangs(r)
  <2> TAKE r \in OnThread
  <2>1. r \in Open /\ r \in Requests
    BY WaitingHandlers
  <2>2. CASE WaitsForWorker(r)
    <3>1. AllStand
      BY <1>7, <2>2, WaitingHandlers
    <3>2. Queued(r) \/ request[r] = "acquiring"
      BY <1>2, <2>1, <2>2 DEF WaitsForWorker, Allowed
    <3> QED BY <2>1, <3>1, <3>2 DEF Hangs
  <2>3. CASE HangsInCall(r)
    BY <2>1, <2>3 DEF HangsInCall, Standing, Hangs
  <2> QED BY <1>3, <2>2, <2>3
<1>9. \A r \in Requests : task[r] \in {"new", "parked", "gone"} \/ r \in OnThread
  BY <1>1 DEF OnThread
<1>10. \A r \in Open : Hangs(r)
  <2> SUFFICES ASSUME NEW r \in Open, r \notin OnThread PROVE Hangs(r)
    BY <1>8
  <2>1. r \in Requests /\ task[r] = "parked" /\ request[r] = "ended"
    BY <1>2, <1>5, <1>9 DEF Open, Allowed
  <2>2. CASE r \in Range(queue)
    BY <1>7, <2>2, Empty DEF Hangs, Queued
  <2>3. CASE r \in Running
    <3>1. PICK w \in Workers : worker[w] = "run" /\ job[w] = r
      BY <2>3 DEF Running
    <3> QED BY <1>6, <3>1 DEF Hangs
  <2> QED BY <1>5, <2>1, <2>2, <2>3
<1>11. Unserved = {} \/ AllLost \/ AllStand
  BY <1>7, Empty DEF LossInv, NoneForgotten
<1>12. phase \in (IF Open = {} THEN {"up", "stopped"} ELSE {"up", "stopping", "stopped"})
  <2>1. phase = "stopping" => Open # {}
    <3> SUFFICES ASSUME phase = "stopping" PROVE Open # {}
      OBVIOUS
    <3>1. PICK r \in Requests : task[r] \notin {"new", "gone"}
      BY DEF ServerCanMove
    <3>2. r \in OnThread
      BY <1>5, <1>9, <3>1
    <3> QED BY <1>8, <3>2
  <2>2. phase \notin {"interrupted", "signalled", "closed"}
    BY DEF ServerCanMove
  <2> QED BY <1>1, <2>1, <2>2
<1>13. pool = "open" \/ OnlyStandingStay
  <2> SUFFICES ASSUME pool = "dropped" PROVE OnlyStandingStay
    BY <1>1
  <2>1. \A v \in Workers : worker[v] # "recv"
    BY <1>4 DEF WorkersCanMove
  <2>2. \A v \in Workers : worker[v] # "lock"
    BY <1>4, <2>1 DEF WorkersCanMove
  <2>3. \A w \in Left : w \in Workers /\ worker[w] = "run"
    BY <1>1, <2>1, <2>2 DEF Left
  <2> QED BY <1>6, <2>3 DEF OnlyStandingStay
<1> QED BY <1>10, <1>11, <1>12, <1>13

\* For any number of CPUs, threads and requests, a process in which no task, worker or
\* blocked call can go on is stalled, or through with its requests, its jobs and its
\* shutdown but for what hangs with a job that stands (pool.rs:91, 221, 247): there is no
\* other deadlock of handlers, workers and main.
THEOREM ServerRestsWhenDone == ServerSpec => []RestsOnlyWhenDone
<1>1. ServerInit => PoolOutlivesMain
  BY DEF ServerInit, PoolInit, PoolOutlivesMain
<1>2. ServerSpec => []LossInv
  BY ServerIsPool, LossInvariant, PTL
<1>3. ServerSpec => []PoolOutlivesMain
  BY <1>1, PoolOutlivesMainNext, PTL DEF ServerSpec
<1>4. ServerInv /\ LossInv /\ PoolOutlivesMain => RestsOnlyWhenDone
  BY HeldThreadsStall, FreeThreadsAreDone DEF RestsOnlyWhenDone
<1> QED BY <1>2, <1>3, <1>4, ServerInvariant, PTL

----------------------------------------------------------------------------
(* Every step uses up some of what is left.                                *)

RanksOK ==
  /\ \A r \in Requests : TaskRank(r) \in 0..10 /\ FlowRank[output[r]] \in 0..3
  /\ \A w \in Workers : WorkerRank(w) \in 0..2
  /\ PhaseRank[phase] \in 0..5

LEMMA RankTypes == TasksOK /\ PoolTypeOK => RanksOK
<1> SUFFICES ASSUME TasksOK, PoolTypeOK PROVE RanksOK
  OBVIOUS
<1>1. ASSUME NEW r \in Requests PROVE TaskRank(r) \in 0..10
  <2>1. task[r] \in {"new", "parked", "acquire", "send", "recv", "drop", "gone"}
    BY DEF TasksOK
  <2> QED BY <2>1 DEF TaskRank
<1>2. \A r \in Requests : FlowRank[output[r]] \in 0..3
  BY DEF FlowRank, PoolTypeOK
<1>3. \A w \in Workers : WorkerRank(w) \in 0..2
  BY DEF WorkerRank, PoolTypeOK
<1>4. PhaseRank[phase] \in 0..5
  BY DEF TasksOK, PhaseRank
<1> QED BY <1>1, <1>2, <1>3, <1>4 DEF RanksOK

LEMMA RankTypesNext == TasksOK' /\ PoolTypeOK' => RanksOK'
  BY RankTypes, PTL

LEMMA Fewer ==
  ASSUME NEW S, NEW T, IsFiniteSet(S), T \subseteq S
  PROVE  /\ Cardinality(S) \in Nat /\ Cardinality(T) \in Nat
         /\ Cardinality(T) <= Cardinality(S)
         /\ (\E u \in S : u \notin T) => Cardinality(T) < Cardinality(S)
<1>1. T \in SUBSET S
  OBVIOUS
<1>2. /\ IsFiniteSet(T) /\ Cardinality(T) <= Cardinality(S)
      /\ Cardinality(S) = Cardinality(T) => S = T
  BY <1>1, FS_Subset
<1>3. Cardinality(S) \in Nat /\ Cardinality(T) \in Nat
  BY <1>2, FS_CardinalityType
<1> QED BY <1>2, <1>3

LEMMA AtMostTwoMore ==
  ASSUME NEW S, IsFiniteSet(S), NEW x, NEW y
  PROVE  /\ IsFiniteSet(S \cup {x, y}) /\ Cardinality(S) \in Nat
         /\ Cardinality(S \cup {x, y}) <= Cardinality(S) + 2
<1>1. IsFiniteSet(S \cup {x}) /\ Cardinality(S \cup {x}) \in {Cardinality(S), Cardinality(S) + 1}
  BY FS_AddElement
<1> DEFINE U == S \cup {x}
<1> HIDE DEF U
<1>2. IsFiniteSet(U \cup {y}) /\ Cardinality(U \cup {y}) \in {Cardinality(U), Cardinality(U) + 1}
  BY <1>1, FS_AddElement DEF U
<1>3. U \cup {y} = S \cup {x, y}
  BY DEF U
<1>4. Cardinality(S) \in Nat
  BY FS_CardinalityType
<1> QED BY <1>1, <1>2, <1>3, <1>4 DEF U

\* A unit is an element with one of the numbers up to its rank.
LEMMA UnitsFinite ==
  ASSUME NEW S, IsFiniteSet(S), NEW f, \A s \in S : f[s] \in 0..10
  PROVE  /\ IsFiniteSet(Units(S, f)) /\ Cardinality(Units(S, f)) \in Nat
         /\ \A u : u \in Units(S, f) <=> \E s \in S : \E i \in 1..f[s] : u = <<s, i>>
<1>1. \A u : u \in Units(S, f) <=> \E s \in S : \E i \in 1..f[s] : u = <<s, i>>
  BY DEF Units
<1>2. IsFiniteSet(S \X (1..10))
  <2>1. IsFiniteSet(1..10)
    <3>1. 1 \in Int /\ 10 \in Int
      OBVIOUS
    <3> QED BY <3>1, FS_Interval
  <2> QED BY <2>1, FS_Product
<1>3. Units(S, f) \in SUBSET (S \X (1..10))
  BY <1>1
<1> QED BY <1>1, <1>2, <1>3, FS_Subset, FS_CardinalityType

\* Ranks that fall leave fewer units.
LEMMA UnitsFall ==
  ASSUME NEW S, IsFiniteSet(S), NEW f, NEW g,
         \A s \in S : f[s] \in 0..10 /\ g[s] \in 0..10 /\ g[s] <= f[s]
  PROVE  /\ Cardinality(Units(S, g)) <= Cardinality(Units(S, f))
         /\ (\E s \in S : g[s] < f[s]) => Cardinality(Units(S, g)) < Cardinality(Units(S, f))
<1>1. IsFiniteSet(Units(S, f))
  BY UnitsFinite
<1>2. /\ \A u : u \in Units(S, f) <=> \E s \in S : \E i \in 1..f[s] : u = <<s, i>>
      /\ \A u : u \in Units(S, g) <=> \E s \in S : \E i \in 1..g[s] : u = <<s, i>>
  BY DEF Units
<1>3. Units(S, g) \subseteq Units(S, f)
  BY <1>2
<1>4. ASSUME NEW s \in S, g[s] < f[s]
      PROVE  <<s, f[s]>> \in Units(S, f) /\ <<s, f[s]>> \notin Units(S, g)
  BY <1>2, <1>4
<1> QED BY <1>1, <1>3, <1>4, Fewer

\* One rank that rises by two makes for two more units at most.
LEMMA UnitsRise ==
  ASSUME NEW S, IsFiniteSet(S), NEW f, NEW g, NEW x \in S,
         \A s \in S : f[s] \in 0..10 /\ g[s] \in 0..10,
         \A s \in S \ {x} : g[s] = f[s], g[x] <= f[x] + 2
  PROVE  Cardinality(Units(S, g)) <= Cardinality(Units(S, f)) + 2
<1> DEFINE a == <<x, f[x] + 1>>
           b == <<x, f[x] + 2>>
<1>1. /\ \A u : u \in Units(S, f) <=> \E s \in S : \E i \in 1..f[s] : u = <<s, i>>
      /\ \A u : u \in Units(S, g) <=> \E s \in S : \E i \in 1..g[s] : u = <<s, i>>
      /\ IsFiniteSet(Units(S, f)) /\ Cardinality(Units(S, f)) \in Nat
      /\ Cardinality(Units(S, g)) \in Nat
  BY UnitsFinite
<1>2. Units(S, g) \subseteq Units(S, f) \cup {a, b}
  <2> SUFFICES ASSUME NEW s \in S, NEW i \in 1..g[s]
               PROVE  <<s, i>> \in Units(S, f) \cup {a, b}
    BY <1>1
  <2>1. CASE i \in 1..f[s]
    BY <1>1, <2>1
  <2>2. CASE i \notin 1..f[s]
    <3>1. s = x /\ (i = f[x] + 1 \/ i = f[x] + 2)
      BY <2>2
    <3> QED BY <3>1
  <2> QED BY <2>1, <2>2
<1> HIDE DEF a, b
<1>3. /\ IsFiniteSet(Units(S, f) \cup {a, b})
      /\ Cardinality(Units(S, f) \cup {a, b}) <= Cardinality(Units(S, f)) + 2
  BY <1>1, AtMostTwoMore
<1>4. /\ Cardinality(Units(S, g)) <= Cardinality(Units(S, f) \cup {a, b})
      /\ Cardinality(Units(S, f) \cup {a, b}) \in Nat
  BY <1>2, <1>3, Fewer
<1> QED BY <1>1, <1>3, <1>4

\* A task that goes on descends, in what it has to do or in what its job's channels may
\* still hold; the others stay as they are.
LEMMA TaskRanksFall ==
  ASSUME ServerInv, NEW r \in Requests, Handles(r)
  PROVE  /\ UNCHANGED <<worker, over, phase>>
         /\ \A s \in Requests \ {r} :
              /\ task'[s] = task[s] /\ request'[s] = request[s] /\ output'[s] = output[s]
              /\ Queued(s)' = Queued(s)
         /\ \/ output'[r] = output[r] /\ TaskRank(r)' < TaskRank(r)
            \/ /\ output[r] = "full" /\ output'[r] = "eased" /\ TaskRank(r)' <= TaskRank(r)
<1>1. /\ task \in [Requests -> {"new", "parked", "acquire", "send", "recv", "drop", "gone"}]
      /\ request \in [Requests -> {"idle", "acquiring", "held", "ended", "dropped", "refused"}]
      /\ output \in [Requests -> {"open", "full", "eased", "silent"}]
      /\ queue \in Seq(Requests)
      /\ Allowed(task[r], request[r])
      /\ \A s \in Requests : request[s] \in {"idle", "acquiring", "refused"} => ~Queued(s)
  BY DEF ServerInv, TasksOK, PoolInv, PoolTypeOK, OnePlaceEach, Linked, Queued
<1> USE <1>1 DEF Allowed
<1>2. ASSUME LetGo(r), UNCHANGED phase
      PROVE  /\ UNCHANGED <<worker, over, phase, queue, output>>
             /\ \A s \in Requests \ {r} : task'[s] = task[s] /\ request'[s] = request[s]
             /\ TaskRank(r)' < TaskRank(r)
  <2>1. CASE (Queued(r) \/ output[r] = "full") /\ Polled(r, "drop") /\ UNCHANGED poolVars
    BY <1>2, <2>1 DEF Polled, poolVars, TaskRank
  <2>2. CASE Polled(r, "gone") /\ (Release(r) \/ UNCHANGED poolVars)
    BY <1>2, <2>2 DEF Polled, Release, poolVars, TaskRank
  <2> QED BY <1>2, <2>1, <2>2 DEF LetGo
<1>3. CASE Finish(r) \/ ReturnEarly(r) \/ Cancel(r)
  BY <1>2, <1>3 DEF Finish, ReturnEarly, Cancel, Queued
<1>4. CASE Connect(r)
  BY <1>4 DEF Connect, poolVars, TaskRank, Queued
<1>5. CASE CallAcquire(r)
  BY <1>5 DEF CallAcquire, Polled, Ask, TaskRank, Queued
<1>6. CASE CallSend(r)
  BY <1>6 DEF CallSend, Polled, poolVars, TaskRank, Queued
<1>7. CASE SignalEof(r)
  BY <1>7 DEF SignalEof, Polled, EndInput, TaskRank, Queued
<1>8. CASE Acquired(r)
  <2>1. Range(queue') = Range(queue) \cup {r}
    BY <1>8, Grows DEF Acquired, Enqueue
  <2>2. Queued(r)' /\ \A s \in Requests \ {r} : Queued(s)' = Queued(s)
    BY <2>1 DEF Queued
  <2> QED BY <1>8, <2>2 DEF Acquired, Returns, Enqueue, TaskRank
<1>9. CASE AcquireFails(r)
  BY <1>9 DEF AcquireFails, Returns, Refuse, TaskRank, Queued
<1>10. CASE SendReturns(r)
  BY <1>10 DEF SendReturns, Wedged, Returns, poolVars, TaskRank, Queued
<1>11. CASE RecvReturns(r)
  BY <1>11 DEF RecvReturns, EofLost, Returns, TakeOutput, poolVars, TaskRank, Queued
<1>12. CASE DropReturns(r)
  BY <1>12 DEF DropReturns, Returns, Release, TaskRank, Queued
<1>13. CASE Take(r)
  BY <1>13 DEF Take, Polled, TakeOutput, TaskRank, Queued
<1>14. CASE CallRecv(r)
  BY <1>14 DEF CallRecv, EofLost, Polled, poolVars, TaskRank, Queued
<1> QED
  BY <1>3, <1>4, <1>5, <1>6, <1>7, <1>8, <1>9, <1>10, <1>11, <1>12, <1>13, <1>14
  DEF Handles, BlockedCallReturns

\* A queue that loses jobs brings their tasks nearer to their end.
LEMMA QueueRanksFall ==
  ASSUME TasksOK, UNCHANGED <<task, request>>, Range(queue') \subseteq Range(queue),
         NEW r \in Requests, task[r] \in {"send", "recv"} => output'[r] = output[r]
  PROVE  TaskRank(r)' <= TaskRank(r)
<1>1. /\ task[r] \in {"new", "parked", "acquire", "send", "recv", "drop", "gone"}
      /\ task'[r] = task[r] /\ request'[r] = request[r] /\ (Queued(r)' => Queued(r))
  BY DEF TasksOK, Queued
<1> QED BY <1>1 DEF TaskRank

\* A step of a worker lowers its own rank, or takes a job off those to be run.
LEMMA WorkerRanksFall ==
  ASSUME ServerInv, NEW w \in Workers, WorkerRuns(w)
  PROVE  /\ UNCHANGED <<task, phase>>
         /\ \A r \in Requests : TaskRank(r)' <= TaskRank(r)
         /\ \A v \in Workers \ {w} : worker'[v] = worker[v]
         /\ \/ over' = over /\ output' = output /\ WorkerRank(w)' < WorkerRank(w)
            \/ \E r \in Requests \ over :
                 /\ over' = over \cup {r} /\ output[r] # "silent"
                 /\ output' = [output EXCEPT ![r] = "open"]
<1>1. /\ task \in [Requests -> {"new", "parked", "acquire", "send", "recv", "drop", "gone"}]
      /\ worker \in [Workers -> {"lock", "recv", "run", "gone"}]
      /\ output \in [Requests -> {"open", "full", "eased", "silent"}]
      /\ queue \in Seq(Requests) /\ TasksOK /\ PoolInv
  BY DEF ServerInv, TasksOK, PoolInv, PoolTypeOK
<1>2. UNCHANGED <<task, request, phase>>
  BY DEF WorkerRuns, WorkerStep, Lock, TakeJob, Exit, EndJob, Abort, Leaves
<1>3. Range(queue') \subseteq Range(queue)
  <2>1. queue' = queue \/ (queue # <<>> /\ queue' = Tail(queue)) \/ queue' = <<>>
    BY DEF WorkerRuns, WorkerStep, Lock, TakeJob, Exit, EndJob, Abort
  <2>2. CASE queue # <<>> /\ queue' = Tail(queue)
    BY <1>1, <2>2, Shrinks
  <2>3. CASE queue' = <<>>
    BY <2>3, Empty
  <2> QED BY <2>1, <2>2, <2>3
<1>4. CASE Lock(w) \/ TakeJob(w) \/ Exit(w)
  <2>1. /\ over' = over /\ output' = output
        /\ \A v \in Workers \ {w} : worker'[v] = worker[v]
        /\ \/ worker[w] = "lock" /\ worker'[w] = "recv"
           \/ worker[w] = "recv" /\ worker'[w] \in {"run", "gone"}
    BY <1>1, <1>4 DEF Lock, TakeJob, Exit
  <2>2. WorkerRank(w)' < WorkerRank(w)
    BY <2>1 DEF WorkerRank
  <2>3. \A r \in Requests : TaskRank(r)' <= TaskRank(r)
    BY <1>1, <1>2, <1>3, <2>1, QueueRanksFall
  <2> QED BY <1>2, <2>1, <2>2, <2>3
<1>5. CASE Completes(w)
  <2>1. job[w] \in Requests \ over /\ over' = over \cup {job[w]}
    BY <1>1, <1>5, CompletesNext DEF Running, PoolInv, OnePlaceEach
  <2>2. /\ \A v \in Workers \ {w} : worker'[v] = worker[v]
        /\ output' = [output EXCEPT ![job[w]] = "open"]
    BY <1>1, <1>5, CompletesNext
  <2>3. /\ output[job[w]] # "silent"
        /\ output[job[w]] = "full" => request[job[w]] = "dropped"
        /\ request[job[w]] \in {"ended", "dropped"}
    BY <1>5 DEF Completes, EndJob, Abort, InputOver
  <2>4. \A r \in Requests : TaskRank(r)' <= TaskRank(r)
    <3> TAKE r \in Requests
    <3>1. CASE r # job[w]
      BY <1>1, <1>2, <1>3, <2>2, <3>1, QueueRanksFall
    <3>2. CASE r = job[w]
      <4>1. task[r] \in {"parked", "recv", "drop", "gone"}
        BY <2>3, <3>2 DEF ServerInv, Linked, Allowed
      <4>2. output'[r] = "open" /\ output[r] # "silent"
        BY <1>1, <2>2, <2>3, <3>2
      <4>3. task'[r] = task[r] /\ request'[r] = request[r] /\ (Queued(r)' => Queued(r))
        BY <1>2, <1>3 DEF Queued
      <4> QED BY <4>1, <4>2, <4>3 DEF TaskRank
    <3> QED BY <3>1, <3>2
  <2> QED BY <1>2, <2>1, <2>2, <2>3, <2>4
<1> QED BY <1>4, <1>5 DEF WorkerRuns, WorkerStep, Completes

\* What hinders a worker takes away from what may still hinder it.
LEMMA HinderedRanksFall ==
  ASSUME ServerInv, NEW w \in Workers, WorkerHindered(w)
  PROVE  /\ UNCHANGED <<worker, over, phase>>
         /\ \A r \in Requests :
              /\ TaskRank(r)' <= TaskRank(r)
              /\ FlowRank[output'[r]] <= FlowRank[output[r]]
         /\ \E r \in Requests : FlowRank[output'[r]] < FlowRank[output[r]]
<1>1. /\ task \in [Requests -> {"new", "parked", "acquire", "send", "recv", "drop", "gone"}]
      /\ output \in [Requests -> {"open", "full", "eased", "silent"}]
      /\ TasksOK /\ PoolInv /\ job[w] \in Requests
      /\ UNCHANGED <<queue, request, worker, over, task, phase>>
  BY HindersNext DEF WorkerHindered, ServerInv, TasksOK, PoolInv, PoolTypeOK
<1>0. PICK j \in Requests : j = job[w]
  BY <1>1
<1>2. ASSUME NEW r \in Requests, r # j
      PROVE  TaskRank(r)' <= TaskRank(r) /\ FlowRank[output'[r]] <= FlowRank[output[r]]
  <2>1. output'[r] = output[r]
    BY <1>0, <1>1, <1>2, HindersNext DEF WorkerHindered
  <2>2. TaskRank(r)' <= TaskRank(r)
    BY <1>1, <2>1, QueueRanksFall
  <2>3. FlowRank[output[r]] \in 0..3
    BY <1>1 DEF FlowRank
  <2> QED BY <2>1, <2>2, <2>3
<1>3. CASE FillOutput(w)
  <2>1. output[j] = "open" /\ output'[j] = "full" /\ task[j] \notin {"send", "drop"}
    BY <1>0, <1>1, <1>3 DEF FillOutput, WorkerHindered
  <2>2. TaskRank(j)' <= TaskRank(j)
    BY <1>1, <2>1 DEF TaskRank, Queued
  <2>3. FlowRank[output'[j]] < FlowRank[output[j]]
    BY <2>1 DEF FlowRank
  <2>4. FlowRank[output'[j]] <= FlowRank[output[j]]
    BY <2>1 DEF FlowRank
  <2> QED BY <1>1, <1>2, <2>2, <2>3, <2>4
<1>4. CASE LoseEof(w)
  <2>1. output[j] \in {"open", "eased"} /\ output'[j] = "silent"
    BY <1>0, <1>1, <1>4 DEF LoseEof
  <2>2. TaskRank(j)' <= TaskRank(j)
    BY <1>1, <2>1 DEF TaskRank, Queued
  <2>3. FlowRank[output'[j]] < FlowRank[output[j]]
    BY <2>1 DEF FlowRank
  <2>4. FlowRank[output'[j]] <= FlowRank[output[j]]
    BY <2>1 DEF FlowRank
  <2> QED BY <1>1, <1>2, <2>2, <2>3, <2>4
<1> QED BY <1>3, <1>4 DEF WorkerHindered, Hinders

\* The units of tasks, channels and workers before and after a step.
LEMMA TaskUnitsFall ==
  ASSUME RanksOK, RanksOK', \A r \in Requests : TaskRank(r)' <= TaskRank(r)
  PROVE  /\ Cardinality(TaskUnits) \in Nat /\ Cardinality(TaskUnits') \in Nat
         /\ Cardinality(TaskUnits') <= Cardinality(TaskUnits)
         /\ (\E r \in Requests : TaskRank(r)' < TaskRank(r)) =>
              Cardinality(TaskUnits') < Cardinality(TaskUnits)
<1> DEFINE f == [r \in Requests |-> TaskRank(r)]
           g == [r \in Requests |-> TaskRank(r)']
<1>1. TaskUnits = Units(Requests, f) /\ TaskUnits' = Units(Requests, g)
  BY DEF TaskUnits, Units
<1>2. \A r \in Requests :
        /\ f[r] \in 0..10 /\ g[r] \in 0..10 /\ g[r] <= f[r]
        /\ f[r] = TaskRank(r) /\ g[r] = TaskRank(r)'
  BY DEF RanksOK
<1> HIDE DEF f, g
<1> QED BY <1>1, <1>2, UnitsFinite, UnitsFall, PoolAssumption

LEMMA FlowUnitsFall ==
  ASSUME RanksOK, RanksOK', \A r \in Requests : FlowRank[output'[r]] <= FlowRank[output[r]]
  PROVE  /\ Cardinality(FlowUnits) \in Nat /\ Cardinality(FlowUnits') \in Nat
         /\ Cardinality(FlowUnits') <= Cardinality(FlowUnits)
         /\ (\E r \in Requests : FlowRank[output'[r]] < FlowRank[output[r]]) =>
              Cardinality(FlowUnits') < Cardinality(FlowUnits)
<1> DEFINE f == [r \in Requests |-> FlowRank[output[r]]]
           g == [r \in Requests |-> FlowRank[output'[r]]]
<1>1. FlowUnits = Units(Requests, f) /\ FlowUnits' = Units(Requests, g)
  BY DEF FlowUnits, Units, FlowRank
<1>2. \A r \in Requests :
        /\ f[r] \in 0..10 /\ g[r] \in 0..10 /\ g[r] <= f[r]
        /\ f[r] = FlowRank[output[r]] /\ g[r] = FlowRank[output'[r]]
  BY DEF RanksOK, FlowRank
<1> HIDE DEF f, g
<1> QED BY <1>1, <1>2, UnitsFinite, UnitsFall, PoolAssumption

\* A job that is over gives its channels back.
LEMMA FlowUnitsRise ==
  ASSUME PoolTypeOK, NEW r \in Requests, output[r] # "silent",
         output' = [output EXCEPT ![r] = "open"]
  PROVE  Cardinality(FlowUnits') \in Nat /\ Cardinality(FlowUnits') <= Cardinality(FlowUnits) + 2
<1> DEFINE f == [s \in Requests |-> FlowRank[output[s]]]
           g == [s \in Requests |-> FlowRank[output'[s]]]
<1>1. FlowUnits = Units(Requests, f) /\ FlowUnits' = Units(Requests, g)
  BY DEF FlowUnits, Units, FlowRank
<1>2. output \in [Requests -> {"open", "full", "eased", "silent"}]
  BY DEF PoolTypeOK
<1>3. \A s \in Requests : f[s] \in 0..10 /\ g[s] \in 0..10
  BY <1>2 DEF FlowRank
<1>4. \A s \in Requests \ {r} : g[s] = f[s]
  BY <1>2
<1>5. g[r] <= f[r] + 2
  BY <1>2 DEF FlowRank
<1> HIDE DEF f, g
<1> QED BY <1>1, <1>3, <1>4, <1>5, UnitsFinite, UnitsRise, PoolAssumption

LEMMA WorkersFinite == IsFiniteSet(Workers)
  BY FS_Interval, SizePos DEF Workers

LEMMA WorkerUnitsNext ==
  ASSUME RanksOK, RanksOK', NEW w \in Workers, \A v \in Workers \ {w} : worker'[v] = worker[v]
  PROVE  /\ Cardinality(WorkerUnits) \in Nat /\ Cardinality(WorkerUnits') \in Nat
         /\ Cardinality(WorkerUnits') <= Cardinality(WorkerUnits) + 2
         /\ WorkerRank(w)' < WorkerRank(w) => Cardinality(WorkerUnits') < Cardinality(WorkerUnits)
<1> DEFINE f == [v \in Workers |-> WorkerRank(v)]
           g == [v \in Workers |-> WorkerRank(v)']
<1>1. WorkerUnits = Units(Workers, f) /\ WorkerUnits' = Units(Workers, g)
  BY DEF WorkerUnits, Units
<1>2. \A v \in Workers : f[v] \in 0..10 /\ g[v] \in 0..10
  BY DEF RanksOK
<1>3. \A v \in Workers \ {w} : g[v] = f[v]
  BY DEF WorkerRank
<1>4. g[w] <= f[w] + 2 /\ g[w] = WorkerRank(w)' /\ f[w] = WorkerRank(w)
  BY DEF RanksOK
<1> HIDE DEF f, g
<1>5. ASSUME WorkerRank(w)' < WorkerRank(w)
      PROVE  Cardinality(Units(Workers, g)) < Cardinality(Units(Workers, f))
  <2>1. \A v \in Workers : f[v] \in 0..10 /\ g[v] \in 0..10 /\ g[v] <= f[v]
    BY <1>2, <1>3, <1>4, <1>5
  <2> QED BY <1>4, <1>5, <2>1, UnitsFall, WorkersFinite
<1> QED BY <1>1, <1>2, <1>3, <1>4, <1>5, UnitsFinite, UnitsRise, WorkersFinite

LEMMA ServerEffortNext ==
  ASSUME ServerInv, ServerInv', [ServerNext]_serverVars, serverVars' # serverVars
  PROVE  ServerEffort' < ServerEffort
<1>1. RanksOK /\ RanksOK' /\ PoolTypeOK
  BY RankTypes, RankTypesNext DEF ServerInv, PoolInv
<1>2. PhaseRank[phase] \in 0..5 /\ PhaseRank[phase'] \in 0..5
  BY DEF ServerInv, TasksOK, PhaseRank
<1>3. /\ Cardinality(TaskUnits) \in Nat /\ Cardinality(WorkerUnits) \in Nat
      /\ Cardinality(FlowUnits) \in Nat
      /\ IsFiniteSet(Requests \ over) /\ Cardinality(Requests \ over) \in Nat
  <2>1. (Requests \ over) \in SUBSET Requests
    OBVIOUS
  <2>2. IsFiniteSet(Requests \ over) /\ Cardinality(Requests \ over) \in Nat
    BY <2>1, FS_Subset, FS_CardinalityType, PoolAssumption
  <2>3. Cardinality(TaskUnits) \in Nat
    <3> DEFINE f == [r \in Requests |-> TaskRank(r)]
    <3>1. \A r \in Requests : f[r] \in 0..10
      BY <1>1 DEF RanksOK
    <3> HIDE DEF f
    <3>2. Cardinality(Units(Requests, f)) \in Nat
      BY <3>1, UnitsFinite, PoolAssumption
    <3> QED BY <3>2 DEF f, TaskUnits
  <2>4. Cardinality(FlowUnits) \in Nat
    <3> DEFINE f == [r \in Requests |-> FlowRank[output[r]]]
    <3>1. \A r \in Requests : f[r] \in 0..10
      BY <1>1 DEF RanksOK
    <3> HIDE DEF f
    <3>2. Cardinality(Units(Requests, f)) \in Nat
      BY <3>1, UnitsFinite, PoolAssumption
    <3> QED BY <3>2 DEF f, FlowUnits
  <2>5. Cardinality(WorkerUnits) \in Nat
    <3> DEFINE f == [w \in Workers |-> WorkerRank(w)]
    <3>1. \A w \in Workers : f[w] \in 0..10
      BY <1>1 DEF RanksOK
    <3> HIDE DEF f
    <3>2. Cardinality(Units(Workers, f)) \in Nat
      BY <3>1, UnitsFinite, WorkersFinite
    <3> QED BY <3>2 DEF f, WorkerUnits
  <2> QED BY <2>2, <2>3, <2>4, <2>5
<1>4. ASSUME UNCHANGED <<worker, over, phase>>,
             \A r \in Requests :
               TaskRank(r)' <= TaskRank(r) /\ FlowRank[output'[r]] <= FlowRank[output[r]],
             \E r \in Requests :
               TaskRank(r)' < TaskRank(r) \/ FlowRank[output'[r]] < FlowRank[output[r]]
      PROVE  ServerEffort' < ServerEffort
  <2>1. /\ Cardinality(TaskUnits') \in Nat /\ Cardinality(TaskUnits') <= Cardinality(TaskUnits)
        /\ (\E r \in Requests : TaskRank(r)' < TaskRank(r)) =>
             Cardinality(TaskUnits') < Cardinality(TaskUnits)
    BY <1>1, <1>4, TaskUnitsFall
  <2>2. /\ Cardinality(FlowUnits') \in Nat /\ Cardinality(FlowUnits') <= Cardinality(FlowUnits)
        /\ (\E r \in Requests : FlowRank[output'[r]] < FlowRank[output[r]]) =>
             Cardinality(FlowUnits') < Cardinality(FlowUnits)
    BY <1>1, <1>4, FlowUnitsFall
  <2>3. WorkerUnits' = WorkerUnits
    BY <1>4 DEF WorkerUnits, Units, WorkerRank
  <2> QED BY <1>2, <1>3, <1>4, <2>1, <2>2, <2>3 DEF ServerEffort
<1>5. ASSUME NEW r \in Requests, Handles(r)
      PROVE  ServerEffort' < ServerEffort
  <2>1. /\ UNCHANGED <<worker, over, phase>>
        /\ \/ output'[r] = output[r] /\ TaskRank(r)' < TaskRank(r)
           \/ output[r] = "full" /\ output'[r] = "eased" /\ TaskRank(r)' <= TaskRank(r)
    BY <1>5, TaskRanksFall
  <2>2. \A s \in Requests \ {r} :
          /\ task'[s] = task[s] /\ request'[s] = request[s] /\ output'[s] = output[s]
          /\ Queued(s)' = Queued(s)
    BY <1>5, TaskRanksFall
  <2>3. \A s \in Requests \ {r} : TaskRank(s)' = TaskRank(s)
    BY <2>2 DEF TaskRank
  <2>4. /\ \A s \in Requests : TaskRank(s) \in 0..10 /\ FlowRank[output[s]] \in 0..3
        /\ TaskRank(r)' \in 0..10
    BY <1>1 DEF RanksOK
  <2>5. /\ FlowRank[output'[r]] <= FlowRank[output[r]]
        /\ TaskRank(r)' <= TaskRank(r)
        /\ TaskRank(r)' < TaskRank(r) \/ FlowRank[output'[r]] < FlowRank[output[r]]
    <3>1. CASE output'[r] = output[r] /\ TaskRank(r)' < TaskRank(r)
      BY <2>4, <3>1
    <3>2. CASE output[r] = "full" /\ output'[r] = "eased" /\ TaskRank(r)' <= TaskRank(r)
      BY <3>2 DEF FlowRank
    <3> QED BY <2>1, <3>1, <3>2
  <2>6. \A s \in Requests :
          TaskRank(s)' <= TaskRank(s) /\ FlowRank[output'[s]] <= FlowRank[output[s]]
    <3> TAKE s \in Requests
    <3>1. CASE s = r
      BY <2>5, <3>1
    <3>2. CASE s # r
      BY <2>2, <2>3, <2>4, <3>2
    <3> QED BY <3>1, <3>2
  <2> QED BY <1>4, <2>1, <2>5, <2>6
<1>6. ASSUME NEW w \in Workers, WorkerHindered(w)
      PROVE  ServerEffort' < ServerEffort
  BY <1>4, <1>6, HinderedRanksFall
<1>7. ASSUME NEW w \in Workers, WorkerRuns(w)
      PROVE  ServerEffort' < ServerEffort
  <2>1. Cardinality(TaskUnits') <= Cardinality(TaskUnits) /\ Cardinality(TaskUnits') \in Nat
    BY <1>1, <1>7, WorkerRanksFall, TaskUnitsFall
  <2>2. /\ phase' = phase
        /\ Cardinality(WorkerUnits') \in Nat
        /\ Cardinality(WorkerUnits') <= Cardinality(WorkerUnits) + 2
        /\ WorkerRank(w)' < WorkerRank(w) => Cardinality(WorkerUnits') < Cardinality(WorkerUnits)
    BY <1>1, <1>7, WorkerRanksFall, WorkerUnitsNext
  <2>3. CASE over' = over /\ output' = output /\ WorkerRank(w)' < WorkerRank(w)
    <3>1. FlowUnits' = FlowUnits
      BY <2>3 DEF FlowUnits, Units, FlowRank
    <3> QED BY <1>2, <1>3, <2>1, <2>2, <2>3, <3>1 DEF ServerEffort
  <2>4. ASSUME NEW r \in Requests \ over, over' = over \cup {r}, output[r] # "silent",
               output' = [output EXCEPT ![r] = "open"]
        PROVE  ServerEffort' < ServerEffort
    <3>1. Cardinality(Requests \ over') = Cardinality(Requests \ over) - 1
      <4>1. Requests \ over' = (Requests \ over) \ {r}
        BY <2>4
      <4> QED BY <1>3, <4>1, FS_RemoveElement
    <3>2. Cardinality(FlowUnits') \in Nat /\ Cardinality(FlowUnits') <= Cardinality(FlowUnits) + 2
      BY <1>1, <2>4, FlowUnitsRise
    <3> QED BY <1>2, <1>3, <2>1, <2>2, <3>1, <3>2 DEF ServerEffort
  <2> QED BY <1>7, <2>3, <2>4, WorkerRanksFall
<1>8. ASSUME Interrupt \/ Signal \/ CloseListeners \/ MainReturns \/ RuntimeDropped
      PROVE  ServerEffort' < ServerEffort
  <2>1. /\ UNCHANGED <<task, request, queue, worker, output, over>>
        /\ PhaseRank[phase'] < PhaseRank[phase]
    BY <1>8 DEF Interrupt, Signal, CloseListeners, MainReturns, RuntimeDropped, DropPool, poolVars, PhaseRank
  <2>2. TaskUnits' = TaskUnits /\ WorkerUnits' = WorkerUnits /\ FlowUnits' = FlowUnits
    BY <2>1 DEF TaskUnits, TaskRank, Queued, WorkerUnits, WorkerRank, FlowUnits, FlowRank, Units
  <2> QED BY <1>2, <1>3, <2>1, <2>2 DEF ServerEffort
<1> QED BY <1>5, <1>6, <1>7, <1>8 DEF ServerNext, Handles

\* For any number of CPUs, threads and requests a server takes at most as many steps as
\* ServerEffort has units, under any scheduling: with RestsOnlyWhenDone, it gets through
\* with its requests, jobs and shutdown, stalls, or is left with what hangs
\* (pool.rs:46-56, 193-249).
THEOREM ServerEffortShrinks == ServerSpec => ServerEffortFalls
<1>1. ServerInv /\ ServerInv' /\ [ServerNext]_serverVars => [ServerEffort' < ServerEffort]_serverVars
  BY ServerEffortNext
<1>2. ServerInv /\ [ServerNext]_serverVars => ServerInv'
  BY ServerNextInv
<1> QED BY <1>1, <1>2, ServerInvariant, PTL DEF ServerSpec, ServerEffortFalls
=============================================================================
