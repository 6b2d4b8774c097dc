---------------------------- MODULE DecoderPool -----------------------------
(***************************************************************************)
(* The decoder pool (src/src/pool.rs lines 13-67, 191-215) as the router   *)
(* sets it up (src/src/router.rs lines 27-38): a bounded job channel, its  *)
(* receiver shared by the workers behind a mutex, and the requests that    *)
(* acquire decoders.  What happens inside a job is PooledDecoder; here a   *)
(* job runs until its client has signalled the end of input or dropped its *)
(* handle, as PooledDecoder!EndsOnlyAfterEof says, and of its channels     *)
(* there is what may keep its worker: an output that is full, and an end   *)
(* of input that the pipeline has refused.                                 *)
(***************************************************************************)
EXTENDS Naturals, Sequences, FiniteSets, Functions

CONSTANTS
  Cpus,      \* num_cpus::get()
  Requests,  \* the requests that may acquire a decoder, each once
  Fatal,     \* those whose options ask for fewer than 8 bits per sample
  Long,      \* those with more audio than the channels of a job hold
  NoJob      \* not a request

ASSUME PoolAssumption ==
  /\ Cpus \in Nat \ {0} /\ IsFiniteSet(Requests) /\ NoJob \notin Requests
  /\ Fatal \subseteq Requests /\ Long \subseteq Requests

\* pool_size, which is also the capacity of the job channel
Size == 2 * Cpus
Workers == 1..Size

VARIABLES
  queue,   \* the job channel
  request, \* "idle", "acquiring" (in job_tx.send), "held", "ended" (EOF sent), "dropped"
           \* (the handle is gone) or "refused"
  worker,  \* "lock" (waiting for the mutex), "recv" (holding it), "run", "gone"
  job,     \* the job a worker runs
  output,  \* what keeps the worker of a job: "open" (nothing), "full" (output_tx.send on a
           \* full channel), "eased" (it did) or "silent" (pipeline.recv, for ever)
  over,    \* jobs that have been run
  pool     \* "open", or "dropped" once nothing holds the sender

poolVars == <<queue, request, worker, job, output, over, pool>>

PoolInit ==
  /\ queue = <<>> /\ over = {} /\ pool = "open"
  /\ request = [r \in Requests |-> "idle"]
  /\ worker = [w \in Workers |-> "lock"]
  /\ job = [w \in Workers |-> NoJob]
  /\ output = [r \in Requests |-> "open"]

----------------------------------------------------------------------------
(* Faults.                                                                 *)

\* the newest job first
TakeJobLast(w) ==
  /\ worker[w] = "recv" /\ queue # <<>>
  /\ job' = [job EXCEPT ![w] = queue[Len(queue)]]
  /\ queue' = SubSeq(queue, 1, Len(queue) - 1)
  /\ worker' = [worker EXCEPT ![w] = "run"]
  /\ UNCHANGED <<request, output, over, pool>>

\* a shutdown flag, looked at before the channel
ExitAtOnce(w) ==
  /\ worker[w] = "recv" /\ pool = "dropped"
  /\ worker' = [worker EXCEPT ![w] = "gone"]
  /\ UNCHANGED <<queue, request, job, output, over, pool>>

\* Err(_) => continue
ExitNever(w) ==
  /\ worker[w] = "recv" /\ queue = <<>> /\ pool = "dropped"
  /\ worker' = [worker EXCEPT ![w] = "lock"]
  /\ UNCHANGED <<queue, request, job, output, over, pool>>

\* try_recv, and an empty channel taken for a closed one
ExitWhenIdle(w) ==
  /\ worker[w] = "recv" /\ queue = <<>>
  /\ worker' = [worker EXCEPT ![w] = "gone"]
  /\ UNCHANGED <<queue, request, job, output, over, pool>>

\* the pool itself keeps a clone of the shared receiver
RefuseNever(r) == FALSE /\ UNCHANGED poolVars

\* process_job called with the guard still alive: the mutex is held meanwhile
LockHeldWhileRunning(w) ==
  /\ worker[w] = "lock" /\ \A v \in Workers : worker[v] \notin {"recv", "run"}
  /\ worker' = [worker EXCEPT ![w] = "recv"]
  /\ UNCHANGED <<queue, request, job, output, over, pool>>

----------------------------------------------------------------------------
(* Requests.                                                               *)

\* acquire makes the job's channels and calls job_tx.send ...
Ask(r) ==
  /\ pool = "open" /\ request[r] = "idle"
  /\ request' = [request EXCEPT ![r] = "acquiring"]
  /\ UNCHANGED <<queue, worker, job, output, over, pool>>

\* ... which blocks while the channel is full, and returns the handle
Enqueue(r) ==
  /\ request[r] = "acquiring"
  /\ Len(queue) < Size /\ \E w \in Workers : worker[w] # "gone"
  /\ queue' = Append(queue, r)
  /\ request' = [request EXCEPT ![r] = "held"]
  /\ UNCHANGED <<worker, job, output, over, pool>>

\* "Decoder pool shutdown": every worker is gone and the receiver with them
Refuse(r) ==
  /\ request[r] = "acquiring" /\ \A w \in Workers : worker[w] = "gone"
  /\ request' = [request EXCEPT ![r] = "refused"]
  /\ UNCHANGED <<queue, worker, job, output, over, pool>>

\* the client signals the end of its input
EndInput(r) ==
  /\ request[r] = "held"
  /\ request' = [request EXCEPT ![r] = "ended"]
  /\ UNCHANGED <<queue, worker, job, output, over, pool>>

\* the client lets go of its handle: Drop has sent EOF, and both channel ends are released
Release(r) ==
  /\ request[r] \in {"held", "ended"}
  /\ request' = [request EXCEPT ![r] = "dropped"]
  /\ UNCHANGED <<queue, worker, job, output, over, pool>>

\* the client receives from a full channel
TakeOutput(r) ==
  /\ request[r] \in {"held", "ended"} /\ output[r] = "full"
  /\ output' = [output EXCEPT ![r] = "eased"]
  /\ UNCHANGED <<queue, request, worker, job, over, pool>>

\* the routers and servers that share the pool are gone
DropPool ==
  /\ pool = "open" /\ \A r \in Requests : request[r] # "acquiring"
  /\ pool' = "dropped"
  /\ UNCHANGED <<queue, request, worker, job, output, over>>

----------------------------------------------------------------------------
(* Workers.                                                                *)

Lock(w) ==
  /\ worker[w] = "lock" /\ \A v \in Workers : worker[v] # "recv"
  /\ worker' = [worker EXCEPT ![w] = "recv"]
  /\ UNCHANGED <<queue, request, job, output, over, pool>>

\* rx.recv() gives a job and the guard goes out of scope
TakeJob(w) ==
  /\ worker[w] = "recv" /\ queue # <<>>
  /\ job' = [job EXCEPT ![w] = Head(queue)]
  /\ queue' = Tail(queue)
  /\ worker' = [worker EXCEPT ![w] = "run"]
  /\ UNCHANGED <<request, output, over, pool>>

\* rx.recv() fails: nothing queued and no sender left
Exit(w) ==
  /\ worker[w] = "recv" /\ queue = <<>> /\ pool = "dropped"
  /\ worker' = [worker EXCEPT ![w] = "gone"]
  /\ UNCHANGED <<queue, request, job, output, over, pool>>

InputOver(r) == request[r] \in {"ended", "dropped"}

\* output_tx.send blocks: more results than the channel holds while the client takes
\* none.  Bound: at most once a job, and what is eased later is not told apart.
FillOutput(w) ==
  /\ worker[w] = "run" /\ job[w] \in Long
  /\ request[job[w]] \in {"held", "ended"} /\ output[job[w]] = "open"
  /\ output' = [output EXCEPT ![job[w]] = "full"]
  /\ UNCHANGED <<queue, request, worker, job, over, pool>>

\* let _ = pipeline.send(Bytes::new()) has failed, and the results there were are out:
\* the final drain waits in pipeline.recv for a pipeline that waits for more input
LoseEof(w) ==
  /\ worker[w] = "run" /\ job[w] \in Long
  /\ InputOver(job[w]) /\ output[job[w]] \in {"open", "eased"}
  /\ output' = [output EXCEPT ![job[w]] = "silent"]
  /\ UNCHANGED <<queue, request, worker, job, over, pool>>

\* The worker drops the job and its ends of the channels.
Leaves(w, next) ==
  /\ over' = over \cup {job[w]}
  /\ job' = [job EXCEPT ![w] = NoJob]
  /\ worker' = [worker EXCEPT ![w] = next]
  /\ output' = [output EXCEPT ![job[w]] = "open"]
  /\ UNCHANGED <<request, pool>>

\* process_job is through with its job.  The metrics it logs last divide by
\* bits / 8: if a job in Fatal has produced audio the thread panics.  With
\* the last thread goes the receiver, and every job still queued.
EndJob(w) ==
  /\ worker[w] = "run" /\ InputOver(job[w]) /\ output[job[w]] \in {"open", "eased"}
  /\ \E next \in {"lock"} \cup (IF job[w] \in Fatal THEN {"gone"} ELSE {}) : Leaves(w, next)
  /\ queue' = IF \A v \in Workers : worker'[v] = "gone" THEN <<>> ELSE queue

\* output_tx.send fails, as the handle is gone: process_job returns at once
Abort(w) ==
  /\ worker[w] = "run" /\ request[job[w]] = "dropped" /\ output[job[w]] = "full"
  /\ Leaves(w, "lock")
  /\ UNCHANGED queue

WorkerStep(w) == Lock(w) \/ TakeJob(w) \/ Exit(w) \/ EndJob(w) \/ Abort(w)

\* What no worker can help: more output than there is room, a pipeline that is behind.
Hinders(w) == FillOutput(w) \/ LoseEof(w)

PoolNext ==
  \/ \E r \in Requests :
       Ask(r) \/ Enqueue(r) \/ Refuse(r) \/ EndInput(r) \/ Release(r) \/ TakeOutput(r)
  \/ DropPool
  \/ \E w \in Workers : WorkerStep(w) \/ Hinders(w)

PoolSpec == PoolInit /\ [][PoolNext]_poolVars

----------------------------------------------------------------------------
(* Properties.                                                             *)

PoolTypeOK ==
  /\ queue \in Seq(Requests) /\ Len(queue) <= Size
  /\ request \in [Requests -> {"idle", "acquiring", "held", "ended", "dropped", "refused"}]
  /\ worker \in [Workers -> {"lock", "recv", "run", "gone"}]
  /\ job \in [Workers -> Requests \cup {NoJob}]
  /\ output \in [Requests -> {"open", "full", "eased", "silent"}]
  /\ over \subseteq Requests /\ pool \in {"open", "dropped"}

Running == {job[w] : w \in {v \in Workers : worker[v] = "run"}}

AllGone == \A w \in Workers : worker[w] = "gone"

\* The pool is the service of JobService: no accepted job is run twice or overtaken
\* between the channel, the mutex and the workers (pool.rs:37-56), and none is lost
\* but with the last worker.
Service == INSTANCE JobService WITH waiting <- queue, running <- Running, closed <- AllGone
ServesInOrder == Service!Spec

\* While the pool is there its workers wait for jobs, idle or not, and no job takes
\* more than one of them: each that is missing has been lost to another job in Fatal
\* (pool.rs:46-57, 163-171).
Lost == {w \in Workers : worker[w] = "gone"}
LossesAreFatal == pool = "open" => Cardinality(Lost) <= Cardinality(over \cap Fatal)

\* All workers have been lost, each to a job in Fatal.
AllLost == AllGone /\ Cardinality(over \cap Fatal) >= Size

\* The jobs accepted that no worker has started.
Unserved == {r \in Requests : request[r] \in {"held", "ended", "dropped"}} \ (Running \cup over)

\* Decoding is parallel: as long as there is a worker without a job, a queued job
\* is a step of some worker away from one, and not the end of another job, whoever
\* holds the mutex (pool.rs:46-56).
FreeWorkersTakeJobs ==
  queue # <<>> /\ (\E w \in Workers : worker[w] \in {"lock", "recv"})
    => \E w \in Workers : ENABLED (Lock(w) \/ TakeJob(w))

\* The guards of the workers' steps.
WorkersCanMove ==
  \E w \in Workers :
    \/ worker[w] = "lock" /\ \A v \in Workers : worker[v] # "recv"
    \/ worker[w] = "recv" /\ (queue # <<>> \/ pool = "dropped")
    \/ /\ worker[w] = "run"
       /\ \/ InputOver(job[w]) /\ output[job[w]] \in {"open", "eased"}
          \/ request[job[w]] = "dropped" /\ output[job[w]] = "full"

\* "Workers are pre-spawned and wait for jobs" (pool.rs:12): while the pool is
\* there, so are its workers.
WorkersStay == pool = "open" => \A w \in Workers : worker[w] # "gone"
=============================================================================
