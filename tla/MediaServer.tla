----------------------------- MODULE MediaServer ----------------------------
(***************************************************************************)
(* The process around a decoder pool (src/src/main.rs): the handlers of a  *)
(* server are tasks of one asynchronous runtime, whose few threads they    *)
(* hold while they wait inside the pool (acquire, send, recv and Drop      *)
(* block the thread, src/src/pool.rs lines 193-249), and give back where   *)
(* they await.  With the startup of the servers, the loop that accepts     *)
(* connections, Ctrl-C, and the end of main, which drops the runtime.      *)
(*                                                                         *)
(* Each server has a pool of its own and all share the threads; the module *)
(* looks at any one of the three.  A session or a segment that follows     *)
(* another on its connection is a request of its own.                      *)
(***************************************************************************)
EXTENDS DecoderPool

CONSTANT Threads \* worker threads of the runtime; tokio starts one a CPU

ASSUME ThreadAssumption == Threads \in Nat \ {0}

VARIABLES
  protocol, \* whose requests these are: "http", "tcp" or "grpc"
  task,     \* "new", "parked" (at an await), "acquire", "send", "recv" or "drop" (in the
            \* blocking call of that name) or "gone"
  phase     \* "up", "interrupted", "signalled", "closed", "stopping" or "stopped"

serverVars == <<poolVars, protocol, task, phase>>

Protocols == {"http", "tcp", "grpc"}

\* Each server starts with an open pool and no connection.
ServerInit ==
  /\ PoolInit
  /\ protocol \in Protocols
  /\ task = [r \in Requests |-> "new"]
  /\ phase = "up"

\* A blocking call keeps the thread of the task that makes it.
OnThread == {r \in Requests : task[r] \in {"acquire", "send", "recv", "drop"}}
FreeThread == Cardinality(OnThread) < Threads

Queued(r) == r \in Range(queue)

\* The handler is in send or Drop, which hold the output's receiver, while its worker
\* waits for room there: neither will ever move.
Wedged(r) == task[r] \in {"send", "drop"} /\ output[r] = "full"

\* The worker waits for the end of a pipeline that has not had its EOF.
EofLost(r) == output[r] = "silent"

\* Fault: as many polls at a time as there are tasks
PolledUnbounded(r, s) == task[r] = "parked" /\ task' = [task EXCEPT ![r] = s]

\* The task that is polled from its await goes to s, an await or a call that blocks.
Polled(r, s) == FreeThread /\ task[r] = "parked" /\ task' = [task EXCEPT ![r] = s]

\* The blocking call returns and the task goes on to s.
Returns(r, call, s) == task[r] = call /\ task' = [task EXCEPT ![r] = s]

----------------------------------------------------------------------------
(* More faults.                                                            *)

\* the handle is leaked when the handler returns
ReturnEarlyLeaks(r) ==
  /\ phase # "stopping" /\ request[r] # "acquiring"
  /\ Polled(r, "gone")
  /\ UNCHANGED <<poolVars, protocol, phase>>

\* a graceful shutdown, which waits for every connection to be closed
MainReturnsDrained ==
  /\ phase \in {"signalled", "closed"} /\ \A r \in Requests : task[r] \in {"new", "gone"}
  /\ phase' = "stopping"
  /\ UNCHANGED <<poolVars, protocol, task>>

----------------------------------------------------------------------------
(* A handler's task: what it does between two awaits, up to its call into  *)
(* the pool.                                                               *)

\* A connection is accepted and its handler spawned.
Connect(r) ==
  /\ phase \in {"up", "interrupted", "signalled"} /\ FreeThread
  /\ task[r] = "new" /\ task' = [task EXCEPT ![r] = "parked"]
  /\ UNCHANGED <<poolVars, protocol, phase>>

CallAcquire(r) ==
  /\ phase # "stopping" /\ Polled(r, "acquire") /\ Ask(r)
  /\ UNCHANGED <<protocol, phase>>

Acquired(r) == Returns(r, "acquire", "parked") /\ Enqueue(r) /\ UNCHANGED <<protocol, phase>>

\* "Decoder pool shutdown": the handler returns the error
AcquireFails(r) == Returns(r, "acquire", "gone") /\ Refuse(r) /\ UNCHANGED <<protocol, phase>>

\* The input channel is full, of a job that no worker has taken yet or whose worker
\* cannot go on.  (A send that waits for a worker at work is part of its step.)
CallSend(r) ==
  /\ phase # "stopping" /\ request[r] = "held" /\ (Queued(r) \/ output[r] = "full")
  /\ Polled(r, "send")
  /\ UNCHANGED <<poolVars, protocol, phase>>

SendReturns(r) ==
  /\ ~Queued(r) /\ ~Wedged(r) /\ Returns(r, "send", "parked")
  /\ UNCHANGED <<poolVars, protocol, phase>>

\* The try_recv loops and the flush, between their awaits
Take(r) ==
  /\ phase # "stopping" /\ Polled(r, "parked") /\ TakeOutput(r)
  /\ UNCHANGED <<protocol, phase>>

\* The handler sends the EOF and goes on to flush, TCP in recv.
SignalEof(r) ==
  /\ phase # "stopping" /\ EndInput(r)
  /\ Polled(r, IF protocol = "tcp" THEN "recv" ELSE "parked")
  /\ UNCHANGED <<protocol, phase>>

\* From the start of the job on, there are results or the end, if its EOF is not lost.
RecvReturns(r) ==
  /\ ~Queued(r) /\ ~EofLost(r) /\ Returns(r, "recv", "parked")
  /\ IF output[r] = "full" THEN TakeOutput(r) ELSE UNCHANGED poolVars
  /\ UNCHANGED <<protocol, phase>>

\* TCP has written what it received and calls recv again.  (Where the worker has an
\* answer the call is part of the step that calls.)
CallRecv(r) ==
  /\ phase # "stopping" /\ protocol = "tcp" /\ request[r] = "ended" /\ EofLost(r)
  /\ Polled(r, "recv")
  /\ UNCHANGED <<poolVars, protocol, phase>>

\* The task ends and drops its handle, if it has one.  Drop's EOF, a second one if the
\* handler has sent its own, may find the input channel full.
LetGo(r) ==
  \/ (Queued(r) \/ output[r] = "full") /\ Polled(r, "drop") /\ UNCHANGED poolVars
  \/ /\ Polled(r, "gone")
     /\ IF request[r] \in {"held", "ended"} THEN Release(r) ELSE UNCHANGED poolVars

DropReturns(r) ==
  /\ ~Queued(r) /\ ~Wedged(r) /\ Returns(r, "drop", "gone") /\ Release(r)
  /\ UNCHANGED <<protocol, phase>>

\* The flush has met the closed channel; that of gRPC gives up on a silent one, too.
Finish(r) ==
  /\ phase # "stopping" /\ request[r] = "ended"
  /\ protocol = "grpc" \/ r \notin Range(queue) \cup Running
  /\ LetGo(r)
  /\ UNCHANGED <<protocol, phase>>

\* A read or a write fails, the peer hangs up before its first frame, or the gRPC
\* token is cancelled: the handler returns early.
ReturnEarly(r) == phase # "stopping" /\ LetGo(r) /\ UNCHANGED <<protocol, phase>>

\* The runtime that is being dropped drops the task at its await.
Cancel(r) == phase = "stopping" /\ LetGo(r) /\ UNCHANGED <<protocol, phase>>

----------------------------------------------------------------------------
(* The process.                                                            *)

\* SIGINT
Interrupt ==
  /\ phase = "up" /\ phase' = "interrupted"
  /\ UNCHANGED <<poolVars, protocol, task>>

\* the task at ctrl_c().await is polled and sends to the watch channel
Signal ==
  /\ phase = "interrupted" /\ FreeThread
  /\ phase' = "signalled"
  /\ UNCHANGED <<poolVars, protocol, task>>

\* the accept loops see the change; the handlers they have spawned stay
CloseListeners ==
  /\ phase = "signalled" /\ FreeThread
  /\ phase' = "closed"
  /\ UNCHANGED <<poolVars, protocol, task>>

\* The HTTP server has stopped, and main returns without looking at the others.
MainReturns ==
  /\ phase \in {"signalled", "closed"}
  /\ phase' = "stopping"
  /\ UNCHANGED <<poolVars, protocol, task>>

\* The runtime has dropped its tasks; nothing holds the pool any more.
RuntimeDropped ==
  /\ phase = "stopping" /\ \A r \in Requests : task[r] \in {"new", "gone"}
  /\ phase' = "stopped" /\ DropPool
  /\ UNCHANGED <<protocol, task>>

WorkerRuns(w) == WorkerStep(w) /\ UNCHANGED <<protocol, task, phase>>

\* A send or a Drop that has waited for the worker to take the job is through before
\* the worker has any output.
WorkerHindered(w) ==
  /\ Hinders(w) /\ (FillOutput(w) => task[job[w]] \notin {"send", "drop"})
  /\ UNCHANGED <<protocol, task, phase>>

BlockedCallReturns(r) ==
  Acquired(r) \/ AcquireFails(r) \/ SendReturns(r) \/ RecvReturns(r) \/ DropReturns(r)

ServerNext ==
  \/ \E r \in Requests :
       \/ Connect(r) \/ CallAcquire(r) \/ CallSend(r) \/ Take(r) \/ SignalEof(r)
       \/ CallRecv(r) \/ Finish(r) \/ ReturnEarly(r) \/ Cancel(r) \/ BlockedCallReturns(r)
  \/ Interrupt \/ Signal \/ CloseListeners \/ MainReturns \/ RuntimeDropped
  \/ \E w \in Workers : WorkerRuns(w) \/ WorkerHindered(w)

ServerSpec == ServerInit /\ [][ServerNext]_serverVars

\* What is bound to happen: worker threads are scheduled, blocked calls return when they
\* can, a task that is ready is polled when there is a thread for it.  A client ends its
\* input at some time and takes the response.  Nothing forces a worker to be hindered, a
\* send or a Drop to find the input channel full, or a connection to fail.
GoesOn ==
  \/ \E w \in Workers : WorkerRuns(w)
  \/ \E r \in Requests :
       \/ BlockedCallReturns(r)
       \/ Take(r) \/ SignalEof(r) \/ CallRecv(r) \/ Finish(r) \/ Cancel(r)
  \/ Signal \/ MainReturns \/ RuntimeDropped

\* One condition for all of them is enough, as none can be put off for ever by others:
\* every behaviour has finitely many steps (ServerEffortFalls).
FairServerSpec == ServerSpec /\ WF_serverVars(GoesOn)

----------------------------------------------------------------------------
(* Properties.                                                             *)

ServerTypeOK ==
  /\ PoolTypeOK
  /\ protocol \in Protocols
  /\ task \in [Requests -> {"new", "parked", "acquire", "send", "recv", "drop", "gone"}]
  /\ phase \in {"up", "interrupted", "signalled", "closed", "stopping", "stopped"}
  /\ Cardinality(OnThread) <= Threads

\* A handler that holds its thread until a worker makes room, or takes its job.
WaitsForWorker(r) ==
  \/ task[r] = "acquire" /\ Len(queue) = Size
  \/ task[r] \in {"send", "recv", "drop"} /\ Queued(r)

Left == {w \in Workers : worker[w] # "gone"}

\* A job whose worker will never move again (pool.rs:221, 247 and pool.rs:91, 135).
Standing(r) == Wedged(r) \/ EofLost(r)

\* A handler that holds its thread for good with a job of its own that stands.
HangsInCall(r) == Wedged(r) \/ (EofLost(r) /\ task[r] = "recv")

\* A running job that goes on when its handler is polled, and not before
NeedsHandler(r) == request[r] = "held" \/ (request[r] = "ended" /\ output[r] = "full")

\* Every thread waits for a worker, or for good; and every worker, if there is a job,
\* for a handler that finds no thread to run on, or for good.
Stalled ==
  /\ Cardinality(OnThread) = Threads
  /\ \A r \in OnThread : WaitsForWorker(r) \/ HangsInCall(r)
  /\ \A w \in Left :
       IF worker[w] = "run" THEN NeedsHandler(job[w]) \/ Standing(job[w]) ELSE queue = <<>>

\* The handlers that have been given a decoder, or wait for one.
Open == {r \in Requests : request[r] # "idle" /\ task[r] # "gone"}

StandingJobs == {r \in Requests : Standing(r)}

\* It takes more open requests than workers to stall the runtime, one more for each of
\* its threads, or a send, Drop or recv on every thread that hangs with its job
\* (pool.rs:221, 232, 247).  A job that stands makes up for one request, as its worker
\* stays with it even when the handler has gone (pool.rs:91, 135).
StallNeedsLoad ==
  Stalled =>
    \/ \A r \in OnThread : HangsInCall(r)
    \/ Cardinality(Open) + Cardinality(StandingJobs) >= Cardinality(Left) + Threads

\* No worker is left but those whose jobs stand.
AllStand == Left # {} /\ \A w \in Left : worker[w] = "run" /\ Standing(job[w])

\* A handler whose job stands, or that waits for a worker where all stand
Hangs(r) == Standing(r) \/ (AllStand /\ (Queued(r) \/ request[r] = "acquiring"))

\* The workers of a dropped pool that have not left run jobs that stand.
OnlyStandingStay == \A w \in Left : worker[w] = "run" /\ Standing(job[w])

\* The guards of GoesOn.
ServerCanMove ==
  \/ WorkersCanMove
  \/ \E r \in OnThread : ~WaitsForWorker(r) /\ ~HangsInCall(r)
  \/ /\ FreeThread
     /\ \E r \in Requests :
          /\ task[r] = "parked"
          /\ \/ phase = "stopping" \/ request[r] = "held"
             \/ /\ request[r] = "ended"
                /\ \/ output[r] = "full" \/ protocol = "grpc"
                   \/ protocol = "tcp" /\ EofLost(r)
                   \/ r \notin Range(queue) \cup Running
  \/ phase = "interrupted" /\ FreeThread
  \/ phase \in {"signalled", "closed"}
  \/ phase = "stopping" /\ \A r \in Requests : task[r] \in {"new", "gone"}

\* A server at rest is Stalled, or through with its requests, its jobs and its shutdown
\* but for what hangs with a job that stands: a wedged send or Drop or a lost EOF, and
\* who waits for a worker where all are kept by those.  Handlers, workers and main wait
\* for one another in no other way (pool.rs:46-56, 193-249, main.rs:99-107, 198-204).
RestsOnlyWhenDone ==
  ~ServerCanMove =>
    \/ Stalled
    \/ /\ \A r \in Open : Hangs(r)
       /\ Unserved = {} \/ AllLost \/ AllStand
       /\ phase \in (IF Open = {} THEN {"up", "stopped"} ELSE {"up", "stopping", "stopped"})
       /\ pool = "open" \/ OnlyStandingStay

\* Requests end, also when their workers are lost one after another or the server
\* shuts down meanwhile (each comes once here): there comes a time when those still
\* open have a job that stands, or wait for a worker where all are kept by such jobs,
\* unless the runtime has stalled (pool.rs:193-249).
RequestsEnd == <>[]((\A r \in Open : Hangs(r)) \/ Stalled)

\* Accepted jobs are started, whatever becomes of their handlers and of the server,
\* unless all workers have been lost, which takes a job in Fatal for each, all that
\* are left are kept by jobs that stand, or the runtime has stalled (pool.rs:46-56).
AcceptedJobsStart == <>[](Unserved = {} \/ AllLost \/ AllStand \/ Stalled)

\* "Channel closed, shutdown" (pool.rs:52): once the pool is dropped its workers
\* finish what they have and what is queued, and leave, but those whose job's EOF is
\* lost (pool.rs:91, 135).
WorkersLeave == <>[](pool = "open" \/ OnlyStandingStay)

\* Ctrl-C stops the process, with every handle dropped on the way, unless the runtime
\* has stalled, or one of the tasks that it has to drop hangs in a call into the pool:
\* in a wedged send or Drop, in recv, or in a wait for workers that are all kept
\* (main.rs:99-107, 198-204, pool.rs:221, 232, 247).
ShutdownEnds ==
  <>[](\/ phase \in {"up", "stopped"} \/ Stalled
       \/ phase = "stopping" /\ \E r \in OnThread : Hangs(r))

\* "Blocks if all workers are busy (provides natural backpressure)" (pool.rs:192):
\* whoever is held back gets on when the work before him is done.
BackpressureClears ==
  \A r \in Requests : WaitsForWorker(r) ~> ~WaitsForWorker(r)

\* How far each task, each worker and main still have to go.
TaskRank(r) ==
  CASE task[r] = "new" -> 10
    [] task[r] = "acquire" -> 8
    [] task[r] = "send" -> IF output[r] = "full" THEN 4 ELSE 6
    [] task[r] = "recv" -> IF output[r] = "silent" THEN 1 ELSE 3
    [] task[r] = "drop" -> 1
    [] task[r] = "gone" -> 0
    [] task[r] = "parked" ->
         CASE request[r] = "held" -> IF Queued(r) THEN 7 ELSE 5
           [] request[r] = "ended" -> 2
           [] OTHER -> 9

WorkerRank(w) == CASE worker[w] = "lock" -> 2 [] worker[w] = "recv" -> 1 [] OTHER -> 0

FlowRank == [open |-> 3, full |-> 2, eased |-> 1, silent |-> 0]

PhaseRank ==
  [up |-> 5, interrupted |-> 4, signalled |-> 3, closed |-> 2, stopping |-> 1, stopped |-> 0]

Units(S, rank) == UNION {{s} \X (1..rank[s]) : s \in S}

TaskUnits == Units(Requests, [r \in Requests |-> TaskRank(r)])
WorkerUnits == Units(Workers, [w \in Workers |-> WorkerRank(w)])
FlowUnits == Units(Requests, [r \in Requests |-> FlowRank[output[r]]])

\* A job that has not been run may send its worker round the loop of pool.rs:46-56 once,
\* with new channels.
ServerEffort ==
  Cardinality(TaskUnits) + Cardinality(WorkerUnits) + Cardinality(FlowUnits)
    + 5 * Cardinality(Requests \ over) + PhaseRank[phase]

\* Nothing goes round for ever: every step of a handler, a worker, main or the runtime
\* uses up some of what is left, so that a server comes to rest under any scheduling
\* (pool.rs:46-56, 193-249, main.rs:99-107, 198-204).
ServerEffortFalls == [][ServerEffort' < ServerEffort]_serverVars
=============================================================================
