----------------------------- MODULE JobService -----------------------------
(***************************************************************************)
(* What the decoder pool promises: a bounded line of accepted jobs, served *)
(* first come first served, each once, at most Size of them at a time.     *)
(* The service closes when nothing is left to do, or breaks down with the  *)
(* one job that is running then; a closed service does nothing any more.   *)
(***************************************************************************)
EXTENDS Naturals, Sequences, FiniteSets, Functions

CONSTANTS Requests, Size

VARIABLES waiting, running, over, closed

vars == <<waiting, running, over, closed>>

Init == waiting = <<>> /\ running = {} /\ over = {} /\ ~closed

Accept(r) ==
  /\ ~closed /\ Len(waiting) < Size
  /\ r \notin Range(waiting) \cup running \cup over
  /\ waiting' = Append(waiting, r)
  /\ UNCHANGED <<running, over, closed>>

Start ==
  /\ ~closed /\ waiting # <<>> /\ Cardinality(running) < Size
  /\ running' = running \cup {Head(waiting)}
  /\ waiting' = Tail(waiting)
  /\ UNCHANGED <<over, closed>>

End(r) ==
  /\ r \in running
  /\ running' = running \ {r} /\ over' = over \cup {r}
  /\ UNCHANGED <<waiting, closed>>

Close ==
  /\ ~closed /\ waiting = <<>> /\ running = {}
  /\ closed' = TRUE
  /\ UNCHANGED <<waiting, running, over>>

\* only the last server takes the line with it
BreakDown(r) ==
  /\ ~closed /\ running = {r}
  /\ running' = {} /\ over' = over \cup {r}
  /\ waiting' = <<>> /\ closed' = TRUE

Next == Start \/ Close \/ \E r \in Requests : Accept(r) \/ End(r) \/ BreakDown(r)

Spec == Init /\ [][Next]_vars
=============================================================================
