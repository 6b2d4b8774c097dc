-------------------------- MODULE GrpcDecode_proof --------------------------
(***************************************************************************)
(* Proofs about the task of a gRPC Decode call, for all capacities,        *)
(* numbers of segments and of tries and any set of decode errors: whatever *)
(* its drains cut off, the responses are the audio in order, and nothing   *)
(* that has been collected is lost; and the call comes to a rest nowhere   *)
(* but where it is done, waits for its client or is at a known standstill. *)
(***************************************************************************)
EXTENDS GrpcDecode, PooledDecoder_proof

----------------------------------------------------------------------------
(* The job of a segment.                                                   *)

LEMMA GrpcJobNext == [GrpcNext]_grpcVars => [JobNext]_jobVars \/ NewJob
<1> SUFFICES ASSUME [GrpcNext]_grpcVars PROVE JobNext \/ NewJob \/ UNCHANGED jobVars
  OBVIOUS
<1>1. CASE Task
  BY <1>1 DEF Task, Acquire, FeedDecoder, SendFails, CollectSome, CollectNone, SignalEof, DrainSome,
     DrainNone, DrainClosed, Release, Forward, Unwind, JobNext, Client
<1>2. CASE NextMessage \/ RequestStreamEnds \/ ShutdownSeen \/ AcquireFails \/ ClientGone \/ Shutdown
  BY <1>2 DEF NextMessage, RequestStreamEnds, ShutdownSeen, AcquireFails, ClientGone, Shutdown
<1>3. CASE BehindHandle(Backend)
  BY <1>3 DEF BehindHandle, JobNext
<1>4. CASE UNCHANGED grpcVars
  BY <1>4 DEF grpcVars
<1> QED BY <1>1, <1>2, <1>3, <1>4 DEF GrpcNext

LEMMA GrpcJobInvNext == JobInv /\ Fresh /\ [GrpcNext]_grpcVars => JobInv' /\ Fresh'
  BY GrpcJobNext, InvNext, FreshNext, NewJobInv

----------------------------------------------------------------------------
(* Sequences of results, each with its segment.                            *)

LEMMA Joined ==
  ASSUME NEW S, NEW s \in Seq(S), NEW t \in Seq(S)
  PROVE  /\ s \o t \in Seq(S) /\ Len(s \o t) = Len(s) + Len(t) /\ Len(s) \in Nat /\ Len(t) \in Nat
         /\ \A i \in 1..(Len(s) + Len(t)) : (s \o t)[i] = IF i <= Len(s) THEN s[i] ELSE t[i - Len(s)]
  OBVIOUS

LEMMA Grown ==
  ASSUME NEW S, NEW s \in Seq(S), NEW x \in S
  PROVE  /\ Append(s, x) \in Seq(S) /\ Len(Append(s, x)) = Len(s) + 1
         /\ \A i \in 1..Len(s) : Append(s, x)[i] = s[i]
         /\ Append(s, x)[Len(s) + 1] = x
  OBVIOUS

LEMMA Same ==
  ASSUME NEW S, NEW s \in Seq(S), NEW t \in Seq(S), Len(s) = Len(t),
         \A i \in 1..Len(s) : s[i] = t[i]
  PROVE  s = t
  OBVIOUS

\* A result joins the batch, and with it the whole.
LEMMA JoinGrows ==
  ASSUME NEW S, NEW s \in Seq(S), NEW t \in Seq(S), NEW x \in S
  PROVE  s \o Append(t, x) = Append(s \o t, x)
<1>1. Append(t, x) \in Seq(S) /\ s \o t \in Seq(S) /\ Append(s \o t, x) \in Seq(S)
      /\ s \o Append(t, x) \in Seq(S)
  BY Joined, Grown
<1>2. Len(s \o Append(t, x)) = Len(s) + Len(t) + 1 /\ Len(Append(s \o t, x)) = Len(s) + Len(t) + 1
      /\ Len(s) \in Nat /\ Len(t) \in Nat
  BY <1>1, Joined, Grown
<1>3. ASSUME NEW i \in 1..(Len(s) + Len(t) + 1)
      PROVE  (s \o Append(t, x))[i] = Append(s \o t, x)[i]
  <2>1. CASE i <= Len(s)
    BY <1>1, <1>2, <2>1, Joined, Grown
  <2>2. CASE Len(s) < i /\ i <= Len(s) + Len(t)
    BY <1>1, <1>2, <2>2, Joined, Grown
  <2>3. CASE i = Len(s) + Len(t) + 1
    BY <1>1, <1>2, <2>3, Joined, Grown
  <2> QED BY <1>2, <2>1, <2>2, <2>3
<1> QED BY <1>1, <1>2, <1>3, Same

\* The head of the batch moves on to the response channel.
LEMMA JoinMoves ==
  ASSUME NEW S, NEW s \in Seq(S), NEW t \in Seq(S), t # <<>>
  PROVE  /\ Append(s, Head(t)) \in Seq(S) /\ Tail(t) \in Seq(S)
         /\ Append(s, Head(t)) \o Tail(t) = s \o t
<1>1. /\ Head(t) \in S /\ Head(t) = t[1] /\ Tail(t) \in Seq(S) /\ Len(t) >= 1
      /\ Len(Tail(t)) = Len(t) - 1 /\ \A i \in 1..(Len(t) - 1) : Tail(t)[i] = t[i + 1]
  OBVIOUS
<1>2. Append(s, Head(t)) \in Seq(S) /\ Len(Append(s, Head(t))) = Len(s) + 1
  BY <1>1, Grown
<1>3. Len(Append(s, Head(t)) \o Tail(t)) = Len(s) + Len(t) /\ Len(s \o t) = Len(s) + Len(t)
      /\ Len(s) \in Nat /\ Len(t) \in Nat
  BY <1>1, <1>2, Joined
<1>4. ASSUME NEW i \in 1..(Len(s) + Len(t))
      PROVE  (Append(s, Head(t)) \o Tail(t))[i] = (s \o t)[i]
  <2>1. CASE i <= Len(s)
    BY <1>1, <1>2, <1>3, <2>1, Joined, Grown
  <2>2. CASE i = Len(s) + 1
    BY <1>1, <1>2, <1>3, <2>2, Joined, Grown
  <2>3. CASE i > Len(s) + 1
    BY <1>1, <1>2, <1>3, <2>3, Joined, Grown
  <2> QED BY <1>3, <2>1, <2>2, <2>3
<1>5. Append(s, Head(t)) \o Tail(t) \in Seq(S) /\ s \o t \in Seq(S)
  BY <1>1, <1>2, Joined
<1> QED BY <1>1, <1>2, <1>3, <1>4, <1>5, Same

LEMMA RangeGrows ==
  ASSUME NEW S, NEW s \in Seq(S), NEW x \in S
  PROVE  Range(Append(s, x)) = Range(s) \cup {x}
<1>1. /\ DOMAIN s = 1..Len(s) /\ DOMAIN Append(s, x) = 1..(Len(s) + 1) /\ Len(s) \in Nat
      /\ \A i \in 1..Len(s) : Append(s, x)[i] = s[i] /\ s[i] \in Range(s)
      /\ Append(s, x)[Len(s) + 1] = x
  BY DEF Range
<1>2. 1..(Len(s) + 1) = 1..Len(s) \cup {Len(s) + 1}
  BY <1>1
<1> QED BY <1>1, <1>2 DEF Range

----------------------------------------------------------------------------
(* The invariant.                                                          *)

\* Where the task is, what it has acquired and what is to follow agree.
TaskOK ==
  /\ gpc \in GrpcPc /\ segment \in 0..MaxSegments /\ tries \in 0..(MaxTries + 1)
  /\ after \in {"select", "acquire", "drop", "unwind"} /\ drained \in BOOLEAN /\ stop \in BOOLEAN
  /\ gpc \in {"send", "collect", "signal", "drain", "release", "forward"} => segment > 0
  /\ gpc = "drain" => tries <= MaxTries
  /\ gpc = "acquire" => after = "acquire"
  /\ after = "acquire" => segment < MaxSegments

\* All that has been collected, and ahead of it the mark ResponsesInOrder starts from.
Pairs == (0..segment) \X Nat
Mark == <<<<0, 0>>>>
All == Mark \o out \o batch

\* The last of it is the last audio that has been received.
LastIsCurrent ==
  LET p == All[Len(All)]
  IN  \/ p[1] = segment /\ p[2] <= delivered /\ (p[2] + 1)..delivered \subseteq Bad
      \/ p[1] < segment /\ 1..delivered \subseteq Bad

Collection ==
  /\ \A s \in {out, batch} : s \in Seq((1..segment) \X Nat)
  /\ ResponsesInOrder /\ LastIsCurrent /\ NothingCollectedIsLost

GrpcInv == JobInv /\ Fresh /\ TaskOK /\ Collection

LEMMA TaskInit == GrpcInit => TaskOK
<1>1. GrpcInit => drained \in BOOLEAN /\ stop \in BOOLEAN
  BY Zenon DEF GrpcInit
<1> QED BY <1>1, GrpcAssumption DEF GrpcInit, TaskOK, GrpcPc

LEMMA TaskNext == GrpcInv /\ [GrpcNext]_grpcVars => TaskOK'
<1> SUFFICES ASSUME TaskOK, [GrpcNext]_grpcVars PROVE TaskOK'
  BY DEF GrpcInv
<1> USE GrpcAssumption DEF TaskOK, GrpcPc, taskVars
<1>1. CASE NextMessage \/ RequestStreamEnds \/ ShutdownSeen \/ AcquireFails \/ ClientGone
  BY <1>1 DEF NextMessage, WithDecoder, RequestStreamEnds, ShutdownSeen, AcquireFails, ClientGone, HasDecoder
<1>2. CASE Shutdown
  <2>1. stop' \in BOOLEAN /\ drained' \in BOOLEAN
    BY <1>2, Zenon DEF Shutdown
  <2> QED BY <1>2, <2>1 DEF Shutdown
<1>3. CASE Acquire
  <2>1. drained' \in BOOLEAN
    BY <1>3, Zenon DEF Acquire
  <2> QED BY <1>3, <2>1 DEF Acquire, WithDecoder
<1>4. CASE FeedDecoder \/ CollectSome \/ CollectNone \/ SignalEof \/ DrainSome
  BY <1>4 DEF FeedDecoder, CollectSome, CollectNone, SignalEof, DrainSome
<1>5. CASE DrainNone
  <2>1. drained' \in BOOLEAN
    BY <1>5, Zenon DEF DrainNone, DrainReturns
  <2> QED BY <1>5, <2>1 DEF DrainNone, DrainReturns
<1>6. CASE DrainClosed
  <2>1. drained' \in BOOLEAN
    BY <1>6, Zenon DEF DrainClosed, DrainReturns
  <2> QED BY <1>6, <2>1 DEF DrainClosed, DrainReturns
<1>7. CASE Release \/ Forward \/ Unwind
  BY <1>7 DEF Release, Forward, Unwind
<1>8. CASE BehindHandle(Backend) \/ UNCHANGED grpcVars
  BY <1>8 DEF BehindHandle, grpcVars
<1> QED BY <1>1, <1>2, <1>3, <1>4, <1>5, <1>6, <1>7, <1>8 DEF GrpcNext, Task

\* What a step does to the collection.
Quiet == UNCHANGED <<out, batch, segment, delivered>>

Takes ==
  /\ UNCHANGED <<out, segment>> /\ segment > 0 /\ delivered' = delivered + 1
  /\ batch' = IF delivered' \in Bad THEN batch ELSE Append(batch, <<segment, delivered'>>)

Moves ==
  /\ batch # <<>> /\ out' = Append(out, Head(batch)) /\ batch' = Tail(batch)
  /\ UNCHANGED <<segment, delivered>>

Turns == UNCHANGED <<out, batch>> /\ segment' = segment + 1 /\ delivered' = 0

LEMMA Steps ==
  ASSUME GrpcInv, [GrpcNext]_grpcVars
  PROVE  Quiet \/ Takes \/ Moves \/ Turns
<1>1. CASE NextMessage \/ RequestStreamEnds \/ ShutdownSeen \/ AcquireFails \/ ClientGone \/ Shutdown
  BY <1>1 DEF NextMessage, RequestStreamEnds, ShutdownSeen, AcquireFails, ClientGone, Shutdown,
     Quiet, jobVars, clientVars
<1>2. CASE Acquire
  BY <1>2 DEF Acquire, NewJob, Turns
<1>3. CASE FeedDecoder \/ CollectNone \/ SignalEof \/ DrainNone \/ DrainClosed \/ Release \/ Unwind
  BY <1>3 DEF FeedDecoder, SendChunk, SendFails, CollectNone, SignalEof, SendEof, DrainNone, DrainClosed,
     Release, Unwind, DropBegin, DropEnd, Quiet, jobVars, clientVars
<1>4. CASE CollectSome \/ DrainSome
  <2>1. Recv /\ UNCHANGED <<out, segment>> /\ batch' = Collected /\ segment > 0
    BY <1>4 DEF CollectSome, DrainSome, GrpcInv, TaskOK
  <2>2. delivered' = delivered + 1
    BY <2>1, Received DEF GrpcInv
  <2> QED BY <2>1, <2>2 DEF Takes, Collected
<1>5. CASE Forward
  BY <1>5 DEF Forward, Moves, Quiet, jobVars, clientVars
<1>6. CASE BehindHandle(Backend)
  <2>1. delivered' = delivered
    BY <1>6, BackendSteps DEF GrpcInv, BehindHandle, clientVars
  <2> QED BY <1>6, <2>1 DEF BehindHandle, taskVars, Quiet
<1>7. CASE UNCHANGED grpcVars
  BY <1>7 DEF grpcVars, taskVars, jobVars, clientVars, Quiet
<1> QED BY <1>1, <1>2, <1>3, <1>4, <1>5, <1>6, <1>7 DEF GrpcNext, Task

\* The parts of the collection, as sequences of pairs.
LEMMA Parts ==
  ASSUME GrpcInv
  PROVE  /\ segment \in Nat /\ delivered \in Nat
         /\ out \in Seq((1..segment) \X Nat) /\ batch \in Seq((1..segment) \X Nat)
         /\ out \in Seq(Pairs) /\ batch \in Seq(Pairs) /\ Mark \o out \in Seq(Pairs)
         /\ All \in Seq(Pairs) /\ Len(All) = 1 + Len(out) + Len(batch) /\ Len(All) \in Nat \ {0}
<1>1. /\ segment \in Nat /\ delivered \in Nat
      /\ out \in Seq((1..segment) \X Nat) /\ batch \in Seq((1..segment) \X Nat)
  BY DEF GrpcInv, TaskOK, JobInv, TypeOK, Collection
<1>2. (1..segment) \X Nat \subseteq Pairs /\ <<0, 0>> \in Pairs
  BY <1>1 DEF Pairs
<1>3. out \in Seq(Pairs) /\ batch \in Seq(Pairs) /\ Mark \in Seq(Pairs) /\ Len(Mark) = 1
  BY <1>1, <1>2 DEF Mark
<1>4. Mark \o out \in Seq(Pairs) /\ Len(Mark \o out) = 1 + Len(out) /\ Len(out) \in Nat
  <2>1. /\ Mark \o out \in Seq(Pairs) /\ Len(Mark \o out) = Len(Mark) + Len(out)
        /\ Len(out) \in Nat
    <3>1. \A s, t \in Seq(Pairs) : /\ s \o t \in Seq(Pairs) /\ Len(s \o t) = Len(s) + Len(t)
                                   /\ Len(t) \in Nat
      BY Joined
    <3> QED BY <1>3, <3>1, Zenon
  <2> QED BY <1>3, <2>1
<1>5. All \in Seq(Pairs) /\ Len(All) = 1 + Len(out) + Len(batch) /\ Len(batch) \in Nat
  <2>1. /\ (Mark \o out) \o batch \in Seq(Pairs) /\ Len(batch) \in Nat
        /\ Len((Mark \o out) \o batch) = Len(Mark \o out) + Len(batch)
    BY <1>3, <1>4, Joined
  <2> QED BY <1>4, <2>1 DEF All
<1> QED BY <1>1, <1>3, <1>4, <1>5

InOrder(a) == \A k \in 2..Len(a) : Follows(a[k], a[k - 1])

LEMMA InOrderIs == (ResponsesInOrder <=> InOrder(All)) /\ (ResponsesInOrder' <=> InOrder(All'))
  BY DEF ResponsesInOrder, InOrder, All, Mark

LEMMA CollectionInit == GrpcInit => Collection
<1> SUFFICES ASSUME GrpcInit PROVE Collection
  OBVIOUS
<1>1. out = <<>> /\ batch = <<>> /\ segment = 0 /\ delivered = 0
  BY DEF GrpcInit, JobInit
<1>2. All = Mark /\ Len(All) = 1 /\ All[1] = <<0, 0>>
  BY <1>1 DEF All, Mark
<1>3. ResponsesInOrder
  BY <1>2, InOrderIs DEF InOrder
<1>4. LastIsCurrent
  BY <1>1, <1>2 DEF LastIsCurrent
<1>5. NothingCollectedIsLost
  BY <1>1 DEF NothingCollectedIsLost, Range
<1> QED BY <1>1, <1>3, <1>4, <1>5 DEF Collection

\* The whole after a step.
LEMMA AllNext ==
  ASSUME GrpcInv
  PROVE  /\ Quiet \/ Moves \/ Turns => All' = All /\ (out \o batch)' = out \o batch
         /\ Takes /\ delivered' \in Bad => All' = All /\ (out \o batch)' = out \o batch
         /\ Takes /\ delivered' \notin Bad =>
              /\ All' = Append(All, <<segment, delivered'>>)
              /\ (out \o batch)' = Append(out \o batch, <<segment, delivered'>>)
<1>1. (Quiet \/ Turns) \/ (Takes /\ delivered' \in Bad) => All' = All /\ (out \o batch)' = out \o batch
  BY DEF Quiet, Turns, Takes, All
<1>2. Moves => All' = All /\ (out \o batch)' = out \o batch
  <2> SUFFICES ASSUME Moves PROVE All' = All /\ (out \o batch)' = out \o batch
    OBVIOUS
  <2>1. out' \o batch' = out \o batch
    <3>1. out \in Seq(Pairs) /\ batch \in Seq(Pairs) /\ batch # <<>>
      BY Parts DEF Moves
    <3>2. Append(out, Head(batch)) \o Tail(batch) = out \o batch
      BY <3>1, JoinMoves
    <3> QED BY <3>2 DEF Moves
  <2>2. Mark \o Append(out, Head(batch)) = Append(Mark \o out, Head(batch))
    <3>1. Head(batch) \in Pairs
      BY Parts DEF Moves
    <3>2. Mark \in Seq(Pairs)
      BY Parts DEF Mark, Pairs
    <3>3. out \in Seq(Pairs)
      BY Parts
    <3> QED BY <3>1, <3>2, <3>3, JoinGrows
  <2>3. Append(Mark \o out, Head(batch)) \o Tail(batch) = (Mark \o out) \o batch
    <3>1. Mark \o out \in Seq(Pairs) /\ batch \in Seq(Pairs) /\ batch # <<>>
      BY Parts DEF Moves
    <3>2. \A s, t \in Seq(Pairs) : t # <<>> => Append(s, Head(t)) \o Tail(t) = s \o t
      BY JoinMoves
    <3> QED BY <3>1, <3>2, Zenon
  <2>4. All' = (Mark \o Append(out, Head(batch))) \o Tail(batch)
    BY DEF Moves, All, Mark
  <2> QED BY <2>1, <2>2, <2>3, <2>4 DEF All
<1>3. ASSUME Takes, delivered' \notin Bad
      PROVE  /\ All' = Append(All, <<segment, delivered'>>)
             /\ (out \o batch)' = Append(out \o batch, <<segment, delivered'>>)
  <2>1. <<segment, delivered'>> \in Pairs
    BY <1>3, Parts DEF Takes, Pairs
  <2>2. out' = out /\ batch' = Append(batch, <<segment, delivered'>>)
    BY <1>3 DEF Takes
  <2>3. (Mark \o out) \o Append(batch, <<segment, delivered'>>)
          = Append((Mark \o out) \o batch, <<segment, delivered'>>)
    <3>1. Mark \o out \in Seq(Pairs) /\ batch \in Seq(Pairs)
      BY Parts
    <3> QED BY <2>1, <3>1, JoinGrows
  <2>4. out \o Append(batch, <<segment, delivered'>>) = Append(out \o batch, <<segment, delivered'>>)
    <3>1. out \in Seq(Pairs) /\ batch \in Seq(Pairs)
      BY Parts
    <3> QED BY <2>1, <3>1, JoinGrows
  <2> QED BY <2>2, <2>3, <2>4 DEF All, Mark
<1> QED BY <1>1, <1>2, <1>3

LEMMA OrderNext ==
  ASSUME GrpcInv, Quiet \/ Takes \/ Moves \/ Turns
  PROVE  ResponsesInOrder' /\ LastIsCurrent'
<1>0. /\ InOrder(All) /\ LastIsCurrent /\ segment \in Nat /\ delivered \in Nat
      /\ All \in Seq(Pairs) /\ Len(All) \in Nat \ {0}
  BY Parts, InOrderIs DEF GrpcInv, Collection
<1>1. PICK p \in Pairs : p = All[Len(All)]
  BY <1>0
<1>2. p[1] \in Nat /\ p[2] \in Nat /\ p[1] <= segment
  BY <1>0 DEF Pairs
<1>3. \/ p[1] = segment /\ p[2] <= delivered /\ (p[2] + 1)..delivered \subseteq Bad
      \/ p[1] < segment /\ 1..delivered \subseteq Bad
  BY <1>0, <1>1 DEF LastIsCurrent
<1>4. CASE All' = All
  <2>1. ResponsesInOrder'
    BY <1>0, <1>4, InOrderIs
  <2>2. \/ p[1] = segment' /\ p[2] <= delivered' /\ (p[2] + 1)..delivered' \subseteq Bad
        \/ p[1] < segment' /\ 1..delivered' \subseteq Bad
    <3>1. CASE UNCHANGED <<segment, delivered>>
      BY <1>3, <3>1
    <3>2. CASE segment' = segment + 1 /\ delivered' = 0
      BY <1>0, <1>2, <3>2
    <3>3. CASE segment' = segment /\ delivered' = delivered + 1 /\ delivered + 1 \in Bad
      <4>1. (p[2] + 1)..delivered' \subseteq ((p[2] + 1)..delivered) \cup {delivered + 1}
            /\ 1..delivered' \subseteq (1..delivered) \cup {delivered + 1}
        BY <1>0, <1>2, <3>3
      <4> QED BY <1>0, <1>2, <1>3, <3>3, <4>1
    <3>4. CASE Takes /\ delivered' \notin Bad
      <4>1. <<segment, delivered'>> \in Pairs
        BY <1>0, <3>4 DEF Pairs, Takes
      <4>2. Len(All') = Len(All) + 1
        BY <1>0, <3>4, <4>1, AllNext, Grown
      <4> QED BY <1>0, <1>4, <4>2
    <3> QED BY <3>1, <3>2, <3>3, <3>4 DEF Quiet, Takes, Moves, Turns
  <2>3. LastIsCurrent'
    BY <1>1, <1>4, <2>2 DEF LastIsCurrent
  <2> QED BY <2>1, <2>3
<1>5. CASE Takes /\ delivered' \notin Bad
  <2> DEFINE x == <<segment, delivered'>>
  <2>1. segment' = segment /\ delivered' = delivered + 1 /\ x \in Pairs /\ x[1] = segment /\ x[2] = delivered + 1
    BY <1>0, <1>5 DEF Takes, Pairs
  <2>2. All' = Append(All, x)
    BY <1>5, AllNext
  <2> HIDE DEF x
  <2>3. /\ Len(All') = Len(All) + 1 /\ All'[Len(All) + 1] = x
        /\ \A i \in 1..Len(All) : All'[i] = All[i]
    BY <1>0, <2>1, <2>2, Grown
  <2>4. Follows(x, p)
    BY <1>0, <1>2, <1>3, <2>1 DEF Follows
  <2>5. ASSUME NEW k \in 2..Len(All') PROVE Follows(All'[k], All'[k - 1])
    <3>1. CASE k <= Len(All)
      <4>1. All'[k] = All[k] /\ All'[k - 1] = All[k - 1] /\ k \in 2..Len(All)
        BY <1>0, <2>3, <3>1
      <4> QED BY <1>0, <4>1 DEF InOrder
    <3>2. CASE k = Len(All) + 1
      <4>1. All'[k] = x /\ All'[k - 1] = p
        BY <1>0, <1>1, <2>3, <3>2
      <4> QED BY <2>4, <4>1
    <3> QED BY <1>0, <2>3, <3>1, <3>2
  <2>6. ResponsesInOrder'
    BY <2>5, InOrderIs DEF InOrder
  <2>7. All'[Len(All')] = x
    BY <2>3
  <2>8. x[1] = segment' /\ x[2] <= delivered' /\ (x[2] + 1)..delivered' \subseteq Bad
    BY <1>0, <2>1
  <2>9. LastIsCurrent'
    BY <2>7, <2>8 DEF LastIsCurrent
  <2> QED BY <2>6, <2>9
<1> QED BY <1>4, <1>5, AllNext

\* Every pair collected so far is of a segment that has begun, and what is collected of
\* the current one is what the task has received of it.
LEMMA LossNext ==
  ASSUME GrpcInv, Quiet \/ Takes \/ Moves \/ Turns
  PROVE  NothingCollectedIsLost'
<1> DEFINE Taken(n) == {i \in 1..n : i \notin Bad}
           Of(q, g) == {p[2] : p \in {r \in Range(q) : r[1] = g}}
<1>0. /\ out \o batch \in Seq((1..segment) \X Nat) /\ segment \in Nat /\ delivered \in Nat
      /\ NothingCollectedIsLost /\ Len(out \o batch) \in Nat
  <2>1. out \in Seq((1..segment) \X Nat) /\ batch \in Seq((1..segment) \X Nat)
    BY Parts
  <2>2. out \o batch \in Seq((1..segment) \X Nat)
    BY <2>1, Joined
  <2> QED BY <2>2, Parts DEF GrpcInv, Collection
<1>1. /\ NothingCollectedIsLost <=> {i \in Taken(delivered) : segment > 0} = Of(out \o batch, segment)
      /\ NothingCollectedIsLost' <=> {i \in Taken(delivered') : segment' > 0} = Of((out \o batch)', segment')
  <2>1. /\ {i \in 1..delivered : i \notin Bad /\ segment > 0} = {i \in Taken(delivered) : segment > 0}
        /\ {i \in 1..delivered' : i \notin Bad /\ segment' > 0} = {i \in Taken(delivered') : segment' > 0}
    OBVIOUS
  <2> QED BY <2>1 DEF NothingCollectedIsLost
<1>2. CASE Turns
  <2>1. (out \o batch)' = out \o batch /\ segment' = segment + 1 /\ delivered' = 0
    BY <1>2, AllNext DEF Turns
  <2>2. Taken(0) = {}
    OBVIOUS
  <2>3. ASSUME NEW r \in Range(out \o batch) PROVE r[1] # segment + 1
    <3>1. r \in (1..segment) \X Nat
      BY <1>0 DEF Range
    <3> QED BY <1>0, <3>1
  <2>4. Of(out \o batch, segment + 1) = {}
    BY <2>3
  <2> QED BY <1>1, <2>1, <2>2, <2>4
<1>3. CASE Quiet \/ Moves
  BY <1>0, <1>1, <1>3, AllNext DEF Quiet, Moves
<1>4. CASE Takes
  <2>0. segment' = segment /\ delivered' = delivered + 1 /\ segment > 0
    BY <1>4 DEF Takes
  <2>1. Taken(delivered) = Of(out \o batch, segment)
    BY <1>0, <1>1, <2>0
  <2>2. 1..(delivered + 1) = (1..delivered) \cup {delivered + 1}
    BY <1>0
  <2>3. CASE delivered' \in Bad
    <3>1. Taken(delivered + 1) = Taken(delivered)
      BY <2>0, <2>2, <2>3
    <3> QED BY <1>1, <1>4, <2>0, <2>1, <2>3, <3>1, AllNext
  <2>4. CASE delivered' \notin Bad
    <3> DEFINE x == <<segment, delivered'>>
    <3>1. Taken(delivered + 1) = Taken(delivered) \cup {delivered + 1}
      BY <2>0, <2>2, <2>4
    <3>2. (out \o batch)' = Append(out \o batch, x)
      BY <1>4, <2>4, AllNext
    <3>3. x \in (1..segment) \X Nat /\ x[1] = segment /\ x[2] = delivered + 1
      BY <1>0, <2>0
    <3> HIDE DEF x
    <3>4. Range(Append(out \o batch, x)) = Range(out \o batch) \cup {x}
      <4> DEFINE T == (1..segment) \X Nat
      <4>1. out \o batch \in Seq(T) /\ x \in T
        BY <1>0, <3>3
      <4> HIDE DEF T
      <4>2. \A q \in Seq(T) : \A y \in T : Range(Append(q, y)) = Range(q) \cup {y}
        BY RangeGrows
      <4> QED BY <4>1, <4>2, Zenon
    <3>5. Of(Append(out \o batch, x), segment) = Of(out \o batch, segment) \cup {x[2]}
      BY <3>3, <3>4
    <3> HIDE DEF Of, Taken
    <3>6. Taken(delivered') = Of((out \o batch)', segment')
      BY <2>0, <2>1, <3>1, <3>2, <3>3, <3>5
    <3>7. {i \in Taken(delivered') : segment' > 0} = Taken(delivered')
      BY <2>0
    <3> QED BY <1>1, <3>6, <3>7
  <2> QED BY <2>3, <2>4
<1> QED BY <1>2, <1>3, <1>4

LEMMA PartsNext ==
  ASSUME GrpcInv, Quiet \/ Takes \/ Moves \/ Turns
  PROVE  \A s \in {out', batch'} : s \in Seq((1..segment') \X Nat)
<1>0. /\ segment \in Nat /\ delivered \in Nat
      /\ out \in Seq((1..segment) \X Nat) /\ batch \in Seq((1..segment) \X Nat)
  BY Parts
<1>1. CASE Quiet
  BY <1>0, <1>1 DEF Quiet
<1>2. CASE Takes
  <2>1. <<segment, delivered'>> \in (1..segment) \X Nat
    BY <1>0, <1>2 DEF Takes
  <2>2. Append(batch, <<segment, delivered'>>) \in Seq((1..segment) \X Nat)
    BY <1>0, <2>1, Grown
  <2> QED BY <1>0, <1>2, <2>2 DEF Takes
<1>3. CASE Moves
  <2>1. Append(out, Head(batch)) \in Seq((1..segment) \X Nat) /\ Tail(batch) \in Seq((1..segment) \X Nat)
    BY <1>0, <1>3, JoinMoves DEF Moves
  <2> QED BY <1>3, <2>1 DEF Moves
<1>4. CASE Turns
  <2>1. (1..segment) \X Nat \subseteq (1..(segment + 1)) \X Nat
    BY <1>0
  <2>2. out \in Seq((1..(segment + 1)) \X Nat) /\ batch \in Seq((1..(segment + 1)) \X Nat)
    BY <1>0, <2>1
  <2> QED BY <1>4, <2>2 DEF Turns
<1> QED BY <1>1, <1>2, <1>3, <1>4

----------------------------------------------------------------------------
(* Theorems.                                                               *)

\* GrpcInv holds in every state.
THEOREM GrpcInvariant == GrpcSpec => []GrpcInv
<1>1. GrpcInit => GrpcInv
  BY InvInit, FreshInit, TaskInit, CollectionInit DEF GrpcInv, GrpcInit
<1>2. GrpcInv /\ [GrpcNext]_grpcVars => GrpcInv'
  <2> SUFFICES ASSUME GrpcInv, [GrpcNext]_grpcVars PROVE GrpcInv'
    OBVIOUS
  <2>1. JobInv' /\ Fresh' /\ TaskOK'
    BY GrpcJobInvNext, TaskNext DEF GrpcInv
  <2>2. Collection'
    BY Steps, PartsNext, OrderNext, LossNext DEF Collection
  <2> QED BY <2>1, <2>2 DEF GrpcInv
<1> QED BY <1>1, <1>2, PTL DEF GrpcSpec

\* Types: for all capacities, no channel of a call exceeds its bound, and the drain
\* polls no more than MaxTries + 1 times in vain.
THEOREM GrpcTypes == GrpcSpec => []GrpcTypeOK
<1>1. GrpcInv => GrpcTypeOK
  <2> SUFFICES ASSUME GrpcInv PROVE GrpcTypeOK
    OBVIOUS
  <2>1. MaxSegments \in Nat /\ segment \in 0..MaxSegments
    BY GrpcAssumption DEF GrpcInv, TaskOK
  <2>2. (1..segment) \X Nat \subseteq (1..MaxSegments) \X Nat
    BY <2>1
  <2>3. \A s \in {batch, out} : s \in Seq((1..MaxSegments) \X Nat)
    BY <2>2, Parts
  <2> QED BY <2>3 DEF GrpcTypeOK, GrpcInv, JobInv, TaskOK
<1> QED BY <1>1, GrpcInvariant, PTL

\* Whatever its drains cut off, for all capacities, segments and decoders, the responses
\* are audio in order: segments never mix, and within one nothing is repeated, reordered
\* or left out (grpc.rs:108-121, 176-201).
THEOREM GrpcResponses == GrpcSpec => []ResponsesInOrder
<1>1. GrpcInv => ResponsesInOrder
  BY DEF GrpcInv, Collection
<1> QED BY <1>1, GrpcInvariant, PTL

\* All audio taken from a decoder is in the batch or on its way to the client, when the
\* decoder is released and when the segment turns too (grpc.rs:108-121).
THEOREM GrpcLosesNothing == GrpcSpec => []NothingCollectedIsLost
<1>1. GrpcInv => NothingCollectedIsLost
  BY DEF GrpcInv, Collection
<1> QED BY <1>1, GrpcInvariant, PTL
----------------------------------------------------------------------------
(* Where a call may stand still, and how soon.                             *)

\* The decoder is there, and its input open, wherever the task relies on it.
CallOK ==
  /\ handle = "closing" => gpc \in {"release", "unwind"} /\ segment > 0
  /\ gpc \in {"send", "collect", "signal", "drain"} => handle = "live"
  /\ gpc \in {"send", "collect"} => after = "select"
  /\ gpc \in {"signal", "drain"} => after \in {"acquire", "unwind"}
  /\ gpc \in {"select", "send", "collect", "signal"} /\ handle = "live" => ~eofSent
  /\ gpc = "release" => handle # "dropped" /\ after \in {"drop", "acquire"}
  /\ gpc = "forward" => (after = "acquire" <=> handle = "dropped")
  /\ gpc = "forward" /\ after \in {"select", "drop"} => ~eofSent
  /\ gpc \in {"acquire", "done"} => segment = 0 \/ handle = "dropped"

LEMMA CallInit == GrpcInit => CallOK
  BY DEF GrpcInit, JobInit, CallOK

LEMMA CallNext == TaskOK /\ JobInv /\ Fresh /\ CallOK /\ [GrpcNext]_grpcVars => CallOK'
<1> SUFFICES ASSUME TaskOK, JobInv, Fresh, CallOK, [GrpcNext]_grpcVars PROVE CallOK'
  OBVIOUS
<1>0. handle \in {"live", "closing", "dropped"} /\ segment \in Nat
  BY DEF TaskOK, JobInv, TypeOK
<1>1. CASE NextMessage \/ RequestStreamEnds \/ ShutdownSeen \/ AcquireFails \/ ClientGone
  <2>1. UNCHANGED <<handle, eofSent, segment>>
    BY <1>1 DEF NextMessage, RequestStreamEnds, ShutdownSeen, AcquireFails, ClientGone, jobVars, clientVars
  <2> QED BY <1>0, <1>1, <2>1 DEF NextMessage, WithDecoder, HasDecoder, RequestStreamEnds, ShutdownSeen,
             AcquireFails, ClientGone, CallOK
<1>2. CASE Shutdown \/ UNCHANGED grpcVars
  BY <1>2 DEF Shutdown, grpcVars, taskVars, jobVars, clientVars, CallOK
<1>3. CASE Acquire
  BY <1>3 DEF Acquire, NewJob, WithDecoder, CallOK
<1>4. CASE FeedDecoder \/ SignalEof
  BY <1>4 DEF FeedDecoder, SendChunk, SendFails, SignalEof, SendEof, jobVars, clientVars, CallOK
<1>5. CASE CollectSome \/ DrainSome
  BY <1>5 DEF CollectSome, DrainSome, Recv, CallOK
<1>6. CASE CollectNone \/ DrainNone \/ DrainClosed
  BY <1>6 DEF CollectNone, DrainNone, DrainClosed, DrainReturns, jobVars, clientVars, CallOK
<1>7. CASE Release
  BY <1>7 DEF Release, DropBegin, DropEnd, TaskOK, CallOK
<1>8. CASE Forward
  <2>1. UNCHANGED <<handle, eofSent, segment, after>>
    BY <1>8 DEF Forward, jobVars, clientVars
  <2> QED BY <1>0, <1>8, <2>1 DEF Forward, TaskOK, CallOK
<1>9. CASE Unwind
  <2>1. CASE segment = 0 \/ handle = "dropped"
    <3>1. gpc' = "done" /\ UNCHANGED <<handle, segment>>
      BY <1>9, <2>1 DEF Unwind, jobVars, clientVars
    <3> QED BY <1>0, <2>1, <3>1 DEF CallOK
  <2>2. CASE ~(segment = 0 \/ handle = "dropped")
    <3>1. gpc' = "unwind" /\ segment' > 0
      BY <1>0, <1>9, <2>2 DEF Unwind
    <3> QED BY <3>1 DEF CallOK
  <2> QED BY <2>1, <2>2
<1>10. CASE BehindHandle(Backend)
  <2>1. UNCHANGED <<handle, eofSent, gpc, after, segment>>
    <3>1. JobInv /\ Backend /\ UNCHANGED <<gpc, after, segment>>
      BY <1>10 DEF BehindHandle, taskVars
    <3>2. UNCHANGED <<handle, eofSent>>
      BY <3>1, BackendSteps DEF clientVars
    <3> QED BY <3>1, <3>2
  <2> QED BY <2>1 DEF CallOK
<1> QED BY <1>1, <1>2, <1>3, <1>4, <1>5, <1>6, <1>7, <1>8, <1>9, <1>10 DEF GrpcNext, Task

LEMMA GrpcPlaces == GrpcSpec => [](CallOK /\ MotionInv)
<1>1. GrpcInit => CallOK /\ MotionInv
  BY CallInit, MotionInit DEF GrpcInit
<1>2. GrpcInv /\ CallOK /\ MotionInv /\ [GrpcNext]_grpcVars => CallOK' /\ MotionInv'
  BY CallNext, GrpcJobNext, MotionNext, NewJobMotion DEF GrpcInv
<1> QED BY <1>1, <1>2, GrpcInvariant, PTL DEF GrpcSpec

LEMMA GrpcRests ==
  ASSUME JobInv, MotionInv, TaskOK, CallOK
  PROVE  CallRestsWhenDone
<1> SUFFICES ASSUME ~CallCanMove
             PROVE  \/ gpc \in {"select", "done"} /\ (segment = 0 \/ Over)
                    \/ gpc = "select" /\ wpc = "push" /\ Len(output) = OutCap
                    \/ Stuck \/ EofLost
                    \/ FeedBlocked /\ Burst > PipeOutCap
  BY DEF CallRestsWhenDone
<1>0. handle \in {"live", "closing", "dropped"} /\ segment \in Nat
  BY DEF TaskOK, JobInv, TypeOK
<1>1. /\ gpc \in {"select", "send", "signal", "release", "unwind", "done"}
      /\ segment = 0 => gpc \in {"select", "done"}
      /\ segment # 0 => ~BackendCanMove
  BY <1>0 DEF TaskOK, GrpcPc, CallCanMove
<1>2. CASE segment = 0
  BY <1>1, <1>2
<1>3. CASE segment # 0 /\ gpc \in {"send", "signal"}
  BY <1>1, <1>3, BlockedSend DEF CallCanMove, CallOK, Stuck
<1>4. CASE segment # 0 /\ gpc = "select" /\ handle = "live"
  BY <1>1, <1>4, RestsAmidInput DEF CallOK
<1>5. CASE segment # 0 /\ gpc \in {"select", "release", "unwind", "done"}
           /\ ~(gpc = "select" /\ handle = "live")
  <2>1. gpc \in {"release", "unwind"} => handle = "closing" /\ ~Over
    BY <1>5 DEF CallCanMove
  <2>2. handle # "live" /\ ~CanMove
    BY <1>0, <1>1, <1>5, <2>1 DEF CallOK, CallCanMove, CanMove
  <2>3. CASE Over
    BY <1>5, <2>1, <2>3
  <2>4. CASE ~Over
    <3>1. EofLost \/ (handle = "closing" /\ Wedged) \/ FeedBlocked
      BY <2>2, <2>4, RestIsKnown
    <3>2. handle = "closing" => gpc \in {"release", "unwind"}
      BY DEF CallOK
    <3> QED BY <3>1, <3>2, FeedBlockedBursts DEF Stuck
  <2> QED BY <2>3, <2>4
<1> QED BY <1>1, <1>2, <1>3, <1>4, <1>5

\* For all capacities, bursts, tries and segments, a call in which nothing can go on is
\* done, waits for a message, or has its job at a known standstill (grpc.rs:45-73, 98-228).
THEOREM GrpcRestsWhenDone == GrpcSpec => []CallRestsWhenDone
<1>1. GrpcInv /\ CallOK /\ MotionInv => CallRestsWhenDone
  BY GrpcRests DEF GrpcInv
<1> QED BY <1>1, GrpcInvariant, GrpcPlaces, PTL

\* A step of the job pays for the tries and the result that come with it.
LEMMA OneStepPays ==
  ASSUME NEW m \in Nat, NEW a \in Nat, NEW b \in Nat, a < b
  PROVE  m * a \in Nat /\ m * b \in Nat /\ m * a + m <= m * b
<1>1. PICK d \in Nat : b = a + 1 + d
  <2>1. b - a - 1 \in Nat /\ b = a + 1 + (b - a - 1)
    OBVIOUS
  <2> QED BY <2>1
<1>2. m * b = m * a + m + m * d
  BY <1>1
<1>3. m * a \in Nat /\ m * d \in Nat
  OBVIOUS
<1> QED BY <1>2, <1>3

LEMMA CallEffortNext ==
  ASSUME GrpcInv, CallOK, [GrpcNext]_grpcVars, grpcVars' # grpcVars, InputEnded, segment' = segment
  PROVE  CallEffort' < CallEffort
<1>0. JobInv /\ JobInv' /\ TaskOK /\ TaskOK' /\ segment \in Nat /\ MaxTries \in Nat
  BY GrpcJobInvNext, TaskNext, GrpcAssumption DEF GrpcInv, TaskOK
<1>1. Effort \in Nat /\ Effort' \in Nat
  BY <1>0, EffortTypes
<1>2. PICK m \in Nat : m = MaxTries + 3
  BY <1>0
<1>3. m * Effort \in Nat /\ m * Effort' \in Nat /\ (Effort' < Effort => m * Effort' + m <= m * Effort)
  <2>1. PICK a \in Nat, b \in Nat : a = Effort' /\ b = Effort
    BY <1>1
  <2>2. m * a \in Nat /\ m * b \in Nat
    OBVIOUS
  <2>3. a < b => m * a + m <= m * b
    BY OneStepPays
  <2> QED BY <2>1, <2>2, <2>3
<1>4. PICK x \in Nat, y \in Nat :
        x = m * Effort /\ y = m * Effort' /\ (Effort' < Effort => y + m <= x) /\ (Effort' = Effort => y = x)
  BY <1>3
<1>5. /\ PlaceEffort(gpc) \in 0..6 /\ PlaceEffort(gpc') \in 0..6
      /\ tries \in 0..(MaxTries + 1) /\ tries' \in 0..(MaxTries + 1)
  BY <1>0 DEF PlaceEffort, TaskOK
<1>6. Len(batch) \in Nat /\ Len(batch') \in Nat
  <2>1. batch \in Seq((1..segment) \X Nat) /\ batch' \in Seq((1..segment') \X Nat)
    BY Parts, Steps, PartsNext
  <2> QED BY <2>1
<1>7. PICK s \in {0, 1}, t \in {0, 1} :
        s = (IF stop THEN 0 ELSE 1) /\ t = (IF stop' THEN 0 ELSE 1)
  OBVIOUS
<1>8. PICK p \in 0..6, q \in 0..6, u \in 0..(MaxTries + 1), v \in 0..(MaxTries + 1), k \in Nat, l \in Nat :
        /\ p = PlaceEffort(gpc) /\ q = PlaceEffort(gpc') /\ u = tries /\ v = tries'
        /\ k = Len(batch) /\ l = Len(batch')
  BY <1>5, <1>6
<1>e. CallEffort = x + (MaxTries + 1 - u) + k + p + s /\ CallEffort' = y + (MaxTries + 1 - v) + l + q + t
  BY <1>2, <1>4, <1>7, <1>8 DEF CallEffort
<1>9. gpc \notin {"send", "collect", "signal"} /\ ~(gpc = "select" /\ handle = "live")
  BY DEF CallOK, InputEnded
<1>10. UNCHANGED jobVars => y = x
  BY <1>4 DEF jobVars, clientVars, workerVars, pipeVars, Effort
<1>11. JobNext => y + m <= x
  BY <1>0, <1>4, EffortNext
<1>12. CASE \/ NextMessage \/ RequestStreamEnds \/ ShutdownSeen \/ AcquireFails \/ ClientGone \/ DrainClosed
            \/ Forward /\ batch = <<>>
            \/ Unwind /\ gpc' = "done"
  <2>1. UNCHANGED <<jobVars, tries, batch, stop>>
    BY <1>12 DEF NextMessage, RequestStreamEnds, ShutdownSeen, AcquireFails, ClientGone, DrainClosed,
       Forward, Unwind
  <2>2. PlaceEffort(gpc') < PlaceEffort(gpc)
    <3>1. CASE NextMessage \/ RequestStreamEnds \/ ShutdownSeen
      BY <1>9, <3>1 DEF NextMessage, HasDecoder, RequestStreamEnds, ShutdownSeen, PlaceEffort
    <3>2. CASE AcquireFails \/ ClientGone \/ DrainClosed
      BY <3>2 DEF AcquireFails, ClientGone, DrainClosed, DrainReturns, PlaceEffort
    <3>3. CASE Forward /\ batch = <<>>
      <4>1. gpc = "forward" /\ after \in {"acquire", "unwind"} /\ gpc' = after
        BY <1>0, <3>3 DEF Forward, TaskOK, CallOK, InputEnded
      <4> QED BY <4>1 DEF PlaceEffort
    <3>4. CASE Unwind /\ gpc' = "done"
      BY <3>4 DEF Unwind, PlaceEffort
    <3> QED BY <1>12, <3>1, <3>2, <3>3, <3>4
  <2>3. y = x /\ s = t /\ v = u /\ l = k /\ q < p
    BY <1>7, <1>8, <1>10, <2>1, <2>2
  <2> QED BY <1>0, <1>e, <2>3
<1>13. CASE Shutdown
  <2>1. UNCHANGED <<jobVars, tries, batch, gpc>> /\ s = 1 /\ t = 0
    BY <1>7, <1>13 DEF Shutdown
  <2>3. y = x /\ v = u /\ l = k /\ q = p
    BY <1>8, <1>10, <2>1
  <2> QED BY <1>0, <1>e, <2>1, <2>3
<1>14. CASE Forward /\ batch # <<>>
  <2>1. UNCHANGED <<jobVars, tries, gpc, stop>> /\ batch' = Tail(batch)
    BY <1>14 DEF Forward
  <2>2. Len(batch') < Len(batch)
    <3>1. batch \in Seq((1..segment) \X Nat)
      BY Parts
    <3> QED BY <1>14, <2>1, <3>1
  <2>3. y = x /\ s = t /\ v = u /\ l < k /\ q = p
    BY <1>7, <1>8, <1>10, <2>1, <2>2
  <2> QED BY <1>0, <1>e, <2>3
<1>15. CASE DrainNone
  <2>1. UNCHANGED <<jobVars, batch, stop>> /\ tries' = tries + 1
    BY <1>15 DEF DrainNone
  <2>2. PlaceEffort(gpc') <= PlaceEffort(gpc)
    BY <1>15 DEF DrainNone, DrainReturns, PlaceEffort
  <2>3. y = x /\ s = t /\ v = u + 1 /\ l = k /\ q <= p
    BY <1>7, <1>8, <1>10, <2>1, <2>2
  <2> QED BY <1>0, <1>e, <2>3
<1>16. CASE DrainSome
  <2>1. JobNext /\ gpc' = gpc /\ stop' = stop /\ batch' = Collected
    BY <1>16 DEF DrainSome, JobNext, Client
  <2>2. Len(batch') <= Len(batch) + 1
    <3>1. batch \in Seq((1..segment) \X Nat)
      BY Parts
    <3> QED BY <2>1, <3>1 DEF Collected
  <2>3. y + m <= x /\ s = t /\ l <= k + 1 /\ q = p
    BY <1>7, <1>8, <1>11, <2>1, <2>2
  <2> QED BY <1>0, <1>e, <1>2, <2>3
<1>17. CASE Release \/ (Unwind /\ gpc' # "done") \/ BehindHandle(Backend)
  <2>1. JobNext /\ UNCHANGED <<tries, batch, stop>>
    BY <1>17 DEF Release, Unwind, BehindHandle, taskVars, JobNext, Client
  <2>2. PlaceEffort(gpc') <= PlaceEffort(gpc)
    BY <1>17 DEF Release, Unwind, BehindHandle, taskVars, PlaceEffort
  <2>3. y + m <= x /\ s = t /\ v = u /\ l = k /\ q <= p
    BY <1>7, <1>8, <1>11, <2>1, <2>2
  <2> QED BY <1>0, <1>e, <1>2, <2>3
<1>18. ~(Acquire \/ FeedDecoder \/ CollectSome \/ CollectNone \/ SignalEof)
  BY <1>0, <1>9 DEF Acquire, FeedDecoder, CollectSome, CollectNone, SignalEof
<1> QED BY <1>12, <1>13, <1>14, <1>15, <1>16, <1>17, <1>18 DEF GrpcNext, Task

\* For all capacities, bursts, tries and segments, a segment whose input has ended takes
\* at most CallEffort steps more: the drain and the forwarding come to an end by
\* themselves (grpc.rs:45-73, 108-121, 220-228).
THEOREM GrpcEffortFalls == GrpcSpec => CallEffortFalls
<1>1. GrpcInv /\ CallOK /\ [GrpcNext]_grpcVars =>
        [InputEnded /\ segment' = segment => CallEffort' < CallEffort]_grpcVars
  BY CallEffortNext
<1> QED BY <1>1, GrpcInvariant, GrpcPlaces, PTL DEF GrpcSpec, CallEffortFalls
=============================================================================
