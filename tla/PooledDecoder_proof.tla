------------------------ MODULE PooledDecoder_proof -------------------------
(***************************************************************************)
(* Proofs about one decode job, for every capacity, burst and number of    *)
(* chunks: the types, and the safety properties of PooledDecoder.          *)
(***************************************************************************)
EXTENDS PooledDecoder, FiniteSetTheorems, TLAPS

----------------------------------------------------------------------------
(* A line s \o h \o t: a buffer, a hand, a buffer.                         *)

\* The elements of a line.
LEMMA LineElements ==
  ASSUME NEW s \in Seq(Nat), NEW h \in Seq(Nat), NEW t \in Seq(Nat)
  PROVE  /\ s \o h \o t \in Seq(Nat)
         /\ Len(s \o h \o t) = Len(s) + Len(h) + Len(t)
         /\ \A i \in 1..(Len(s) + Len(h) + Len(t)) :
              (s \o h \o t)[i] = IF i <= Len(s) THEN s[i]
                                 ELSE IF i <= Len(s) + Len(h) THEN h[i - Len(s)]
                                 ELSE t[i - Len(s) - Len(h)]
  OBVIOUS

\* Two sequences with the same elements are equal.
LEMMA SameElements ==
  ASSUME NEW s \in Seq(Nat), NEW t \in Seq(Nat), Len(s) = Len(t),
         \A i \in 1..Len(s) : s[i] = t[i]
  PROVE  s = t
  OBVIOUS

\* The head of the back buffer goes into the hand.
LEMMA LinePick ==
  ASSUME NEW s \in Seq(Nat), NEW t \in Seq(Nat), t # <<>>
  PROVE  s \o <<Head(t)>> \o Tail(t) = s \o <<>> \o t
<1>1. <<Head(t)>> \in Seq(Nat) /\ Tail(t) \in Seq(Nat) /\ <<>> \in Seq(Nat)
  OBVIOUS
<1>2. Len(s \o <<Head(t)>> \o Tail(t)) = Len(s \o <<>> \o t)
  BY <1>1, LineElements
<1>3. ASSUME NEW i \in 1..Len(s \o <<>> \o t)
      PROVE  (s \o <<Head(t)>> \o Tail(t))[i] = (s \o <<>> \o t)[i]
  <2>1. CASE i <= Len(s)
    BY <2>1, <1>1, LineElements
  <2>2. CASE i = Len(s) + 1
    BY <2>2, <1>1, LineElements
  <2>3. CASE i > Len(s) + 1
    BY <2>3, <1>1, LineElements
  <2> QED BY <2>1, <2>2, <2>3, <1>1, LineElements
<1> QED BY <1>1, <1>2, <1>3, SameElements, LineElements

\* What is in the hand goes to the end of the front buffer.
LEMMA LinePut ==
  ASSUME NEW s \in Seq(Nat), NEW t \in Seq(Nat), NEW x \in Nat
  PROVE  Append(s, x) \o <<>> \o t = s \o <<x>> \o t
<1>1. <<x>> \in Seq(Nat) /\ Append(s, x) \in Seq(Nat) /\ <<>> \in Seq(Nat)
  OBVIOUS
<1>2. Len(Append(s, x) \o <<>> \o t) = Len(s \o <<x>> \o t)
  BY <1>1, LineElements
<1>3. ASSUME NEW i \in 1..Len(s \o <<x>> \o t)
      PROVE  (Append(s, x) \o <<>> \o t)[i] = (s \o <<x>> \o t)[i]
  <2>1. CASE i <= Len(s)
    BY <2>1, <1>1, LineElements
  <2>2. CASE i = Len(s) + 1
    BY <2>2, <1>1, LineElements
  <2>3. CASE i > Len(s) + 1
    BY <2>3, <1>1, LineElements
  <2> QED BY <2>1, <2>2, <2>3, <1>1, LineElements
<1> QED BY <1>1, <1>2, <1>3, SameElements, LineElements

\* The back buffer grows, and the line with it.
LEMMA LineGrows ==
  ASSUME NEW s \in Seq(Nat), NEW h \in Seq(Nat), NEW t \in Seq(Nat), NEW x \in Nat
  PROVE  s \o h \o Append(t, x) = Append(s \o h \o t, x)
<1>1. Append(t, x) \in Seq(Nat) /\ Append(s \o h \o t, x) \in Seq(Nat)
  BY LineElements
<1>2. Len(s \o h \o Append(t, x)) = Len(Append(s \o h \o t, x))
  BY <1>1, LineElements
<1>3. ASSUME NEW i \in 1..Len(s \o h \o Append(t, x))
      PROVE  (s \o h \o Append(t, x))[i] = Append(s \o h \o t, x)[i]
  <2>1. CASE i <= Len(s)
    BY <2>1, <1>1, LineElements
  <2>2. CASE Len(s) < i /\ i <= Len(s) + Len(h)
    BY <2>2, <1>1, LineElements
  <2>3. CASE Len(s) + Len(h) < i /\ i <= Len(s) + Len(h) + Len(t)
    BY <2>3, <1>1, LineElements
  <2>4. CASE i = Len(s) + Len(h) + Len(t) + 1
    BY <2>4, <1>1, LineElements
  <2> QED BY <2>1, <2>2, <2>3, <2>4, <1>1, LineElements
<1> QED BY <1>1, <1>2, <1>3, SameElements, LineElements

\* The front buffer gives its head, which is the line's.
LEMMA LinePop ==
  ASSUME NEW s \in Seq(Nat), NEW h \in Seq(Nat), NEW t \in Seq(Nat), s # <<>>
  PROVE  /\ s \o h \o t # <<>> /\ Head(s \o h \o t) = Head(s)
         /\ Tail(s) \o h \o t = Tail(s \o h \o t)
<1>1. Tail(s) \in Seq(Nat) /\ Len(s) > 0 /\ Len(Tail(s)) = Len(s) - 1
  OBVIOUS
<1>2. s \o h \o t # <<>> /\ Head(s \o h \o t) = Head(s)
  BY <1>1, LineElements
<1>3. Tail(s \o h \o t) \in Seq(Nat) /\ Len(Tail(s) \o h \o t) = Len(Tail(s \o h \o t))
  BY <1>1, <1>2, LineElements
<1>4. ASSUME NEW i \in 1..Len(Tail(s) \o h \o t)
      PROVE  (Tail(s) \o h \o t)[i] = Tail(s \o h \o t)[i]
  <2>1. Tail(s \o h \o t)[i] = (s \o h \o t)[i + 1]
    BY <1>1, <1>2, <1>3, LineElements
  <2>2. CASE i < Len(s)
    BY <2>1, <2>2, <1>1, LineElements
  <2>3. CASE Len(s) <= i /\ i < Len(s) + Len(h)
    BY <2>1, <2>3, <1>1, LineElements
  <2>4. CASE Len(s) + Len(h) <= i
    BY <2>1, <2>4, <1>1, LineElements
  <2> QED BY <2>2, <2>3, <2>4, <1>1
<1> QED BY <1>1, <1>2, <1>3, <1>4, SameElements, LineElements

----------------------------------------------------------------------------
(* Types.                                                                  *)

USE CapacityAssumption DEF CapacityAssumption

\* Appending to a buffer.
LEMMA AppendType ==
  ASSUME NEW s \in Seq(Nat), NEW x \in Nat
  PROVE  Append(s, x) \in Seq(Nat) /\ Len(Append(s, x)) = Len(s) + 1
  OBVIOUS

\* EOF is one of the numbers a line may hold.
LEMMA EofNat == EOF \in Nat
  BY DEF EOF

\* A buffer within its bounds stays so when it grows by EOF while there is room, or
\* loses its head.
LEMMA BufferBounds ==
  ASSUME NEW s \in Seq(Nat), NEW cap \in Nat, NEW t, Len(s) <= cap,
         \/ t = s
         \/ Len(s) < cap /\ t = Append(s, EOF)
         \/ s # <<>> /\ t = Tail(s)
  PROVE  t \in Seq(Nat) /\ Len(t) <= cap
<1>1. CASE t = s
  BY <1>1
<1>2. CASE Len(s) < cap /\ t = Append(s, EOF)
  BY <1>2, AppendType, EofNat
<1>3. CASE s # <<>> /\ t = Tail(s)
  BY <1>3
<1> QED BY <1>1, <1>2, <1>3

\* The parts of TypeOK that say so of the two buffers that EOF passes.
LEMMA InputBounds ==
  TypeOK => input \in Seq(Nat) /\ Len(input) <= InCap /\ pin \in Seq(Nat) /\ Len(pin) <= PipeCap
  BY DEF TypeOK

\* The back buffer grows by EOF, and the line with it.
LEMMA LineGrowsByEof ==
  ASSUME NEW s \in Seq(Nat), NEW h \in Seq(Nat), NEW t \in Seq(Nat)
  PROVE  s \o h \o Append(t, EOF) = Append(s \o h \o t, EOF)
  BY LineGrows, EofNat, SMTT(90)

\* The last element survives as long as another is ahead of it.
LEMMA TailLast ==
  ASSUME NEW s \in Seq(Nat), Len(s) > 1
  PROVE  Tail(s) # <<>> /\ Tail(s)[Len(Tail(s))] = s[Len(s)]
<1>1. Len(Tail(s)) = Len(s) - 1 /\ \A i \in 1..(Len(s) - 1) : Tail(s)[i] = s[i + 1]
  OBVIOUS
<1>2. Len(s) - 1 \in 1..(Len(s) - 1) /\ (Len(s) - 1) + 1 = Len(s)
  OBVIOUS
<1> QED BY <1>1, <1>2

\* A new job is well typed.
LEMMA TypeInit == JobInit => TypeOK
<1>1. JobInit => eofSent \in BOOLEAN /\ inputDone \in BOOLEAN
  BY Zenon DEF JobInit
<1> QED BY <1>1 DEF JobInit, TypeOK, WorkerPc

\* Every step of the client, the worker and the pipeline keeps the types and the
\* bounds of the channels.
LEMMA TypeNext == TypeOK /\ [JobNext]_jobVars => TypeOK'
<1> SUFFICES ASSUME TypeOK, [JobNext]_jobVars PROVE TypeOK'
  OBVIOUS
<1>0. input \in Seq(Nat) /\ Len(input) <= InCap /\ pin \in Seq(Nat) /\ Len(pin) <= PipeCap
      /\ InCap \in Nat /\ PipeCap \in Nat
  BY InputBounds
<1> USE DEF WorkerPc, clientVars, workerVars, pipeVars, Room
<1>1. CASE SendChunk BY <1>1 DEF TypeOK, SendChunk
<1>2. CASE SendEof
  <2>1. eofSent' \in BOOLEAN /\ inputDone' \in BOOLEAN
    BY <1>2, Zenon DEF TypeOK, SendEof
  <2>2. input' = input \/ (Room /\ input' = Append(input, EOF))
    BY <1>2, Zenon DEF SendEof
  <2>3. input' \in Seq(Nat) /\ Len(input') <= InCap
    BY <1>0, <2>2, BufferBounds
  <2> QED BY <1>2, <2>1, <2>3 DEF TypeOK, SendEof
<1>3. CASE Recv BY <1>3 DEF TypeOK, Recv
<1>4. CASE DropBegin BY <1>4 DEF TypeOK, DropBegin
<1>5. CASE DropEnd
  <2>1. eofSent' \in BOOLEAN /\ inputDone' \in BOOLEAN
    BY <1>5, Zenon DEF TypeOK, DropEnd
  <2>2. input' = input \/ (Room /\ input' = Append(input, EOF))
    BY <1>5, Zenon DEF DropEnd
  <2>3. input' \in Seq(Nat) /\ Len(input') <= InCap
    BY <1>0, <2>2, BufferBounds
  <2> QED BY <1>5, <2>1, <2>3 DEF TypeOK, DropEnd
<1>6. CASE TakeJob BY <1>6 DEF TypeOK, TakeJob
<1>7. CASE ReadChunk BY <1>7 DEF TypeOK, ReadChunk
<1>8. CASE FeedPipeline BY <1>8 DEF TypeOK, FeedPipeline
<1>9. CASE ReadNothing BY <1>9 DEF TypeOK, ReadNothing
<1>10. CASE ReadEof
  <2>1. eofSent' \in BOOLEAN /\ inputDone' \in BOOLEAN
    BY <1>10, Zenon DEF TypeOK, ReadEof
  <2>2. input' = input \/ (input # <<>> /\ input' = Tail(input))
    BY <1>10, Zenon DEF ReadEof
  <2>3. input' \in Seq(Nat) /\ Len(input') <= InCap
    BY <1>0, <2>2, BufferBounds
  <2>4. pin' = pin \/ (Len(pin) < PipeCap /\ pin' = Append(pin, EOF))
    BY <1>10 DEF ReadEof, OfferEof
  <2>5. pin' \in Seq(Nat) /\ Len(pin') <= PipeCap
    BY <1>0, <2>4, BufferBounds
  <2> QED BY <1>10, <2>1, <2>3, <2>5 DEF TypeOK, ReadEof
<1>11. CASE TakeResult BY <1>11 DEF TypeOK, TakeResult
<1>12. CASE PushResult BY <1>12 DEF TypeOK, PushResult
<1>13. CASE Abort BY <1>13 DEF TypeOK, Abort
<1>14. CASE NextTurn BY <1>14 DEF TypeOK, NextTurn
<1>15. CASE EndJob \/ Discard BY <1>15 DEF TypeOK, EndJob, Discard
<1>16. CASE PipeTake BY <1>16 DEF TypeOK, PipeTake
<1>17. CASE PipeEmit BY <1>17 DEF TypeOK, PipeEmit
<1>18. CASE PipeFinish BY <1>18 DEF TypeOK, PipeFinish
<1>19. CASE UNCHANGED jobVars BY <1>19 DEF TypeOK, jobVars
<1> QED
  BY <1>1, <1>2, <1>3, <1>4, <1>5, <1>6, <1>7, <1>8, <1>9, <1>10, <1>11, <1>12,
     <1>13, <1>14, <1>15, <1>16, <1>17, <1>18, <1>19
     DEF JobNext, Backend, Client, Worker, Pipeline

\* The variables keep their types, and no channel exceeds its capacity.
THEOREM JobTypes == JobSpec => []TypeOK
  BY TypeInit, TypeNext, PTL DEF JobSpec

----------------------------------------------------------------------------
(* The two lines.                                                          *)

\* InputIntact and OutputIntact, of any line.
Intact(line, d, s) ==
  /\ d <= s /\ Len(line) >= s - d
  /\ \A i \in 1..Len(line) : line[i] = IF i <= s - d THEN d + i ELSE EOF

Numbered(line, d, n) == Len(line) = n - d /\ \A i \in 1..Len(line) : line[i] = d + i

\* A line without EOF takes the next chunk at its end.
LEMMA IntactChunk ==
  ASSUME NEW l \in Seq(Nat), NEW d \in Nat, NEW s \in Nat, Intact(l, d, s), Len(l) = s - d
  PROVE  Intact(Append(l, s + 1), d, s + 1)
  BY DEF Intact

\* Any line takes EOF.
LEMMA IntactEof ==
  ASSUME NEW l \in Seq(Nat), NEW d \in Nat, NEW s \in Nat, Intact(l, d, s)
  PROVE  Intact(Append(l, EOF), d, s)
<1>1. Len(Append(l, EOF)) = Len(l) + 1
  BY AppendType, EofNat
<1>2. \A i \in 1..(Len(l) + 1) : Append(l, EOF)[i] = IF i <= Len(l) THEN l[i] ELSE EOF
  <2>1. \A e \in Nat : \A i \in 1..(Len(l) + 1) :
          Append(l, e)[i] = IF i <= Len(l) THEN l[i] ELSE e
    OBVIOUS
  <2> QED BY <2>1, EofNat
<1> QED BY <1>1, <1>2, EofNat DEF Intact

\* The head of a line is the next chunk, or else all chunks have been taken.
LEMMA IntactPop ==
  ASSUME NEW l \in Seq(Nat), NEW d \in Nat, NEW s \in Nat, Intact(l, d, s), l # <<>>
  PROVE  /\ Head(l) # EOF => Head(l) = d + 1 /\ Intact(Tail(l), d + 1, s)
         /\ Head(l) = EOF => d = s /\ Intact(Tail(l), d, s) /\ Len(l) > s - d
<1>1. Head(l) = l[1] /\ Len(l) >= 1 /\ Len(Tail(l)) = Len(l) - 1
      /\ \A i \in 1..Len(Tail(l)) : Tail(l)[i] = l[i + 1]
  OBVIOUS
<1>2. CASE d = s
  BY <1>1, <1>2 DEF Intact, EOF
<1>3. CASE d < s
  BY <1>1, <1>3 DEF Intact, EOF
<1> QED BY <1>2, <1>3 DEF Intact

\* An EOF in the middle of a line may go.
LEMMA IntactSkip ==
  ASSUME NEW a \in Seq(Nat), NEW t \in Seq(Nat), NEW d \in Nat, NEW s \in Nat,
         Intact(a \o <<>> \o t, d, s), t # <<>>, Head(t) = EOF
  PROVE  Intact(a \o <<>> \o Tail(t), d, s) /\ Len(a \o <<>> \o t) > s - d
<1> DEFINE k == Len(a) + 1
<1>1. Tail(t) \in Seq(Nat) /\ <<>> \in Seq(Nat) /\ Len(Tail(t)) = Len(t) - 1 /\ t[1] = EOF
      /\ Len(t) >= 1 /\ \A i \in 1..Len(Tail(t)) : Tail(t)[i] = t[i + 1]
  OBVIOUS
<1>2. /\ Len(a \o <<>> \o t) = Len(a) + Len(t)
      /\ \A i \in 1..(Len(a) + Len(t)) :
           (a \o <<>> \o t)[i] = IF i <= Len(a) THEN a[i] ELSE t[i - Len(a)]
  BY <1>1, LineElements
<1>3. /\ Len(a \o <<>> \o Tail(t)) = Len(a) + Len(t) - 1
      /\ \A i \in 1..(Len(a) + Len(t) - 1) :
           (a \o <<>> \o Tail(t))[i] = IF i <= Len(a) THEN a[i] ELSE t[i - Len(a) + 1]
  BY <1>1, LineElements
<1>4. k > s - d
  BY <1>1, <1>2, SMTT(90) DEF Intact, EOF
<1>5. \A i \in 1..(Len(a) + Len(t) - 1) :
        (a \o <<>> \o Tail(t))[i] = IF i <= s - d THEN d + i ELSE EOF
  <2> SUFFICES ASSUME NEW i \in 1..(Len(a) + Len(t) - 1)
               PROVE  (a \o <<>> \o Tail(t))[i] = IF i <= s - d THEN d + i ELSE EOF
    OBVIOUS
  <2>1. CASE i <= Len(a)
    <3>1. (a \o <<>> \o Tail(t))[i] = (a \o <<>> \o t)[i]
      BY <1>2, <1>3, <2>1
    <3> QED BY <1>1, <1>2, <3>1 DEF Intact
  <2>2. CASE i > Len(a)
    <3>1. (a \o <<>> \o Tail(t))[i] = (a \o <<>> \o t)[i + 1]
      BY <1>1, <1>2, <1>3, <2>2
    <3>2. i + 1 > s - d /\ i > s - d /\ i + 1 \in 1..Len(a \o <<>> \o t)
      BY <1>1, <1>2, <1>4, <2>2
    <3> QED BY <3>1, <3>2 DEF Intact
  <2> QED BY <2>1, <2>2
<1> QED BY <1>1, <1>2, <1>3, <1>4, <1>5 DEF Intact

\* The same for numbered lines.
LEMMA NumberedMoves ==
  ASSUME NEW l \in Seq(Nat), NEW d \in Nat, NEW n \in Nat, Numbered(l, d, n)
  PROVE  /\ Numbered(Append(l, n + 1), d, n + 1)
         /\ l # <<>> => Head(l) = d + 1 /\ Numbered(Tail(l), d + 1, n)
  BY DEF Numbered

----------------------------------------------------------------------------
(* The invariant.                                                          *)

\* The parts of TypeOK about what holds chunks and results.
LEMMA Buffers ==
  TypeOK => /\ input \in Seq(Nat) /\ output \in Seq(Nat) /\ pin \in Seq(Nat) /\ pout \in Seq(Nat)
            /\ held \in Nat /\ sent \in Nat /\ delivered \in Nat
            /\ decoded \in Nat /\ produced \in Nat
            /\ InputHand \in Seq(Nat) /\ OutputHand \in Seq(Nat)
<1> SUFFICES ASSUME TypeOK
             PROVE  /\ input \in Seq(Nat) /\ output \in Seq(Nat) /\ pin \in Seq(Nat) /\ pout \in Seq(Nat)
                    /\ held \in Nat /\ sent \in Nat /\ delivered \in Nat
                    /\ decoded \in Nat /\ produced \in Nat
                    /\ InputHand \in Seq(Nat) /\ OutputHand \in Seq(Nat)
  OBVIOUS
<1>1. held \in Nat
  BY DEF TypeOK
<1>2. <<held>> \in Seq(Nat) /\ <<>> \in Seq(Nat)
  BY <1>1
<1>3. InputHand \in Seq(Nat) /\ OutputHand \in Seq(Nat)
  BY <1>2 DEF InputHand, OutputHand
<1> QED BY <1>3 DEF TypeOK

\* The lines are sequences of numbers.
LEMMA Lines == TypeOK => InputLine \in Seq(Nat) /\ OutputLine \in Seq(Nat)
  BY Buffers, LineElements DEF InputLine, OutputLine

\* The same after a step.
LEMMA LinesNext ==
  TypeOK' => InputLine' \in Seq(Nat) /\ sent' \in Nat /\ decoded' \in Nat
<1> SUFFICES ASSUME TypeOK'
             PROVE  InputLine' \in Seq(Nat) /\ sent' \in Nat /\ decoded' \in Nat
  OBVIOUS
<1>1. /\ input' \in Seq(Nat) /\ pin' \in Seq(Nat) /\ held' \in Nat
      /\ sent' \in Nat /\ decoded' \in Nat
  BY DEF TypeOK
<1>2. <<held'>> \in Seq(Nat) /\ <<>> \in Seq(Nat)
  BY <1>1
<1>3. InputHand' \in Seq(Nat)
  BY <1>2 DEF InputHand
<1>4. InputLine' = pin' \o InputHand' \o input'
  BY DEF InputLine
<1> QED BY <1>1, <1>3, <1>4, LineElements

\* A client that has sent no EOF and holds its handle meets no EOF in the line.
LEMMA NoEofYet ==
  ASSUME TypeOK, InputIntact, EofAccounted, handle = "live", ~eofSent
  PROVE  Len(InputLine) = sent - decoded /\ pipe = "running" /\ ~inputDone
  BY Buffers, Lines DEF InputIntact, EofAccounted

\* The input line keeps its promise, and only the client's EOF and Drop's add one.
LEMMA InputIntactNext ==
  ASSUME JobInv, [JobNext]_jobVars
  PROVE  /\ InputIntact'
         /\ SendEof \/ DropEnd \/ Len(InputLine') - (sent' - decoded') <= Len(InputLine) - (sent - decoded)
<1>0. /\ TypeOK /\ TypeOK' /\ Intact(InputLine, decoded, sent)
      /\ input \in Seq(Nat) /\ pin \in Seq(Nat) /\ InputHand \in Seq(Nat) /\ InputLine \in Seq(Nat)
      /\ held \in Nat /\ sent \in Nat /\ decoded \in Nat
  BY TypeNext, Buffers, Lines DEF JobInv, InputIntact, Intact
<1> SUFFICES
      /\ Intact(InputLine', decoded', sent')
      /\ SendEof \/ DropEnd \/ Len(InputLine') - (sent' - decoded') <= Len(InputLine) - (sent - decoded)
  BY DEF InputIntact, Intact
<1>1. CASE SendChunk
  <2>0. pin' = pin /\ InputHand' = InputHand /\ input' = Append(input, sent + 1)
    BY <1>1 DEF SendChunk, InputHand, workerVars, pipeVars
  <2>1. InputLine' = Append(InputLine, sent + 1)
    <3>1. pin \o InputHand \o Append(input, sent + 1) = Append(pin \o InputHand \o input, sent + 1)
      BY <1>0, LineGrows, SMTT(90)
    <3> QED BY <2>0, <3>1 DEF InputLine
  <2>2. Len(InputLine) = sent - decoded /\ decoded' = decoded /\ sent' = sent + 1
    <3>1. decoded' = decoded /\ sent' = sent + 1
      BY <1>1 DEF SendChunk, pipeVars
    <3>2. handle = "live" /\ ~eofSent
      BY <1>1, Zenon DEF SendChunk
    <3> QED BY <3>1, <3>2, NoEofYet DEF JobInv
  <2> QED BY <1>0, <2>1, <2>2, IntactChunk
<1>2. CASE SendEof \/ DropEnd
  <2>1. input' = input \/ input' = Append(input, EOF)
    BY <1>2, Zenon DEF SendEof, DropEnd
  <2>2. pin' = pin /\ InputHand' = InputHand /\ decoded' = decoded /\ sent' = sent
    BY <1>2 DEF SendEof, DropEnd, workerVars, pipeVars, InputHand
  <2>3. InputLine' = InputLine \/ InputLine' = Append(InputLine, EOF)
    <3>1. pin \o InputHand \o Append(input, EOF) = Append(pin \o InputHand \o input, EOF)
      BY <1>0, LineGrowsByEof
    <3> QED BY <2>1, <2>2, <3>1 DEF InputLine
  <2> QED BY <1>0, <1>2, <2>2, <2>3, IntactEof
<1>3. CASE ReadChunk
  <2>1. InputLine' = InputLine
    BY <1>0, <1>3, LinePick DEF ReadChunk, InputLine, InputHand, pipeVars
  <2> QED BY <1>0, <1>3, <2>1 DEF ReadChunk, clientVars, pipeVars
<1>4. CASE FeedPipeline
  <2>1. InputLine' = InputLine
    BY <1>0, <1>4, LinePut DEF FeedPipeline, InputLine, InputHand
  <2> QED BY <1>0, <1>4, <2>1 DEF FeedPipeline, clientVars
<1>5. CASE ReadEof
  <2>1. input # <<>> /\ Head(input) = EOF /\ input' = Tail(input) /\ decoded' = decoded /\ sent' = sent
    BY <1>0, <1>5 DEF JobInv, EofAhead, InputEnded, Over, WorkerInv, ReadEof, clientVars
  <2>2. InputLine = pin \o <<>> \o input /\ InputLine' = pin' \o <<>> \o Tail(input)
    BY <1>5, <2>1 DEF ReadEof, InputLine, InputHand
  <2>3. CASE pin' = pin
    BY <1>0, <2>1, <2>2, <2>3, IntactSkip
  <2>4. CASE pin' = Append(pin, EOF)
    <3>1. InputLine' = pin \o <<EOF>> \o Tail(input)
      <4>1. Tail(input) \in Seq(Nat)
        BY <1>0, <2>1
      <4>2. Append(pin, EOF) \o <<>> \o Tail(input) = pin \o <<EOF>> \o Tail(input)
        BY <1>0, <4>1, LinePut, EofNat, ZenonT(60)
      <4> QED BY <2>2, <2>4, <4>2
    <3>2. InputLine' = InputLine
      BY <1>0, <2>1, <2>2, <3>1, LinePick
    <3> QED BY <1>0, <2>1, <3>2
  <2> QED BY <1>5, <2>3, <2>4 DEF ReadEof, OfferEof
<1>6. CASE PipeTake
  <2>0. pin # <<>> /\ pin' = Tail(pin) /\ InputHand' = InputHand /\ input' = input /\ sent' = sent
    BY <1>6 DEF PipeTake, InputHand, workerVars, clientVars
  <2>1. InputLine # <<>> /\ Head(InputLine) = Head(pin) /\ InputLine' = Tail(InputLine)
    BY <1>0, <2>0, LinePop, ZenonT(60) DEF InputLine
  <2>2. CASE Head(pin) = EOF
    <3>1. decoded' = decoded
      BY <1>6, <2>2 DEF PipeTake
    <3> QED BY <1>0, <2>0, <2>1, <2>2, <3>1, IntactPop
  <2>3. CASE Head(pin) # EOF
    <3>1. decoded' = Head(pin)
      BY <1>6, <2>3 DEF PipeTake
    <3>2. Head(InputLine) = decoded + 1 /\ Intact(Tail(InputLine), decoded + 1, sent)
      BY <1>0, <2>1, <2>3, IntactPop
    <3>3. Len(Tail(InputLine)) = Len(InputLine) - 1
      BY <1>0, <2>1
    <3> QED BY <1>0, <2>0, <2>1, <3>1, <3>2, <3>3
  <2> QED BY <2>2, <2>3
<1>7. CASE \/ Recv \/ DropBegin \/ TakeJob \/ ReadNothing \/ TakeResult \/ PushResult
           \/ Abort \/ NextTurn \/ EndJob \/ Discard \/ PipeEmit \/ PipeFinish \/ UNCHANGED jobVars
  <2>1. UNCHANGED <<input, pin, InputHand, decoded, sent>>
    BY <1>7 DEF Recv, DropBegin, TakeJob, ReadNothing, TakeResult, PushResult, Abort, NextTurn,
       EndJob, Discard, PipeEmit, PipeFinish, jobVars, clientVars, workerVars, pipeVars, InputHand
  <2> QED BY <1>0, <2>1 DEF InputLine
<1> QED
  BY <1>1, <1>2, <1>3, <1>4, <1>5, <1>6, <1>7 DEF JobNext, Backend, Client, Worker, Pipeline

\* The output line keeps its promise.
LEMMA OutputIntactNext ==
  ASSUME JobInv, [JobNext]_jobVars, handle' # "dropped"
  PROVE  OutputIntact'
<1>0. /\ TypeOK /\ TypeOK' /\ handle # "dropped" /\ Numbered(OutputLine, delivered, produced)
      /\ output \in Seq(Nat) /\ pout \in Seq(Nat) /\ OutputHand \in Seq(Nat) /\ OutputLine \in Seq(Nat)
      /\ held \in Nat /\ delivered \in Nat /\ produced \in Nat
  BY TypeNext, Buffers, Lines DEF JobInv, OutputIntact, Numbered, JobNext, Backend, Client, Worker, Pipeline, SendChunk,
     SendEof, Recv, DropBegin, DropEnd, TakeJob, ReadChunk, FeedPipeline, ReadNothing, ReadEof,
     TakeResult, PushResult, Abort, NextTurn, EndJob, Discard, PipeTake, PipeEmit, PipeFinish,
     jobVars, clientVars
<1> SUFFICES Numbered(OutputLine', delivered', produced')
  BY DEF OutputIntact, Numbered
<1>1. CASE Recv
  <2>0. output # <<>> /\ output' = Tail(output) /\ OutputHand' = OutputHand /\ pout' = pout
    BY <1>1 DEF Recv, OutputHand, workerVars, pipeVars
  <2>1. OutputLine # <<>> /\ Head(OutputLine) = Head(output) /\ OutputLine' = Tail(OutputLine)
    BY <1>0, <2>0, LinePop, ZenonT(60) DEF OutputLine
  <2> QED BY <1>0, <1>1, <2>1, NumberedMoves DEF Recv, pipeVars
<1>2. CASE TakeResult
  <2>1. OutputLine' = OutputLine
    BY <1>0, <1>2, LinePick DEF TakeResult, OutputLine, OutputHand
  <2> QED BY <1>0, <1>2, <2>1 DEF TakeResult, clientVars
<1>3. CASE PushResult
  <2>1. OutputLine' = OutputLine
    <3>1. output' = Append(output, held) /\ OutputHand = <<held>> /\ OutputHand' = <<>> /\ pout' = pout
      BY <1>3 DEF PushResult, OutputHand, pipeVars
    <3> QED BY <1>0, <3>1, LinePut DEF OutputLine
  <2> QED BY <1>0, <1>3, <2>1 DEF PushResult, clientVars, pipeVars
<1>4. CASE PipeEmit
  <2>1. OutputLine' = Append(OutputLine, produced + 1)
    <3>1. output' = output /\ OutputHand' = OutputHand /\ pout' = Append(pout, produced + 1)
      BY <1>4 DEF PipeEmit, OutputHand, workerVars
    <3> QED BY <1>0, <3>1, LineGrows, SMTT(90) DEF OutputLine
  <2> QED BY <1>0, <1>4, <2>1, NumberedMoves DEF PipeEmit, clientVars
<1>5. CASE \/ SendChunk \/ SendEof \/ DropBegin \/ TakeJob \/ ReadChunk \/ FeedPipeline
           \/ ReadNothing \/ ReadEof \/ NextTurn \/ EndJob \/ Discard \/ PipeTake \/ PipeFinish
           \/ UNCHANGED jobVars
  <2>1. UNCHANGED <<output, pout, OutputHand, delivered, produced>>
    BY <1>5 DEF SendChunk, SendEof, DropBegin, TakeJob, ReadChunk, FeedPipeline, ReadNothing,
       ReadEof, NextTurn, EndJob, Discard, PipeTake, PipeFinish, jobVars, clientVars, workerVars,
       pipeVars, OutputHand
  <2> QED BY <1>0, <2>1 DEF OutputLine
<1>6. ~DropEnd /\ ~Abort
  BY <1>0 DEF DropEnd, Abort
<1> QED
  BY <1>1, <1>2, <1>3, <1>4, <1>5, <1>6 DEF JobNext, Backend, Client, Worker, Pipeline

\* An EOF reaches the worker or the decoder only if one has been sent.
LEMMA EofSeen ==
  ASSUME JobInv, ReadEof \/ (PipeTake /\ Head(pin) = EOF)
  PROVE  /\ eofSent \/ handle = "dropped"
         /\ PipeTake => decoded = sent
<1>0. /\ TypeOK /\ Intact(InputLine, decoded, sent) /\ EofAccounted
      /\ input \in Seq(Nat) /\ pin \in Seq(Nat) /\ InputHand \in Seq(Nat) /\ InputLine \in Seq(Nat)
      /\ sent \in Nat /\ decoded \in Nat
  BY Buffers, Lines DEF JobInv, InputIntact, Intact
<1>1. CASE ReadEof
  <2>1. CASE input # <<>>
    <3>1. Head(input) = EOF /\ InputLine = pin \o <<>> \o input /\ ~PipeTake
      BY <1>1, <2>1 DEF ReadEof, InputLine, InputHand, PipeTake, pipeVars
    <3>2. Len(InputLine) > sent - decoded
      BY <1>0, <2>1, <3>1, IntactSkip
    <3> QED BY <1>0, <3>1, <3>2 DEF EofAccounted
  <2>2. CASE input = <<>>
    BY <1>1, <2>2 DEF ReadEof, PipeTake, workerVars
  <2> QED BY <2>1, <2>2
<1>2. CASE PipeTake /\ Head(pin) = EOF
  <2>1. InputLine # <<>> /\ Head(InputLine) = EOF
    BY <1>0, <1>2, LinePop DEF PipeTake, InputLine
  <2>2. decoded = sent /\ Len(InputLine) > sent - decoded
    BY <1>0, <2>1, IntactPop
  <2> QED BY <1>0, <2>2 DEF EofAccounted
<1> QED BY <1>1, <1>2

\* Every EOF, and every trace of one, is accounted for.
LEMMA EofAccountedNext ==
  ASSUME JobInv, [JobNext]_jobVars
  PROVE  EofAccounted'
<1> SUFFICES ASSUME ~eofSent', handle' # "dropped"
             PROVE  /\ ~inputDone' /\ pipe' = "running"
                    /\ ~(Len(InputLine') > sent' - decoded')
  BY DEF EofAccounted
<1>1. ~eofSent /\ handle # "dropped" /\ ~SendEof /\ ~DropEnd
  BY DEF JobNext, Backend, Client, Worker, Pipeline, SendChunk, SendEof, Recv, DropBegin, DropEnd,
     TakeJob, ReadChunk, FeedPipeline, ReadNothing, ReadEof, TakeResult, PushResult, Abort,
     NextTurn, EndJob, Discard, PipeTake, PipeEmit, PipeFinish, jobVars, clientVars
<1>2. ~inputDone /\ pipe = "running" /\ ~(Len(InputLine) > sent - decoded)
  BY <1>1 DEF JobInv, EofAccounted
<1>3. ~ReadEof /\ ~(PipeTake /\ Head(pin) = EOF)
  BY <1>1, EofSeen
<1>4. inputDone' = inputDone /\ pipe' = pipe
  BY <1>1, <1>2, <1>3 DEF JobNext, Backend, Client, Worker, Pipeline, SendChunk, Recv, DropBegin,
     TakeJob, ReadChunk, FeedPipeline, ReadNothing, TakeResult, PushResult, Abort,
     NextTurn, EndJob, Discard, PipeTake, PipeEmit, PipeFinish, jobVars, workerVars, pipeVars
<1>5. Len(InputLine') - (sent' - decoded') <= Len(InputLine) - (sent - decoded)
  BY <1>1, InputIntactNext
<1>6. /\ Len(InputLine') \in Nat /\ sent' \in Nat /\ decoded' \in Nat
      /\ Len(InputLine) \in Nat /\ sent \in Nat /\ decoded \in Nat
  <2>1. TypeOK /\ TypeOK'
    BY TypeNext DEF JobInv
  <2>2. InputLine' \in Seq(Nat) /\ sent' \in Nat /\ decoded' \in Nat
    BY <2>1, LinesNext
  <2>3. InputLine \in Seq(Nat) /\ sent \in Nat /\ decoded \in Nat
    BY <2>1, Lines, Buffers
  <2> QED BY <2>1, <2>2, <2>3
<1> QED BY <1>2, <1>4, <1>5, <1>6

\* The pipeline flushes after the last chunk and finishes with nothing owed.
LEMMA PipeInvNext ==
  ASSUME JobInv, [JobNext]_jobVars
  PROVE  PipeInv'
<1>1. CASE PipeTake
  <2>1. CASE Head(pin) = EOF
    BY <1>1, <2>1, EofSeen DEF PipeTake, PipeInv, clientVars
  <2>2. CASE Head(pin) # EOF
    BY <1>1, <2>2 DEF PipeTake, PipeInv
  <2> QED BY <2>1, <2>2
<1>2. CASE PipeEmit
  BY <1>2 DEF PipeEmit, PipeInv, JobInv, TypeOK, clientVars
<1>3. CASE PipeFinish
  BY <1>3 DEF PipeFinish, PipeInv, JobInv, clientVars
<1>4. CASE SendChunk
  BY <1>4, NoEofYet DEF SendChunk, PipeInv, JobInv, pipeVars
<1>5. CASE ~(PipeTake \/ PipeEmit \/ PipeFinish \/ SendChunk)
  BY <1>5 DEF JobInv, PipeInv, JobNext, Backend, Client, Worker, Pipeline, SendEof, Recv, DropBegin,
     DropEnd, TakeJob, ReadChunk, FeedPipeline, ReadNothing, ReadEof, TakeResult, PushResult,
     Abort, NextTurn, EndJob, Discard, jobVars, clientVars, pipeVars
<1> QED BY <1>1, <1>2, <1>3, <1>4, <1>5

\* The worker reads until it has seen the end of input, and leaves when all is done.
LEMMA WorkerInvNext ==
  ASSUME JobInv, [JobNext]_jobVars
  PROVE  WorkerInv'
  BY DEF JobInv, WorkerInv, JobNext, Backend, Client, Worker, Pipeline, SendChunk, SendEof, Recv,
     DropBegin, DropEnd, TakeJob, ReadChunk, FeedPipeline, ReadNothing, ReadEof, TakeResult,
     PushResult, Abort, NextTurn, EndJob, Discard, PipeTake, PipeEmit, PipeFinish,
     jobVars, clientVars, workerVars, pipeVars

\* An EOF stays at the end of the input until the worker takes one.
LEMMA EofAheadNext ==
  ASSUME JobInv, [JobNext]_jobVars
  PROVE  EofAhead'
<1>0. input \in Seq(Nat) /\ TypeOK
  BY Buffers DEF JobInv
<1>1. CASE SendEof \/ DropEnd
  <2>1. CASE Over
    BY <1>1, <2>1 DEF SendEof, DropEnd, EofAhead, workerVars, Over
  <2>2. CASE ~Over
    <3>1. input' = Append(input, EOF)
      BY <1>1, <2>2 DEF SendEof, DropEnd
    <3>2. \A e \in Nat : Append(input, e) # <<>> /\ Append(input, e)[Len(Append(input, e))] = e
      BY <1>0
    <3> QED BY <3>1, <3>2, EofNat DEF EofAhead
  <2> QED BY <2>1, <2>2
<1>2. CASE ReadChunk
  <2>1. input # <<>> /\ Head(input) # EOF /\ input' = Tail(input) /\ inputDone' = inputDone
        /\ InputEnded' = InputEnded /\ ~Over
    BY <1>2 DEF ReadChunk, clientVars, Over, InputEnded
  <2>2. /\ Head(input) = input[1] /\ Len(input) >= 1
        /\ Tail(input) \in Seq(Nat) /\ Len(Tail(input)) = Len(input) - 1
        /\ \A i \in 1..Len(Tail(input)) : Tail(input)[i] = input[i + 1]
    BY <1>0, <2>1
  <2>3. CASE InputEnded /\ ~inputDone
    <3>1. input[Len(input)] = EOF
      BY <2>1, <2>3 DEF JobInv, EofAhead
    <3>2. Len(input) > 1
      BY <1>0, <2>1, <2>2, <3>1
    <3>3. Tail(input)[Len(Tail(input))] = input[Len(input)] /\ Tail(input) # <<>>
      BY <1>0, <3>2, TailLast
    <3> QED BY <2>1, <3>1, <3>3 DEF EofAhead
  <2> QED BY <2>1, <2>3 DEF EofAhead
<1>3. CASE ReadEof
  BY <1>3 DEF ReadEof, EofAhead
<1>4. CASE SendChunk
  BY <1>4 DEF SendChunk, EofAhead, InputEnded
<1>5. CASE ~(DropEnd \/ ReadChunk \/ ReadEof \/ SendChunk \/ SendEof)
  BY <1>5 DEF JobInv, EofAhead, InputEnded, JobNext, Backend, Client, Worker, Pipeline, Recv, DropBegin,
     TakeJob, FeedPipeline, ReadNothing, TakeResult, PushResult,
     Abort, NextTurn, EndJob, Discard, PipeTake, PipeEmit, PipeFinish, jobVars, clientVars, workerVars,
     Over
<1> QED BY <1>1, <1>2, <1>3, <1>4, <1>5

\* A new job satisfies the invariant.
LEMMA InvInit == JobInit => JobInv
<1> SUFFICES ASSUME JobInit PROVE JobInv
  OBVIOUS
<1>1. InputLine = <<>> /\ OutputLine = <<>>
  BY DEF JobInit, InputLine, InputHand, OutputLine, OutputHand
<1>2. InputIntact /\ OutputIntact /\ EofAccounted
  BY <1>1 DEF JobInit, InputIntact, OutputIntact, EofAccounted
<1>3. PipeInv /\ WorkerInv /\ EofAhead
  BY DEF JobInit, PipeInv, WorkerInv, EofAhead, InputEnded
<1> QED BY <1>2, <1>3, TypeInit DEF JobInv

\* Every step keeps the invariant.
LEMMA InvNext == JobInv /\ [JobNext]_jobVars => JobInv'
<1> SUFFICES ASSUME JobInv, [JobNext]_jobVars PROVE JobInv'
  OBVIOUS
<1>1. TypeOK'
  BY TypeNext DEF JobInv
<1>2. OutputIntact'
  BY OutputIntactNext DEF OutputIntact
<1> QED
  BY <1>1, <1>2, InputIntactNext, EofAccountedNext, PipeInvNext, WorkerInvNext, EofAheadNext
     DEF JobInv

\* The invariant holds of every behaviour.
LEMMA JobInvariant == JobSpec => []JobInv
  BY InvInit, InvNext, PTL DEF JobSpec

\* A client that finds the output closed has everything.
LEMMA ClosedIsAll ==
  ASSUME JobInv, handle = "live", Closed, wpc # "lost"
  PROVE  decoded = sent /\ pend = 0 /\ delivered = produced /\ pipe # "running"
<1>1. pipe = "finished" /\ pout = <<>> /\ output = <<>> /\ OutputHand = <<>>
  BY DEF JobInv, WorkerInv, Closed, Over, OutputHand
<1>2. OutputLine = <<>>
  BY <1>1 DEF OutputLine
<1>3. produced - delivered = 0 /\ produced \in Nat /\ delivered \in Nat
  BY <1>2, Buffers DEF JobInv, OutputIntact
<1> QED BY <1>1, <1>3 DEF JobInv, PipeInv

----------------------------------------------------------------------------
(* Theorems.                                                               *)

\* No chunk is lost, repeated or reordered between the handle and the decoder.
THEOREM InputIsIntact == JobSpec => []InputIntact
<1>1. JobInv => InputIntact
  BY DEF JobInv
<1> QED BY <1>1, JobInvariant, PTL

\* No result is lost, repeated or reordered on the way to a client that keeps its
\* handle.
THEOREM OutputIsIntact == JobSpec => []OutputIntact
<1>1. JobInv => OutputIntact
  BY DEF JobInv
<1> QED BY <1>1, JobInvariant, PTL

\* A client that finds the output closed has everything.
THEOREM ClosedIsComplete == JobSpec => []ClosedMeansComplete
<1>1. JobInv => ClosedMeansComplete
  BY ClosedIsAll DEF ClosedMeansComplete
<1> QED BY <1>1, JobInvariant, PTL

\* The worker does not leave a client that may still send.
THEOREM WorkerEndsOnlyAfterEof == JobSpec => []EndsOnlyAfterEof
<1>1. JobInv => EndsOnlyAfterEof
  BY DEF JobInv, WorkerInv, EofAccounted, EndsOnlyAfterEof
<1> QED BY <1>1, JobInvariant, PTL

\* The worker finds an EOF in the input before it finds the channel disconnected.
THEOREM EofIsAhead == JobSpec => []EofAhead
<1>1. JobInv => EofAhead
  BY DEF JobInv
<1> QED BY <1>1, JobInvariant, PTL

----------------------------------------------------------------------------
(* What the proofs about the handlers use.                                 *)

\* The elements of a set of numbers up to n, such as the decode errors among the first
\* n results.
UpTo(S, n) == {i \in S : i <= n}

LEMMA CountUpTo ==
  ASSUME NEW S, IsFiniteSet(S), \A i \in S : i \in Nat /\ i > 0
  PROVE  /\ Cardinality(UpTo(S, 0)) = 0
         /\ \A n \in Nat :
              /\ Cardinality(UpTo(S, n)) \in Nat
              /\ n + 1 \in S => Cardinality(UpTo(S, n + 1)) = Cardinality(UpTo(S, n)) + 1
              /\ n + 1 \notin S => Cardinality(UpTo(S, n + 1)) = Cardinality(UpTo(S, n))
<1>1. UpTo(S, 0) = {}
  BY DEF UpTo
<1>2. ASSUME NEW n \in Nat
      PROVE  /\ Cardinality(UpTo(S, n)) \in Nat
             /\ n + 1 \in S => Cardinality(UpTo(S, n + 1)) = Cardinality(UpTo(S, n)) + 1
             /\ n + 1 \notin S => Cardinality(UpTo(S, n + 1)) = Cardinality(UpTo(S, n))
  <2>1. IsFiniteSet(UpTo(S, n))
    <3>1. UpTo(S, n) \in SUBSET S
      BY DEF UpTo
    <3> QED BY <3>1, FS_Subset
  <2>2. ASSUME n + 1 \in S  PROVE UpTo(S, n + 1) = UpTo(S, n) \cup {n + 1} /\ n + 1 \notin UpTo(S, n)
    BY <2>2 DEF UpTo
  <2>3. ASSUME n + 1 \notin S  PROVE UpTo(S, n + 1) = UpTo(S, n)
    BY <2>3 DEF UpTo
  <2> QED BY <2>1, <2>2, <2>3, FS_AddElement, FS_CardinalityType
<1> QED BY <1>1, <1>2, FS_EmptySet

\* A job no worker has taken up has done nothing.
Fresh ==
  wpc \in {"queued", "lost"} => pin = <<>> /\ pend = 0 /\ produced = 0

LEMMA FreshInit == JobInit => Fresh
  BY DEF JobInit, Fresh

\* Another job is like a first one.
LEMMA NewJobInv == NewJob => JobInv' /\ Fresh'
<1>1. JobInit => JobInv /\ Fresh
  BY InvInit DEF JobInit, Fresh
<1>2. JobInit' => JobInv' /\ Fresh'
  BY <1>1, PTL
<1>3. NewJob => JobInit'
  BY DEF NewJob, JobInit
<1> QED BY <1>2, <1>3

LEMMA FreshNext ==
  ASSUME JobInv, Fresh, [JobNext]_jobVars
  PROVE  Fresh'
  BY DEF Fresh, JobNext, Backend, Client, Worker, Pipeline, SendChunk, SendEof, Recv, DropBegin,
     DropEnd, TakeJob, ReadChunk, FeedPipeline, ReadNothing, ReadEof, TakeResult, PushResult,
     Abort, NextTurn, EndJob, Discard, PipeTake, PipeEmit, PipeFinish, jobVars, clientVars,
     workerVars, pipeVars

\* The handle never has more than has been produced.
LEMMA DeliveredBound ==
  ASSUME JobInv, handle # "dropped"
  PROVE  delivered \in Nat /\ produced \in Nat /\ pend \in Nat /\ delivered <= produced
<1>1. delivered \in Nat /\ produced \in Nat /\ pend \in Nat
  BY DEF JobInv, TypeOK
<1>2. Len(OutputLine) = produced - delivered /\ OutputLine \in Seq(Nat)
  BY Lines DEF JobInv, OutputIntact
<1>3. Len(OutputLine) \in Nat
  BY <1>2
<1> QED BY <1>1, <1>2, <1>3

\* A result that is received is the next one.
LEMMA Received ==
  ASSUME JobInv, Fresh, Recv
  PROVE  /\ delivered' = delivered + 1 /\ delivered' <= produced
         /\ produced' = produced /\ wpc # "lost" /\ wpc' = wpc
<1>1. /\ output \in Seq(Nat) /\ pout \in Seq(Nat) /\ OutputHand \in Seq(Nat)
      /\ delivered \in Nat /\ produced \in Nat
  BY Buffers DEF JobInv
<1>2. output # <<>> /\ handle # "dropped" /\ delivered' = Head(output)
      /\ produced' = produced /\ wpc' = wpc
  BY DEF Recv, pipeVars, workerVars
<1>3. OutputLine # <<>> /\ Head(OutputLine) = Head(output)
  BY <1>1, <1>2, LinePop DEF OutputLine
<1>4. Len(OutputLine) = produced - delivered
      /\ \A i \in 1..Len(OutputLine) : OutputLine[i] = delivered + i
  BY <1>2 DEF JobInv, OutputIntact
<1>5. OutputLine \in Seq(Nat)
  BY Lines DEF JobInv
<1>6. Len(OutputLine) \in Nat /\ Len(OutputLine) >= 1 /\ Head(OutputLine) = OutputLine[1]
  BY <1>3, <1>5
<1>7. produced >= 1
  BY <1>1, <1>4, <1>6
<1> QED BY <1>1, <1>2, <1>3, <1>4, <1>6, <1>7 DEF Fresh

\* What a step behind the handle does to the chunks and results in its care.
Decodes ==
  /\ pipe = "running" /\ pipe' = "running" /\ decoded < sent /\ decoded' = decoded + 1
  /\ \E n \in 0..Burst : produced' + pend' = produced + pend + n

Flushes ==
  /\ pipe = "running" /\ pipe' # "running" /\ decoded = sent /\ decoded' = decoded
  /\ eofSent \/ handle = "dropped"
  /\ \E n \in 0..Burst : produced' + pend' = produced + pend + n

DecodesNothing ==
  /\ decoded' = decoded /\ produced' + pend' = produced + pend
  /\ pipe' # "running" <=> pipe # "running"

LEMMA BackendSteps ==
  ASSUME JobInv, Fresh, Backend
  PROVE  /\ UNCHANGED clientVars
         /\ ((Decodes \/ Flushes) /\ wpc' = wpc /\ wpc # "lost") \/ DecodesNothing
         /\ wpc = "lost" => wpc' = "lost"
         /\ wpc' = "lost" => wpc \in {"lost", "queued"}
<1>0. /\ pin \in Seq(Nat) /\ produced \in Nat /\ pend \in Nat /\ sent \in Nat /\ decoded \in Nat
      /\ input \in Seq(Nat) /\ InputHand \in Seq(Nat) /\ InputLine \in Seq(Nat) /\ Burst \in Nat
  BY Buffers, Lines DEF JobInv, TypeOK
<1>1. CASE PipeTake
  <2>1. pin # <<>> /\ pend = 0 /\ pipe = "running" /\ produced' = produced /\ pend' \in 0..Burst
        /\ wpc' = wpc /\ UNCHANGED clientVars
    BY <1>1 DEF PipeTake, workerVars
  <2>2. wpc # "lost"
    BY <2>1 DEF Fresh
  <2>3. \E n \in 0..Burst : produced' + pend' = produced + pend + n
    <3>1. produced' + pend' = produced + pend + pend'
      BY <1>0, <2>1
    <3> QED BY <2>1, <3>1, Zenon
  <2>4. CASE Head(pin) = EOF
    <3>1. Flushes
      BY <1>1, <2>1, <2>3, <2>4, EofSeen DEF PipeTake, Flushes
    <3> QED BY <2>1, <2>2, <3>1
  <2>5. CASE Head(pin) # EOF
    <3>1. InputLine # <<>> /\ Head(InputLine) = Head(pin)
      BY <1>0, <2>1, LinePop DEF InputLine
    <3>2. Intact(InputLine, decoded, sent)
      BY DEF JobInv, InputIntact, Intact
    <3>3. Head(pin) = decoded + 1 /\ Intact(Tail(InputLine), decoded + 1, sent)
      BY <1>0, <2>5, <3>1, <3>2, IntactPop
    <3>4. decoded < sent
      BY <1>0, <3>3 DEF Intact
    <3>5. Decodes
      BY <1>1, <2>1, <2>3, <2>5, <3>3, <3>4 DEF PipeTake, Decodes
    <3> QED BY <2>1, <2>2, <3>5
  <2> QED BY <2>4, <2>5
<1>2. CASE PipeEmit
  BY <1>0, <1>2 DEF PipeEmit, DecodesNothing, workerVars
<1>3. CASE PipeFinish
  BY <1>3 DEF PipeFinish, DecodesNothing, workerVars
<1>4. CASE Worker
  <2>1. UNCHANGED <<clientVars, decoded, produced, pend, pipe>>
    BY <1>4 DEF Worker, TakeJob, ReadChunk, FeedPipeline, ReadNothing, ReadEof, TakeResult, PushResult,
       Abort, NextTurn, EndJob, pipeVars
  <2>2. wpc # "lost" /\ wpc' # "lost"
    BY <1>4 DEF Worker, TakeJob, ReadChunk, FeedPipeline, ReadNothing, ReadEof, TakeResult, PushResult,
       Abort, NextTurn, EndJob
  <2> QED BY <2>1, <2>2 DEF DecodesNothing
<1>5. CASE Discard
  BY <1>5 DEF Discard, DecodesNothing, pipeVars
<1> QED BY <1>1, <1>2, <1>3, <1>4, <1>5 DEF Backend, Pipeline

----------------------------------------------------------------------------
(* Standstills.                                                            *)

\* A worker that still reads has given the pipeline no EOF; and one that reads on with
\* the pipeline's buffer full came from a drain that left no result behind, so that the
\* results in the making are those of one chunk at most.
MotionInv ==
  /\ wpc = "feed" => held # EOF
  /\ ~inputDone => ~EofGiven
  /\ Len(pin) = PipeCap /\ wpc \in {"read", "feed"} => Len(pout) + pend <= Burst

LEMMA MotionInit == JobInit => MotionInv
  BY DEF JobInit, MotionInv, EofGiven

\* The pipeline comes to know of the end of input only through ReadEof.
LEMMA EofGivenNext ==
  ASSUME JobInv, MotionInv, [JobNext]_jobVars
  PROVE  ~inputDone' => ~EofGiven'
<1> SUFFICES ASSUME ~inputDone'  PROVE ~EofGiven'
  OBVIOUS
<1>0. pin \in Seq(Nat) /\ input \in Seq(Nat) /\ held \in Nat
  BY Buffers DEF JobInv
<1>1. ~inputDone /\ ~ReadEof
  BY DEF JobNext, Backend, Client, Worker, Pipeline, SendChunk, SendEof, Recv, DropBegin, DropEnd,
     TakeJob, ReadChunk, FeedPipeline, ReadNothing, ReadEof, TakeResult, PushResult, Abort,
     NextTurn, EndJob, Discard, PipeTake, PipeEmit, PipeFinish, jobVars, workerVars
<1>2. pipe = "running" /\ \A i \in 1..Len(pin) : pin[i] # EOF
  BY <1>1 DEF EofGiven, MotionInv
<1>3. CASE FeedPipeline
  <2>1. pin' = Append(pin, held) /\ pipe' = pipe
    BY <1>3 DEF FeedPipeline
  <2>2. held # EOF
    BY <1>3 DEF FeedPipeline, MotionInv
  <2> QED BY <1>0, <1>2, <2>1, <2>2 DEF EofGiven
<1>4. CASE PipeTake
  <2>1. pin # <<>> /\ pin' = Tail(pin) /\ Head(pin) = pin[1] /\ 1 \in 1..Len(pin)
    BY <1>0, <1>4 DEF PipeTake
  <2>2. pipe' = pipe
    BY <1>2, <1>4, <2>1 DEF PipeTake
  <2>3. \A i \in 1..Len(pin') : pin'[i] = pin[i + 1] /\ i + 1 \in 1..Len(pin)
    BY <1>0, <2>1
  <2> QED BY <1>2, <2>2, <2>3 DEF EofGiven
<1>5. CASE ~(ReadEof \/ FeedPipeline \/ PipeTake)
  <2>1. pin' = pin /\ (pipe' = pipe \/ PipeFinish)
    BY <1>1, <1>5 DEF JobNext, Backend, Client, Worker, Pipeline, SendChunk, SendEof, Recv, DropBegin,
       DropEnd, TakeJob, ReadChunk, ReadNothing, TakeResult, PushResult, Abort, NextTurn, EndJob,
       Discard, PipeEmit, PipeFinish, jobVars, pipeVars
  <2>2. ~PipeFinish
    BY <1>2 DEF PipeFinish
  <2> QED BY <1>2, <2>1, <2>2 DEF EofGiven
<1> QED BY <1>1, <1>3, <1>4, <1>5

\* Only the drain sends the worker back to read, and only the worker fills the buffer.
LEMMA RoomNext ==
  ASSUME JobInv, Fresh, MotionInv, [JobNext]_jobVars,
         Len(pin') = PipeCap, wpc' \in {"read", "feed"}
  PROVE  Len(pout') + pend' <= Burst
<1>0. /\ pin \in Seq(Nat) /\ Len(pin) <= PipeCap /\ pout \in Seq(Nat) /\ produced \in Nat
      /\ pend \in 0..Burst
  BY DEF JobInv, TypeOK
<1>1. CASE NextTurn
  BY <1>0, <1>1 DEF NextTurn, pipeVars
<1>2. CASE PipeEmit
  <2>1. pin' = pin /\ wpc' = wpc /\ pend' = pend - 1 /\ pout' = Append(pout, produced + 1)
    BY <1>2 DEF PipeEmit, workerVars
  <2>2. Len(pout') = Len(pout) + 1
    BY <1>0, <2>1
  <2> QED BY <1>0, <2>1, <2>2 DEF MotionInv
<1>3. ~PipeTake
  <2> SUFFICES ASSUME PipeTake  PROVE FALSE
    OBVIOUS
  <2>1. pin' = Tail(pin) /\ pin # <<>>
    BY DEF PipeTake
  <2>2. Len(pin') = Len(pin) - 1 /\ Len(pin) \in Nat
    BY <1>0, <2>1
  <2> QED BY <1>0, <2>2
<1>4. ~TakeJob
  <2> SUFFICES ASSUME TakeJob  PROVE FALSE
    OBVIOUS
  <2>1. pin' = <<>>
    BY DEF TakeJob, Fresh, pipeVars
  <2> QED BY <2>1
<1>5. CASE ~(NextTurn \/ PipeEmit \/ PipeTake \/ TakeJob)
  <2>1. /\ UNCHANGED <<pin, pout, pend>>
        /\ wpc \in {"read", "feed"}
    BY <1>5 DEF JobNext, Backend, Client, Worker, Pipeline, SendChunk, SendEof, Recv, DropBegin,
       DropEnd, ReadChunk, FeedPipeline, ReadNothing, ReadEof, TakeResult, PushResult, Abort, EndJob,
       Discard, PipeFinish, jobVars, pipeVars, workerVars
  <2> QED BY <2>1 DEF MotionInv
<1> QED BY <1>1, <1>2, <1>3, <1>4, <1>5

LEMMA MotionNext ==
  ASSUME JobInv, Fresh, MotionInv, [JobNext]_jobVars
  PROVE  MotionInv'
<1>1. wpc' = "feed" => held' # EOF
  BY DEF MotionInv, JobNext, Backend, Client, Worker, Pipeline, SendChunk, SendEof, Recv, DropBegin,
     DropEnd, TakeJob, ReadChunk, FeedPipeline, ReadNothing, ReadEof, TakeResult, PushResult, Abort,
     NextTurn, EndJob, Discard, PipeTake, PipeEmit, PipeFinish, jobVars, workerVars
<1> QED BY <1>1, EofGivenNext, RoomNext DEF MotionInv

\* A pipeline with room for the results of a chunk keeps the worker from no chunk.
LEMMA FeedBlockedBursts ==
  ASSUME JobInv, MotionInv, FeedBlocked
  PROVE  Burst > PipeOutCap
<1>1. Len(pout) = PipeOutCap /\ pend > 0 /\ Len(pout) + pend <= Burst
  BY DEF FeedBlocked, MotionInv
<1>2. pend \in Nat /\ Burst \in Nat /\ PipeOutCap \in Nat
  BY DEF JobInv, TypeOK
<1> QED BY <1>1, <1>2

\* Where a job may stand still.
LEMMA RestIsKnown ==
  ASSUME JobInv, MotionInv, eofSent \/ handle # "live", ~CanMove, ~Over
  PROVE  EofLost \/ (handle = "closing" /\ Wedged) \/ FeedBlocked
<1>0. TypeOK
  BY DEF JobInv
<1>1. wpc \in {"feed", "drain", "push"}
  BY <1>0 DEF TypeOK, WorkerPc, CanMove, BackendCanMove, Over
<1>2. pend > 0 => Len(pout) = PipeOutCap
  BY <1>0, <1>1 DEF CanMove, BackendCanMove, TypeOK
<1>3. pend = 0 => pipe # "flushing" /\ (pipe = "running" => pin = <<>>)
  BY <1>1 DEF CanMove, BackendCanMove
<1>4. CASE wpc = "feed"
  <2>1. Len(pin) = PipeCap /\ pin # <<>>
    BY <1>0, <1>4 DEF CanMove, BackendCanMove, TypeOK
  <2>2. pipe = "running"
    BY <1>4 DEF JobInv, WorkerInv, MotionInv, EofGiven
  <2>3. pend > 0
    BY <1>0, <1>3, <2>1, <2>2 DEF TypeOK
  <2> QED BY <1>2, <1>4, <2>1, <2>3 DEF FeedBlocked
<1>5. CASE wpc = "drain"
  <2>1. pout = <<>> /\ inputDone /\ pipe # "finished"
    BY <1>5 DEF CanMove, BackendCanMove
  <2>2. pend = 0
    BY <1>0, <1>2, <2>1 DEF TypeOK
  <2>3. pipe = "running" /\ pin = <<>>
    BY <1>0, <1>3, <2>1, <2>2 DEF TypeOK
  <2> QED BY <2>1, <2>3 DEF EofLost, EofGiven
<1>6. CASE wpc = "push"
  <2>1. handle # "dropped" /\ Len(output) = OutCap
    BY <1>0, <1>6 DEF CanMove, BackendCanMove, TypeOK
  <2>2. handle = "closing"
    BY <1>0, <2>1 DEF CanMove, BackendCanMove, TypeOK
  <2>3. Len(input) = InCap
    BY <1>0, <2>2 DEF CanMove, BackendCanMove, Room, TypeOK
  <2> QED BY <1>6, <2>1, <2>2, <2>3 DEF Wedged
<1> QED BY <1>1, <1>4, <1>5, <1>6

\* What a worker waits for while its client has more to send: for the client to take
\* results, or for ever.
LEMMA RestsAmidInput ==
  ASSUME JobInv, MotionInv, handle = "live", ~eofSent, ~Over, ~BackendCanMove
  PROVE  (wpc = "push" /\ Len(output) = OutCap) \/ (FeedBlocked /\ Burst > PipeOutCap)
<1>0. TypeOK /\ ~inputDone /\ pipe = "running"
  BY DEF JobInv, TypeOK, EofAccounted
<1>1. wpc \in {"feed", "push"}
  BY <1>0 DEF TypeOK, WorkerPc, BackendCanMove, Over
<1>2. CASE wpc = "feed"
  <2>1. Len(pin) = PipeCap /\ pin # <<>>
    BY <1>0, <1>2 DEF BackendCanMove, TypeOK
  <2>2. pend > 0 /\ Len(pout) = PipeOutCap
    BY <1>0, <1>2, <2>1 DEF BackendCanMove, TypeOK
  <2> QED BY <1>2, <2>1, <2>2, FeedBlockedBursts DEF FeedBlocked
<1>3. CASE wpc = "push"
  BY <1>0, <1>3 DEF BackendCanMove, TypeOK
<1> QED BY <1>1, <1>2, <1>3

\* What keeps a client in the send of a chunk, or of EOF, for ever.
LEMMA BlockedSend ==
  ASSUME JobInv, MotionInv, handle = "live", ~eofSent, ~Over, ~Room, ~BackendCanMove
  PROVE  Wedged \/ (FeedBlocked /\ Burst > PipeOutCap)
<1>1. Len(input) = InCap
  BY DEF Room, JobInv, TypeOK
<1> QED BY <1>1, RestsAmidInput DEF Wedged

LEMMA NewJobMotion == NewJob => MotionInv'
<1>1. JobInit' => MotionInv'
  BY MotionInit, PTL
<1> QED BY <1>1 DEF NewJob, JobInit

LEMMA MotionInvariant == JobSpec => [](JobInv /\ Fresh /\ MotionInv)
  BY InvInit, InvNext, FreshInit, FreshNext, MotionInit, MotionNext, PTL DEF JobSpec

\* A job whose client has ended its input, or drops it, comes to rest in known ways only,
\* whatever the capacities; with a pipeline that has room for the results of one chunk,
\* the worker's retry loop is not one of them.
THEOREM JobStandstills == JobSpec => []StandstillsAreKnown
<1>1. JobInv /\ MotionInv => StandstillsAreKnown
  BY RestIsKnown, FeedBlockedBursts DEF StandstillsAreKnown
<1> QED BY <1>1, MotionInvariant, PTL

----------------------------------------------------------------------------
(* Effort.                                                                 *)

\* The efforts of the handle, the worker and the pipeline, place by place.
LEMMA PlaceEfforts ==
  /\ HandleEffort["live"] = ChunkEffort + 5 /\ HandleEffort["closing"] = ChunkEffort + 4
  /\ HandleEffort["dropped"] = 0
  /\ WorkerEffort["queued"] = 3 /\ WorkerEffort["read"] = 1
  /\ WorkerEffort["feed"] = ChunkEffort + 3 /\ WorkerEffort["drain"] = 2
  /\ WorkerEffort["push"] = 4 /\ WorkerEffort["ended"] = 0 /\ WorkerEffort["lost"] = 0
  /\ PipeEffort["running"] = 2 /\ PipeEffort["flushing"] = 1 /\ PipeEffort["finished"] = 0
  /\ ChunkEffort = 4 * Burst + 1 /\ ChunkEffort \in Nat
  BY DEF HandleEffort, WorkerEffort, PipeEffort, ChunkEffort

LEMMA PlaceTypes ==
  TypeOK => /\ HandleEffort[handle] \in Nat /\ WorkerEffort[wpc] \in Nat /\ PipeEffort[pipe] \in Nat
<1> SUFFICES ASSUME TypeOK
             PROVE  HandleEffort[handle] \in Nat /\ WorkerEffort[wpc] \in Nat /\ PipeEffort[pipe] \in Nat
  OBVIOUS
<1>1. HandleEffort[handle] \in Nat
  BY PlaceEfforts DEF TypeOK
<1>2. WorkerEffort[wpc] \in Nat
  <2>1. wpc \in {"queued", "read", "feed", "drain", "push", "ended", "lost"}
    BY DEF TypeOK, WorkerPc
  <2> QED BY <2>1, PlaceEfforts
<1>3. PipeEffort[pipe] \in Nat
  BY PlaceEfforts DEF TypeOK
<1> QED BY <1>1, <1>2, <1>3

\* What a buffer adds to the effort, or takes from it.
LEMMA BufferEffort ==
  ASSUME NEW s \in Seq(Nat), NEW c \in Nat
  PROVE  /\ Len(s) \in Nat /\ c * Len(s) \in Nat
         /\ \A x \in Nat : Len(Append(s, x)) = Len(s) + 1 /\ c * Len(Append(s, x)) = c * Len(s) + c
         /\ s # <<>> => Len(Tail(s)) = Len(s) - 1 /\ c * Len(Tail(s)) = c * Len(s) - c
<1>1. Len(s) \in Nat
  OBVIOUS
<1>2. \A n \in Nat : c * n \in Nat /\ c * (n + 1) = c * n + c /\ c * (n - 1) = c * n - c
  OBVIOUS
<1>3. \A x \in Nat : Len(Append(s, x)) = Len(s) + 1
  OBVIOUS
<1>4. s # <<>> => Len(Tail(s)) = Len(s) - 1
  OBVIOUS
<1> QED BY <1>1, <1>2, <1>3, <1>4

\* The effort is a number, and the sum of eight.
LEMMA EffortIsNat ==
  ASSUME TypeOK
  PROVE  /\ (ChunkEffort + 3) * Len(input) \in Nat /\ ChunkEffort * Len(pin) \in Nat
         /\ pend \in Nat /\ Len(pout) \in Nat /\ Len(output) \in Nat
         /\ HandleEffort[handle] \in Nat /\ WorkerEffort[wpc] \in Nat /\ PipeEffort[pipe] \in Nat
         /\ Effort \in Nat
<1>1. ChunkEffort \in Nat /\ ChunkEffort + 3 \in Nat
  BY PlaceEfforts
<1>2. input \in Seq(Nat) /\ output \in Seq(Nat) /\ pin \in Seq(Nat) /\ pout \in Seq(Nat) /\ pend \in Nat
  BY DEF TypeOK
<1>3. (ChunkEffort + 3) * Len(input) \in Nat /\ ChunkEffort * Len(pin) \in Nat
      /\ Len(pout) \in Nat /\ Len(output) \in Nat
  BY <1>1, <1>2, BufferEffort
<1>4. HandleEffort[handle] \in Nat /\ WorkerEffort[wpc] \in Nat /\ PipeEffort[pipe] \in Nat
  BY PlaceTypes
<1>5. PICK a \in Nat, b \in Nat, l \in Nat, o \in Nat, h \in Nat, w \in Nat, p \in Nat :
        /\ a = (ChunkEffort + 3) * Len(input) /\ b = ChunkEffort * Len(pin)
        /\ l = Len(pout) /\ o = Len(output)
        /\ h = HandleEffort[handle] /\ w = WorkerEffort[wpc] /\ p = PipeEffort[pipe]
  BY <1>3, <1>4
<1>6. Effort = a + b + 4 * pend + 3 * l + o + h + w + p
  BY <1>5 DEF Effort
<1> QED BY <1>2, <1>3, <1>4, <1>6

\* Each step takes from the effort that is left.
LEMMA EffortNext ==
  ASSUME JobInv, JobNext, InputEnded
  PROVE  Effort' < Effort
<1>0. TypeOK
  BY DEF JobInv
<1>1. /\ input \in Seq(Nat) /\ output \in Seq(Nat) /\ pin \in Seq(Nat) /\ pout \in Seq(Nat)
      /\ held \in Nat /\ produced \in Nat /\ EOF \in Nat
  BY <1>0, Buffers, EofNat
<1>2. PICK c \in Nat, k \in Nat : c = ChunkEffort /\ k = ChunkEffort + 3
  BY PlaceEfforts
<1>3. c = 4 * Burst + 1 /\ k = c + 3 /\ Burst \in Nat
  BY <1>2, PlaceEfforts
<1>4. PICK a \in Nat, b \in Nat, e \in Nat, l \in Nat, o \in Nat, h \in Nat, w \in Nat, p \in Nat :
        /\ a = k * Len(input) /\ b = c * Len(pin) /\ e = pend /\ l = Len(pout) /\ o = Len(output)
        /\ h = HandleEffort[handle] /\ w = WorkerEffort[wpc] /\ p = PipeEffort[pipe]
  BY <1>0, <1>2, EffortIsNat
<1>5. Effort = a + b + 4 * e + 3 * l + o + h + w + p
  BY <1>2, <1>4 DEF Effort
<1>6. Effort' = k * Len(input') + c * Len(pin') + 4 * pend' + 3 * Len(pout') + Len(output')
                + HandleEffort[handle'] + WorkerEffort[wpc'] + PipeEffort[pipe']
  BY <1>2 DEF Effort, ChunkEffort, HandleEffort, WorkerEffort, PipeEffort
\* the buffers, longer or shorter by one
<1>7. /\ \A x \in Nat : k * Len(Append(input, x)) = a + k
      /\ input # <<>> => k * Len(Tail(input)) = a - k
  BY <1>1, <1>4, BufferEffort
<1>8. /\ \A x \in Nat : c * Len(Append(pin, x)) = b + c
      /\ pin # <<>> => c * Len(Tail(pin)) = b - c
  BY <1>1, <1>4, BufferEffort
<1>9. /\ \A x \in Nat : Len(Append(pout, x)) = l + 1
      /\ pout # <<>> => Len(Tail(pout)) = l - 1
      /\ \A x \in Nat : Len(Append(output, x)) = o + 1
      /\ output # <<>> => Len(Tail(output)) = o - 1
  BY <1>1, <1>4
<1>10. ~SendChunk /\ ~SendEof
  BY DEF InputEnded, SendChunk, SendEof
<1>11. CASE Recv
  <2>1. UNCHANGED <<input, pin, pend, pout, handle, wpc, pipe>>
    BY <1>11 DEF Recv, workerVars, pipeVars
  <2>2. /\ Len(output') = o - 1
    BY <1>11, <1>9 DEF Recv, workerVars, pipeVars
  <2>3. Effort' = a + b + 4 * e + 3 * l + (o - 1) + h + w + p
    BY <1>4, <1>6, <2>1, <2>2
  <2> QED BY <1>3, <1>5, <2>2, <2>3
<1>12. CASE DropBegin
  <2>1. UNCHANGED <<input, pin, pend, pout, output, wpc, pipe>>
    BY <1>12 DEF DropBegin, workerVars, pipeVars
  <2>2. /\ HandleEffort[handle'] = c + 4
        /\ h = c + 5
    BY <1>12, <1>2, <1>4, PlaceEfforts DEF DropBegin, workerVars, pipeVars
  <2>3. Effort' = a + b + 4 * e + 3 * l + o + (c + 4) + w + p
    BY <1>4, <1>6, <2>1, <2>2
  <2> QED BY <1>3, <1>5, <2>2, <2>3
<1>13. CASE DropEnd
  <2>1. UNCHANGED <<pin, pend, pout, wpc, pipe>>
    BY <1>13 DEF DropEnd, workerVars, pipeVars
  <2>2. /\ Len(output') = 0
        /\ HandleEffort[handle'] = 0
        /\ h = c + 4
    BY <1>2, <1>4, <1>13, PlaceEfforts DEF DropEnd
  <2>3. k * Len(input') = a \/ k * Len(input') = a + k
    BY <1>1, <1>4, <1>7, <1>13 DEF DropEnd
  <2>4. PICK z \in Nat : z = k * Len(input') /\ z <= a + k
    BY <2>3
  <2>5. Effort' = z + b + 4 * e + 3 * l + 0 + 0 + w + p
    BY <1>4, <1>6, <2>1, <2>2, <2>4
  <2> QED BY <1>3, <1>5, <2>2, <2>4, <2>5
<1>14. CASE TakeJob
  <2>1. UNCHANGED <<input, pin, pend, pout, output, handle, pipe>>
    BY <1>14 DEF TakeJob, clientVars, pipeVars
  <2>2. /\ WorkerEffort[wpc'] = 1
        /\ w = 3
    BY <1>14, <1>4, PlaceEfforts DEF TakeJob, clientVars, pipeVars
  <2>3. Effort' = a + b + 4 * e + 3 * l + o + h + 1 + p
    BY <1>4, <1>6, <2>1, <2>2
  <2> QED BY <1>3, <1>5, <2>2, <2>3
<1>15. CASE Discard
  <2>1. UNCHANGED <<input, pin, pend, pout, output, handle, pipe>>
    BY <1>15 DEF Discard, clientVars, pipeVars
  <2>2. /\ WorkerEffort[wpc'] = 0
        /\ w = 3
    BY <1>15, <1>4, PlaceEfforts DEF Discard, clientVars, pipeVars
  <2>3. Effort' = a + b + 4 * e + 3 * l + o + h + 0 + p
    BY <1>4, <1>6, <2>1, <2>2
  <2> QED BY <1>3, <1>5, <2>2, <2>3
<1>16. CASE ReadChunk
  <2>1. UNCHANGED <<pin, pend, pout, output, handle, pipe>>
    BY <1>16 DEF ReadChunk, clientVars, pipeVars
  <2>2. /\ k * Len(input') = a - k
        /\ WorkerEffort[wpc'] = c + 3
        /\ w = 1
    BY <1>16, <1>2, <1>4, <1>7, PlaceEfforts DEF ReadChunk, clientVars, pipeVars
  <2>3. Effort' = (a - k) + b + 4 * e + 3 * l + o + h + (c + 3) + p
    BY <1>4, <1>6, <2>1, <2>2
  <2> QED BY <1>3, <1>5, <2>2, <2>3
<1>17. CASE FeedPipeline
  <2>1. UNCHANGED <<input, pend, pout, output, handle, pipe>>
    BY <1>17 DEF FeedPipeline, clientVars
  <2>2. /\ c * Len(pin') = b + c
        /\ WorkerEffort[wpc'] = 2
        /\ w = c + 3
    BY <1>17, <1>1, <1>2, <1>4, <1>8, PlaceEfforts DEF FeedPipeline, clientVars
  <2>3. Effort' = a + (b + c) + 4 * e + 3 * l + o + h + 2 + p
    BY <1>4, <1>6, <2>1, <2>2
  <2> QED BY <1>3, <1>5, <2>2, <2>3
<1>18. ~ReadNothing
  BY DEF ReadNothing, JobInv, EofAhead, WorkerInv, Over
<1>19. CASE ReadEof
  <2>1. UNCHANGED <<pend, pout, output, handle, pipe>>
    BY <1>19 DEF ReadEof, clientVars
  <2>2. /\ k * Len(input') = a - k
        /\ WorkerEffort[wpc'] = 2
        /\ w = 1
    BY <1>4, <1>7, <1>19, PlaceEfforts DEF ReadEof, JobInv, EofAhead, WorkerInv, Over
  <2>3. c * Len(pin') = b \/ c * Len(pin') = b + c
    BY <1>1, <1>4, <1>8, <1>19 DEF ReadEof, OfferEof
  <2>4. PICK z \in Nat : z = c * Len(pin') /\ z <= b + c
    BY <2>3
  <2>5. Effort' = (a - k) + z + 4 * e + 3 * l + o + h + 2 + p
    BY <1>4, <1>6, <2>1, <2>2, <2>4
  <2> QED BY <1>3, <1>5, <2>2, <2>4, <2>5
<1>20. CASE TakeResult
  <2>1. UNCHANGED <<input, pin, pend, output, handle, pipe>>
    BY <1>20 DEF TakeResult, clientVars
  <2>2. /\ Len(pout') = l - 1
        /\ WorkerEffort[wpc'] = 4
        /\ w = 2
    BY <1>20, <1>4, <1>9, PlaceEfforts DEF TakeResult, clientVars
  <2>3. Effort' = a + b + 4 * e + 3 * (l - 1) + o + h + 4 + p
    BY <1>4, <1>6, <2>1, <2>2
  <2> QED BY <1>3, <1>5, <2>2, <2>3
<1>21. CASE PushResult
  <2>1. UNCHANGED <<input, pin, pend, pout, handle, pipe>>
    BY <1>21 DEF PushResult, clientVars, pipeVars
  <2>2. /\ Len(output') = o + 1
        /\ WorkerEffort[wpc'] = 2
        /\ w = 4
    BY <1>21, <1>1, <1>4, <1>9, PlaceEfforts DEF PushResult, clientVars, pipeVars
  <2>3. Effort' = a + b + 4 * e + 3 * l + (o + 1) + h + 2 + p
    BY <1>4, <1>6, <2>1, <2>2
  <2> QED BY <1>3, <1>5, <2>2, <2>3
<1>22. CASE Abort
  <2>1. UNCHANGED <<input, pin, pend, pout, output, handle, pipe>>
    BY <1>22 DEF Abort, clientVars, pipeVars
  <2>2. /\ WorkerEffort[wpc'] = 0
        /\ w = 4
    BY <1>22, <1>4, PlaceEfforts DEF Abort, clientVars, pipeVars
  <2>3. Effort' = a + b + 4 * e + 3 * l + o + h + 0 + p
    BY <1>4, <1>6, <2>1, <2>2
  <2> QED BY <1>3, <1>5, <2>2, <2>3
<1>23. CASE NextTurn
  <2>1. UNCHANGED <<input, pin, pend, pout, output, handle, pipe>>
    BY <1>23 DEF NextTurn, clientVars, pipeVars
  <2>2. /\ WorkerEffort[wpc'] = 1
        /\ w = 2
    BY <1>23, <1>4, PlaceEfforts DEF NextTurn, clientVars, pipeVars
  <2>3. Effort' = a + b + 4 * e + 3 * l + o + h + 1 + p
    BY <1>4, <1>6, <2>1, <2>2
  <2> QED BY <1>3, <1>5, <2>2, <2>3
<1>24. CASE EndJob
  <2>1. UNCHANGED <<input, pin, pend, pout, output, handle, pipe>>
    BY <1>24 DEF EndJob, clientVars, pipeVars
  <2>2. /\ WorkerEffort[wpc'] = 0
        /\ w = 2
    BY <1>24, <1>4, PlaceEfforts DEF EndJob, clientVars, pipeVars
  <2>3. Effort' = a + b + 4 * e + 3 * l + o + h + 0 + p
    BY <1>4, <1>6, <2>1, <2>2
  <2> QED BY <1>3, <1>5, <2>2, <2>3
<1>25. CASE PipeTake
  <2>1. UNCHANGED <<input, pout, output, handle, wpc>>
    BY <1>25 DEF PipeTake, clientVars, workerVars
  <2>2. c * Len(pin') = b - c /\ e = 0
    BY <1>4, <1>8, <1>25 DEF PipeTake
  <2>3. PipeEffort[pipe'] \in {1, 2} /\ p = 2
    BY <1>4, <1>25, PlaceEfforts DEF PipeTake
  <2>4. PICK y \in 0..Burst, z \in {1, 2} : y = pend' /\ z = PipeEffort[pipe']
    <3>1. pend' \in 0..Burst
      BY <1>25 DEF PipeTake
    <3> QED BY <2>3, <3>1
  <2>5. Effort' = a + (b - c) + 4 * y + 3 * l + o + h + w + z
    BY <1>4, <1>6, <2>1, <2>2, <2>4
  <2>6. y \in Nat /\ z \in Nat /\ 4 * y < c /\ z <= p
    BY <1>3, <2>3
  <2> QED BY <1>5, <2>2, <2>5, <2>6
<1>26. CASE PipeEmit
  <2>1. UNCHANGED <<input, pin, output, handle, wpc, pipe>>
    BY <1>26 DEF PipeEmit, clientVars, workerVars
  <2>2. /\ pend' = e - 1
        /\ Len(pout') = l + 1
    BY <1>26, <1>1, <1>4, <1>9 DEF PipeEmit, clientVars, workerVars
  <2>3. Effort' = a + b + 4 * (e - 1) + 3 * (l + 1) + o + h + w + p
    BY <1>4, <1>6, <2>1, <2>2
  <2> QED BY <1>3, <1>5, <2>2, <2>3
<1>27. CASE PipeFinish
  <2>1. UNCHANGED <<input, pin, pend, pout, output, handle, wpc>>
    BY <1>27 DEF PipeFinish, clientVars, workerVars
  <2>2. /\ PipeEffort[pipe'] = 0
        /\ p = 1
    BY <1>27, <1>4, PlaceEfforts DEF PipeFinish, clientVars, workerVars
  <2>3. Effort' = a + b + 4 * e + 3 * l + o + h + w + 0
    BY <1>4, <1>6, <2>1, <2>2
  <2> QED BY <1>3, <1>5, <2>2, <2>3
<1> QED
  BY <1>10, <1>11, <1>12, <1>13, <1>14, <1>15, <1>16, <1>17, <1>18, <1>19, <1>20, <1>21,
     <1>22, <1>23, <1>24, <1>25, <1>26, <1>27 DEF JobNext, Backend, Client, Worker, Pipeline

LEMMA EffortTypes == (JobInv => Effort \in Nat) /\ (JobInv => Effort \in Nat)'
<1>1. JobInv => Effort \in Nat
  BY EffortIsNat DEF JobInv
<1>2. (JobInv => Effort \in Nat)'
  BY <1>1, PTL
<1> QED BY <1>1, <1>2

\* The effort of a job whose owner goes on, with the job or without it.
LEMMA EffortStep ==
  ASSUME JobInv, JobInv', [JobNext]_jobVars, InputEnded
  PROVE  /\ Effort \in Nat /\ Effort' \in Nat
         /\ Effort' < Effort \/ (Effort' = Effort /\ UNCHANGED jobVars)
<1>1. UNCHANGED jobVars => Effort' = Effort
  BY DEF jobVars, clientVars, workerVars, pipeVars, Effort
<1> QED BY <1>1, EffortTypes, EffortNext

\* Once the client has ended its input, the steps of a job are numbered, and by Effort.
THEOREM JobEffortFalls == JobSpec => EffortFalls
<1>1. JobInv /\ [JobNext]_jobVars => [InputEnded => Effort' < Effort]_jobVars
  BY EffortNext
<1> QED BY <1>1, JobInvariant, PTL DEF JobSpec, EffortFalls
=============================================================================
