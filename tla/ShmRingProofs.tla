--------------------------- MODULE ShmRingProofs ---------------------------
(***************************************************************************)
(* Proofs about ShmRing: its reads are whole and never go back, for every  *)
(* number of writes, words and tries.                                      *)
(*                                                                         *)
(* Write number f goes to slot 0 when f is odd and to slot 1 when it is    *)
(* even, and each write to a slot, completed or not, takes its sequence    *)
(* number to the next even number but one.  So the number of writes fixes  *)
(* both sequence numbers (Counted), and a sequence number fixes the frame. *)
(*                                                                         *)
(* The last parts are about a camera that fills such a ring (CloudPublisher*)
(* which cloud may go into which ring, for any cameras and configurations, *)
(* and about the engine that reads it (ScanFeed): no revolution is matched *)
(* twice while the lidar turns, for any ages allowed.                      *)
(***************************************************************************)
EXTENDS ShmRing, CloudPublisher, ScanFeed, TLAPS

\* The number slot s has when its last write is completed.
Due(s) == IF Odd(seq[s]) THEN seq[s] + 1 ELSE seq[s]

\* The frame in slot s under the even number n.
FrameOf(s, n) == IF s = 0 THEN n - 1 ELSE n

Complete(s) == ~Odd(seq[s]) /\ seq[s] # 0

\* Frame f is where it was written, or two writes have begun since.
Kept(f) ==
    \/ f = 0
    \/ writes >= f + 2
    \/ Odd(f) /\ writes >= f /\ seq[0] = f + 1
    \/ ~Odd(f) /\ writes >= f /\ seq[1] = f

Counted ==
    \/ next = 0 /\ Due(0) = writes /\ Due(1) = writes
    \/ next = 1 /\ Due(0) = writes + 1 /\ Due(1) = writes - 1

Whole ==
    \A s \in Slots : Complete(s) =>
        /\ FrameOf(s, seq[s]) \in frames
        /\ \A w \in Words : data[s][w] = FrameOf(s, seq[s])

Writing ==
    write.on =>
        /\ writes > newest
        /\ Odd(seq[Target])
        /\ \A w \in Words : w \notin write.todo => data[Target][w] = writes

Newest == newest <= writes /\ Kept(newest)

WriterInv == Counted /\ Whole /\ Writing /\ Newest

\* What the scan has seen of a slot, now or earlier.
Seen ==
    best.slot # NoSlot =>
        /\ ~Odd(best.seq)
        /\ best.seq # 0
        /\ best.seq <= seq[best.slot]

Changed == best.slot # NoSlot /\ seq[best.slot] # best.seq

\* Half way through the scan: if the newest frame of the beginning is in slot
\* 0, the scan has found it.
HalfScanned ==
    pc = "peek1" =>
        /\ best.slot \in {0, NoSlot}
        /\ floor # 0 /\ Odd(floor) /\ seq[0] = floor + 1
             => best.slot = 0 /\ best.seq = floor + 1

\* What has been copied is the frame, unless the slot has changed since.
Copying ==
    pc \in {"copy", "check"} =>
        /\ best.slot # NoSlot
        /\ ~Changed =>
             /\ FrameOf(best.slot, best.seq) >= floor
             /\ \A w \in copy.done : copy.word[w] = FrameOf(best.slot, best.seq)

Outrun ==
    /\ tries + began <= writes
    /\ pc # "idle" /\ Changed => tries + 1 + began <= writes

ReaderInv ==
    /\ floor <= newest
    /\ Kept(floor)
    /\ pc = "peek0" => best.slot = NoSlot
    /\ best.slot = NoSlot => best.seq = 0
    /\ pc # "idle" => tries < Retries
    /\ pc = "check" => copy.done = Words
    /\ Seen
    /\ HalfScanned
    /\ Copying
    /\ Outrun

IInv == TypeOK /\ WriterInv /\ ReaderInv

-----------------------------------------------------------------------------
(* The writer.  A write that begins changes the number of one slot only, and *)
(* neither number ever goes back.                                            *)

\* The facts the reader's invariant needs of any step of the writer.
Grows ==
    /\ \A s \in Slots : seq'[s] >= seq[s]
    /\ \A s \in Slots : Complete(s) /\ seq'[s] = seq[s] => data'[s] = data[s]
    /\ \A s \in Slots : Complete(s) /\ seq'[s] # seq[s] => writes' > writes
    /\ writes' >= writes
    /\ newest' >= newest

LEMMA InitInv == Init => IInv
<1> SUFFICES ASSUME Init PROVE IInv
    OBVIOUS
<1>1. TypeOK
    BY RingAssumption DEF Init, TypeOK, Slots, Nothing, Idle, NoSlot
<1>2. WriterInv
    BY DEF Init, WriterInv, Counted, Whole, Writing, Newest, Due, Odd, Complete,
           Kept, Slots, Idle
<1>3. ReaderInv
    BY RingAssumption
    DEF Init, ReaderInv, Seen, HalfScanned, Copying, Outrun, Changed, Kept, NoSlot
<1> QED
    BY <1>1, <1>2, <1>3 DEF IInv

\* A new write takes the number of its slot to one above the other's, or two.
LEMMA BeginWriteStep ==
    ASSUME TypeOK, WriterInv, BeginWrite
    PROVE  TypeOK' /\ WriterInv' /\ Grows
<1>1. /\ next \in {0, 1} /\ seq \in [{0, 1} -> Nat] /\ writes \in Nat
      /\ seq' = [seq EXCEPT ![next] = IF Odd(@) THEN @ + 2 ELSE @ + 1]
    BY DEF TypeOK, Slots, BeginWrite
<1>2. /\ Odd(seq'[next])
      /\ seq'[next] = Due(next) + 1
      /\ seq'[1 - next] = seq[1 - next]
    BY <1>1 DEF Odd, Due
<1>3. /\ Due(0)' = IF next = 0 THEN Due(0) + 2 ELSE Due(0)
      /\ Due(1)' = IF next = 1 THEN Due(1) + 2 ELSE Due(1)
    BY <1>1, <1>2 DEF Odd, Due
<1>4. TypeOK'
    BY <1>1 DEF TypeOK, BeginWrite, Slots, Odd, readerVars
<1>5. Counted'
  <2>1. Due(0) \in Nat /\ Due(1) \in Nat /\ Counted
      BY <1>1 DEF Due, WriterInv
  <2>2. next' = 1 - next /\ writes' = writes + 1
      BY DEF BeginWrite
  <2>3. CASE next = 0
      BY <1>1, <1>3, <2>1, <2>2, <2>3 DEF Counted
  <2>4. CASE next = 1
      BY <1>1, <1>3, <2>1, <2>2, <2>4 DEF Counted
  <2> QED
      BY <1>1, <2>3, <2>4
<1>6. Whole'
    BY <1>1, <1>2 DEF WriterInv, Whole, Complete, FrameOf, BeginWrite, Slots
<1>7. Writing'
    BY <1>1, <1>2 DEF WriterInv, Writing, Newest, BeginWrite, Target, TypeOK
<1>8. Newest'
    BY <1>1, <1>2
    DEF WriterInv, Newest, Kept, Counted, BeginWrite, TypeOK, Odd, Due
<1>9. Grows
    BY <1>1 DEF Grows, BeginWrite, Odd, Slots, TypeOK
<1> QED
    BY <1>4, <1>5, <1>6, <1>7, <1>8, <1>9 DEF WriterInv

LEMMA WriteWordStep ==
    ASSUME TypeOK, WriterInv, NEW v \in Words, WriteWord(v)
    PROVE  TypeOK' /\ WriterInv' /\ Grows
<1>1. /\ Target \in Slots /\ Odd(seq[Target]) /\ seq' = seq /\ writes' = writes
      /\ data' = [data EXCEPT ![Target][v] = writes]
      /\ data \in [Slots -> [Words -> Nat]]
    BY DEF TypeOK, Slots, WriteWord, Target, WriterInv, Writing
<1>2. \A s \in Slots : Complete(s) => data'[s] = data[s]
    BY <1>1 DEF Complete
<1>3. data' \in [Slots -> [Words -> Nat]]
  <2>1. [data[Target] EXCEPT ![v] = writes] \in [Words -> Nat]
      BY <1>1 DEF TypeOK
  <2> QED
      BY <1>1, <2>1
<1>4. TypeOK'
    BY <1>1, <1>3 DEF TypeOK, WriteWord, readerVars
<1>5. Counted'
    BY DEF WriterInv, Counted, WriteWord, Due
<1>6. Whole'
    BY <1>1, <1>2 DEF WriterInv, Whole, Complete, FrameOf, WriteWord
<1>7. Writing'
    BY <1>1 DEF WriterInv, Writing, WriteWord, Target
<1>8. Newest'
    BY DEF WriterInv, Newest, Kept, WriteWord
<1>9. Grows
    BY <1>1, <1>2 DEF Grows, WriteWord, TypeOK
<1> QED
    BY <1>4, <1>5, <1>6, <1>7, <1>8, <1>9 DEF WriterInv

LEMMA EndWriteStep ==
    ASSUME TypeOK, WriterInv, EndWrite
    PROVE  TypeOK' /\ WriterInv' /\ Grows
<1>1. /\ next \in {0, 1} /\ Target \in {0, 1} /\ seq \in [{0, 1} -> Nat]
      /\ writes \in Nat /\ Odd(seq[Target])
      /\ seq' = [seq EXCEPT ![Target] = @ + 1]
      /\ \A w \in Words : data[Target][w] = writes
    BY DEF TypeOK, Slots, EndWrite, Target, WriterInv, Writing
<1>2. /\ ~Odd(seq'[Target])
      /\ \A s \in Slots : Due(s)' = Due(s)
      /\ FrameOf(Target, seq'[Target]) = writes
    BY <1>1 DEF Odd, Due, FrameOf, Target, WriterInv, Counted, Slots
<1>3. TypeOK'
    BY <1>1 DEF TypeOK, EndWrite, Slots, Idle, readerVars
<1>4. Counted'
    BY <1>2 DEF WriterInv, Counted, EndWrite, Slots
<1>5. Whole'
    BY <1>1, <1>2 DEF WriterInv, Whole, Complete, FrameOf, EndWrite, Slots, Target
<1>6. Writing'
    BY DEF Writing, EndWrite, Idle
<1>7. Newest'
    BY <1>1, <1>2 DEF Newest, Kept, EndWrite, WriterInv, Counted, Due, Odd, Target, FrameOf
<1>8. Grows
    BY <1>1 DEF Grows, EndWrite, Slots, TypeOK, WriterInv, Writing, Complete, Odd
<1> QED
    BY <1>3, <1>4, <1>5, <1>6, <1>7, <1>8 DEF WriterInv

LEMMA FailWriteStep ==
    ASSUME TypeOK, WriterInv, FailWrite
    PROVE  TypeOK' /\ WriterInv' /\ Grows
<1>1. TypeOK'
    BY DEF TypeOK, FailWrite, Idle, readerVars
<1>2. WriterInv'
    BY DEF WriterInv, Counted, Whole, Writing, Newest, Kept, FailWrite, Due,
           Complete, Idle
<1>3. Grows
    BY DEF Grows, FailWrite, TypeOK
<1> QED
    BY <1>1, <1>2, <1>3

\* A frame that was complete stays where it is, or two writes begin.
LEMMA KeptStays ==
    ASSUME TypeOK, WriterInv, WriterNext, Kept(floor), floor <= newest
    PROVE  Kept(floor)'
<1>1. /\ floor' = floor /\ floor \in Nat /\ newest \in Nat /\ writes \in Nat
      /\ next \in {0, 1} /\ seq \in [{0, 1} -> Nat] /\ newest <= writes
    BY DEF TypeOK, Slots, WriterNext, BeginWrite, WriteWord, EndWrite, FailWrite,
           readerVars, WriterInv, Newest
<1>2. CASE BeginWrite
    BY <1>1, <1>2 DEF BeginWrite, Kept, WriterInv, Counted, Due, Odd
<1>3. CASE \E w \in Words : WriteWord(w)
    BY <1>1, <1>3 DEF WriteWord, Kept
<1>4. CASE EndWrite
    BY <1>1, <1>4 DEF EndWrite, Kept, WriterInv, Writing, Target, Odd
<1>5. CASE FailWrite
    BY <1>1, <1>5 DEF FailWrite, Kept
<1> QED
    BY <1>2, <1>3, <1>4, <1>5 DEF WriterNext

-----------------------------------------------------------------------------
(* The reader, while the writer writes. *)

LEMMA ReaderUnderWriter ==
    ASSUME IInv, WriterNext, Grows, WriterInv'
    PROVE  ReaderInv'
<1>1. UNCHANGED readerVars
    BY DEF WriterNext, BeginWrite, WriteWord, EndWrite, FailWrite
<1>2. /\ seq \in [Slots -> Nat] /\ floor \in Nat /\ newest \in Nat /\ writes \in Nat
      /\ seq' \in [Slots -> Nat] /\ writes' \in Nat /\ newest' \in Nat
      /\ best \in [slot : Slots \cup {NoSlot}, seq : Nat]
      /\ tries \in Nat /\ began \in Nat
    <2>1. TypeOK'
        BY BeginWriteStep, WriteWordStep, EndWriteStep, FailWriteStep
        DEF IInv, WriterNext
    <2> QED
        BY <2>1, RingAssumption DEF TypeOK, IInv
<1>3. floor' <= newest' /\ Kept(floor)'
    BY <1>1, <1>2, KeptStays DEF IInv, ReaderInv, Grows, readerVars
<1>4. Seen'
    BY <1>1, <1>2 DEF IInv, ReaderInv, Seen, Grows, readerVars, Slots, NoSlot
<1>5. Changed /\ best.slot # NoSlot => Changed'
    BY <1>1, <1>2 DEF IInv, ReaderInv, Seen, Changed, Grows, readerVars
<1>6. HalfScanned'
  <2>1. ASSUME floor # 0, Odd(floor), seq'[0] = floor + 1
        PROVE  seq[0] = floor + 1
    <3>1. seq[0] \in Nat /\ seq'[0] \in Nat /\ Kept(floor)
        BY <1>2 DEF Slots, IInv, ReaderInv
    <3>2. writes' <= Due(0)'
        BY <1>2 DEF WriterInv, Counted
    <3>3. Due(0)' = floor + 1
        BY <1>2, <2>1 DEF Due, Odd
    <3> QED
        BY <1>2, <2>1, <3>1, <3>2, <3>3 DEF Kept, Grows
  <2> QED
      BY <1>1, <2>1 DEF IInv, ReaderInv, HalfScanned, readerVars
<1>7. Copying'
    BY <1>1, <1>2, <1>5 DEF IInv, ReaderInv, Copying, readerVars, Changed
<1>8. Outrun'
    BY <1>1, <1>2 DEF IInv, ReaderInv, Outrun, Changed, readerVars, Grows, Seen, Complete
<1> QED
    BY <1>1, <1>3, <1>4, <1>6, <1>7, <1>8 DEF IInv, ReaderInv, readerVars

LEMMA WriterKeeps == ASSUME IInv, WriterNext PROVE IInv'
<1>1. TypeOK' /\ WriterInv' /\ Grows
    BY BeginWriteStep, WriteWordStep, EndWriteStep, FailWriteStep DEF IInv, WriterNext
<1> QED
    BY <1>1, ReaderUnderWriter DEF IInv

-----------------------------------------------------------------------------
(* The reader's own steps. *)

LEMMA WriterRests == ASSUME IInv, UNCHANGED writerVars PROVE WriterInv'
BY DEF IInv, WriterInv, writerVars, Counted, Whole, Writing, Newest, Kept, Due,
       Complete, Target

LEMMA BeginReadKeeps == ASSUME IInv, BeginRead PROVE IInv'
<1>1. TypeOK' /\ WriterInv'
    BY WriterRests, RingAssumption DEF IInv, TypeOK, BeginRead, writerVars, NoSlot
<1>2. Kept(floor)' /\ floor' <= newest'
    BY DEF IInv, WriterInv, Newest, Kept, BeginRead, writerVars, TypeOK
<1> QED
    BY <1>1, <1>2, RingAssumption
    DEF IInv, ReaderInv, BeginRead, Seen, HalfScanned, Copying, Outrun, Changed,
        TypeOK, writerVars, NoSlot

LEMMA Peek0Keeps == ASSUME IInv, Peek0 PROVE IInv'
<1>1. TypeOK' /\ WriterInv'
    BY WriterRests DEF IInv, TypeOK, Peek0, Peek, writerVars, Slots
<1>2. /\ best = [slot |-> NoSlot, seq |-> 0]
      /\ seq[0] \in Nat /\ floor \in Nat
    BY DEF IInv, ReaderInv, Peek0, TypeOK, Slots
<1>3. /\ Better(0) => best' = [slot |-> 0, seq |-> seq[0]]
      /\ ~Better(0) => best' = best
      /\ UNCHANGED <<writerVars, copy, tries, got, floor, began>>
      /\ pc = "peek0" /\ pc' = "peek1"
    BY DEF Peek0, Peek
<1>4. ~Changed'
    BY <1>2, <1>3 DEF Changed, writerVars
<1>5. Seen'
    BY <1>2, <1>3 DEF Seen, writerVars, Better
<1>6. HalfScanned' /\ (best'.slot = NoSlot => best'.seq = 0)
    BY <1>2, <1>3 DEF HalfScanned, writerVars, Better, Odd, NoSlot
<1>7. Outrun' /\ Copying'
    BY <1>3, <1>4 DEF IInv, ReaderInv, Outrun, Copying, writerVars
<1>8. Kept(floor)' /\ floor' <= newest' /\ tries' < Retries
    BY <1>3 DEF IInv, ReaderInv, Kept, writerVars
<1> QED
    BY <1>1, <1>3, <1>5, <1>6, <1>7, <1>8 DEF IInv, ReaderInv

\* The heart of the matter: what the scan settles on is not older than what
\* was complete when the read began.
LEMMA ScanIsFresh ==
    ASSUME IInv, Peek1, best'.slot # NoSlot, seq[best'.slot] = best'.seq
    PROVE  FrameOf(best'.slot, best'.seq) >= floor
<1>1. /\ seq[0] \in Nat /\ seq[1] \in Nat /\ floor \in Nat /\ writes \in Nat
      /\ newest \in Nat /\ floor <= writes /\ Kept(floor) /\ Counted /\ Seen
      /\ best \in [slot : Slots \cup {NoSlot}, seq : Nat]
      /\ best.slot \in {0, NoSlot} /\ pc = "peek1"
    BY DEF IInv, ReaderInv, WriterInv, Newest, TypeOK, Slots, HalfScanned, Peek1
<1>2. CASE Better(1)
  <2>1. best' = [slot |-> 1, seq |-> seq[1]]
      BY <1>2 DEF Peek1, Peek
  <2>2. ~Odd(seq[1]) /\ seq[1] # 0 /\ seq[1] >= best.seq
      BY <1>2 DEF Better
  <2>3. floor <= seq[1] + 1
      BY <1>1, <2>2 DEF Counted, Due
  <2>4. floor # seq[1] + 1
    <3> SUFFICES ASSUME floor = seq[1] + 1 PROVE FALSE
        OBVIOUS
    <3>1. Odd(floor) /\ writes < floor + 2
        BY <1>1, <2>2 DEF Odd, Counted, Due
    <3>2. seq[0] = floor + 1
        BY <1>1, <3>1 DEF Kept
    <3>3. best.seq = floor + 1
        BY <1>1, <3>1, <3>2 DEF IInv, ReaderInv, HalfScanned
    <3> QED
        BY <1>1, <2>2, <3>3
  <2> QED
      BY <1>1, <2>1, <2>3, <2>4 DEF FrameOf
<1>3. CASE ~Better(1)
  <2>1. best' = best /\ best.slot = 0 /\ seq[0] = best.seq
      BY <1>1, <1>3 DEF Peek1, Peek
  <2>2. ~Odd(seq[0]) /\ seq[0] # 0
      BY <1>1, <2>1 DEF Seen, NoSlot
  <2>3. floor <= seq[0]
      BY <1>1, <2>2 DEF Counted, Due
  <2>4. floor # seq[0]
    <3> SUFFICES ASSUME floor = seq[0] PROVE FALSE
        OBVIOUS
    <3>1. ~Odd(floor) /\ floor # 0 /\ writes < floor + 2
        BY <1>1, <2>2 DEF Counted, Due
    <3>2. seq[1] = floor
        BY <1>1, <3>1 DEF Kept
    <3> QED
        BY <1>1, <1>3, <2>1, <3>1, <3>2 DEF Better
  <2> QED
      BY <1>1, <2>1, <2>3, <2>4 DEF FrameOf
<1> QED
    BY <1>2, <1>3

LEMMA Peek1Keeps == ASSUME IInv, Peek1 PROVE IInv'
<1>1. TypeOK' /\ WriterInv'
    BY WriterRests DEF IInv, TypeOK, Peek1, Peek, writerVars, Slots, Nothing
<1>2. /\ seq[1] \in Nat /\ seq \in [Slots -> Nat]
      /\ best \in [slot : Slots \cup {NoSlot}, seq : Nat]
      /\ ReaderInv
    BY DEF IInv, TypeOK, Slots
<1>3. /\ Better(1) => best' = [slot |-> 1, seq |-> seq[1]]
      /\ ~Better(1) => best' = best
      /\ UNCHANGED <<writerVars, tries, got, floor, began>>
      /\ copy'.done = {}
      /\ pc = "peek1"
      /\ pc' = IF best'.slot = NoSlot THEN "idle" ELSE "copy"
    BY DEF Peek1, Peek
<1>4. Seen' /\ (best'.slot = NoSlot => best'.seq = 0)
    BY <1>2, <1>3 DEF ReaderInv, Seen, writerVars, Better, NoSlot
<1>5. Changed' => Changed
    BY <1>2, <1>3 DEF Changed, writerVars
<1>6. Outrun'
    BY <1>2, <1>3, <1>5 DEF ReaderInv, Outrun, writerVars
<1>7. Copying'
    BY <1>1, <1>2, <1>3, ScanIsFresh DEF Copying, Changed, writerVars, IInv
<1>8. Kept(floor)'
    BY <1>2, <1>3 DEF ReaderInv, Kept, writerVars
<1>9. HalfScanned'
    BY <1>3 DEF HalfScanned
<1> QED
    BY <1>1, <1>2, <1>3, <1>4, <1>6, <1>7, <1>8, <1>9
    DEF IInv, ReaderInv, writerVars

\* While a slot is unchanged it holds the frame of its number.
LEMMA CopyWordKeeps == ASSUME IInv, NEW v \in Words, CopyWord(v) PROVE IInv'
<1>1. TypeOK' /\ WriterInv'
    <2>1. best.slot \in Slots
        BY DEF IInv, TypeOK, ReaderInv, Copying, CopyWord
    <2>2. data[best.slot][v] \in Nat
        BY <2>1 DEF IInv, TypeOK
    <2> QED
        BY <2>2, WriterRests DEF IInv, TypeOK, CopyWord, writerVars
<1>2. /\ UNCHANGED <<writerVars, pc, best, tries, got, floor, began>>
      /\ pc = "copy"
      /\ copy'.done = copy.done \cup {v}
      /\ copy'.word = [copy.word EXCEPT ![v] = data[best.slot][v]]
      /\ copy.word \in [Words -> Nat]
      /\ copy.done \in SUBSET Words
    BY DEF CopyWord, IInv, TypeOK
<1>3. ~Changed => data[best.slot][v] = FrameOf(best.slot, best.seq)
  <2> SUFFICES ASSUME ~Changed
               PROVE  data[best.slot][v] = FrameOf(best.slot, best.seq)
      OBVIOUS
  <2>1. best.slot \in Slots /\ seq[best.slot] = best.seq /\ Complete(best.slot)
      BY <1>2 DEF IInv, TypeOK, ReaderInv, Copying, Changed, Seen, Complete
  <2> QED
      BY <2>1 DEF IInv, WriterInv, Whole
<1>4. Copying'
    BY <1>2, <1>3 DEF IInv, ReaderInv, Copying, Changed, writerVars
<1> QED
    BY <1>1, <1>2, <1>4
    DEF IInv, ReaderInv, Seen, HalfScanned, Outrun, Changed, Kept, writerVars

LEMMA CopyDoneKeeps == ASSUME IInv, CopyDone PROVE IInv'
<1>1. TypeOK' /\ WriterInv'
    BY WriterRests DEF IInv, TypeOK, CopyDone, writerVars
<1> QED
    BY <1>1
    DEF IInv, ReaderInv, CopyDone, Seen, HalfScanned, Copying, Outrun, Changed,
        Kept, writerVars

LEMMA CheckTornKeeps == ASSUME IInv, CheckTorn PROVE IInv'
<1>1. tries \in Nat /\ began \in Nat /\ writes \in Nat /\ tries < Retries
    BY RingAssumption DEF IInv, TypeOK, ReaderInv, CheckTorn
<1>2. TypeOK' /\ WriterInv'
    BY <1>1, WriterRests, RingAssumption
    DEF IInv, TypeOK, CheckTorn, writerVars, NoSlot
<1>3. Changed
    BY DEF IInv, ReaderInv, Copying, CheckTorn, Changed
<1>4. Outrun' /\ (pc' # "idle" => tries' < Retries)
    BY <1>1, <1>3, RingAssumption
    DEF IInv, ReaderInv, Outrun, CheckTorn, writerVars, Changed
<1> QED
    BY <1>2, <1>4
    DEF IInv, ReaderInv, CheckTorn, Seen, HalfScanned, Copying, Kept, writerVars

\* What a read returns.
LEMMA ReturnedFrame ==
    ASSUME IInv, pc = "check", seq[best.slot] = best.seq
    PROVE  /\ FrameOf(best.slot, best.seq) \in frames
           /\ FrameOf(best.slot, best.seq) >= floor
           /\ \A w \in Words : copy.word[w] = FrameOf(best.slot, best.seq)
<1>1. ~Changed /\ best.slot \in Slots /\ Complete(best.slot)
    BY DEF IInv, TypeOK, ReaderInv, Copying, Changed, Seen, Complete
<1> QED
    BY <1>1 DEF IInv, ReaderInv, Copying, WriterInv, Whole

LEMMA CheckOkKeeps == ASSUME IInv, CheckOk PROVE IInv'
<1>1. TypeOK' /\ WriterInv'
    BY WriterRests DEF IInv, TypeOK, CheckOk, writerVars
<1> QED
    BY <1>1
    DEF IInv, ReaderInv, CheckOk, Seen, HalfScanned, Copying, Outrun, Changed,
        Kept, writerVars

LEMMA StepKeeps == ASSUME IInv, [Next]_vars PROVE IInv'
<1>1. CASE UNCHANGED vars
    BY <1>1
    DEF vars, IInv, TypeOK, WriterInv, ReaderInv, Counted, Whole, Writing, Newest,
        Kept, Due, Complete, Target, Seen, HalfScanned, Copying, Outrun, Changed
<1> QED
    BY <1>1, WriterKeeps, BeginReadKeeps, Peek0Keeps, Peek1Keeps, CopyWordKeeps,
       CopyDoneKeeps, CheckOkKeeps, CheckTornKeeps
    DEF Next, ReaderNext

LEMMA RingInv == Spec => []IInv
BY InitInv, StepKeeps, PTL DEF Spec

-----------------------------------------------------------------------------
(* Theorems *)

\* Type correctness of a ring with any words, tries and number of writes.
THEOREM RingTypes == Spec => []TypeOK
<1>1. IInv => TypeOK
    BY DEF IInv
<1> QED
    BY <1>1, RingInv, PTL

\* A read returns one whole frame of a completed write, however often the
\* writer came by while it was copied.
THEOREM RingNeverTorn == Spec => []NeverTorn
<1>1. IInv => NeverTorn
    BY ReturnedFrame DEF NeverTorn
<1> QED
    BY <1>1, RingInv, PTL

\* What a read returns is at least as new as all that was complete when the
\* read began.
THEOREM RingNeverStale == Spec => []NeverStale
<1>1. IInv => NeverStale
    BY ReturnedFrame DEF NeverStale
<1> QED
    BY <1>1, RingInv, PTL

\* Each torn try has a write of its own that began during the read.
THEOREM RingTornNeedsWriter == Spec => []TornNeedsWriter
<1>1. IInv => TornNeedsWriter
    BY RingAssumption DEF IInv, TypeOK, ReaderInv, Outrun, TornNeedsWriter
<1> QED
    BY <1>1, RingInv, PTL

\* A step of the ring is a step of the register or none.
LEMMA StepMaps == ASSUME IInv, [Next]_vars PROVE [Register!Next]_(Register!vars)
<1> USE DEF Register!vars, readerVars, writerVars
<1>1. CASE EndWrite
  <2>1. writes \in Nat /\ writes > newest
      BY <1>1 DEF IInv, TypeOK, WriterInv, Writing, EndWrite
  <2> QED
      BY <1>1, <2>1 DEF EndWrite, Register!Next, Register!Publish
<1>2. CASE BeginRead
    BY <1>2 DEF BeginRead, Register!Next, Register!BeginRead
<1>3. CASE Peek1
    BY <1>3 DEF Peek1, Register!Next, Register!GiveUp
<1>4. CASE CheckOk
  <2>1. got' \in frames /\ got' >= floor
      BY <1>4, ReturnedFrame DEF CheckOk
  <2> QED
      BY <1>4, <2>1 DEF CheckOk, Register!Next, Register!Return
<1>5. CASE CheckTorn
    BY <1>5 DEF CheckTorn, Register!Next, Register!GiveUp
<1>6. CASE BeginWrite \/ FailWrite \/ \E w \in Words : WriteWord(w)
    BY <1>6 DEF BeginWrite, FailWrite, WriteWord
<1>7. CASE Peek0 \/ CopyDone \/ \E w \in Words : CopyWord(w)
    BY <1>7 DEF Peek0, CopyDone, CopyWord
<1>8. CASE UNCHANGED vars
    BY <1>8 DEF vars
<1> QED
    BY <1>1, <1>2, <1>3, <1>4, <1>5, <1>6, <1>7, <1>8
    DEF Next, WriterNext, ReaderNext

\* The ring implements a register whose reads are whole and never go back.
THEOREM RingImplementsRegister == Spec => RegisterSpec
<1>1. Init => Register!Init
    BY DEF Init, Register!Init, Register!None
<1> QED
    BY <1>1, StepMaps, RingInv, PTL DEF Spec, RegisterSpec, Register!Spec

-----------------------------------------------------------------------------
(* The camera that copies clouds into a ring (CloudPublisher) *)

UnderWay(p) == publish[p].pc \in {"ask", "check", "write", "keep"}

\* While nothing tells it to stop, the ring there is is open and of the source.
Current ==
    ~stop => \/ shm = 0 /\ source = Nobody
             \/ shm # 0 /\ writers[shm].open /\ writers[shm].for = source

\* The loop is busy only while the publisher is told to stop, and a request in
\* the middle of a publication keeps it free.
LoopStops ==
    /\ loop.pc # "free" => stop /\ configs >= 1 /\ shm < configs
    /\ publish["request"].pc \notin {"off", "ask"} => loop.pc = "free"

\* A publication has the ring of the camera it asked, and finds it open when it
\* may write.
OwnRing(p) ==
    /\ publish[p].shm <= configs /\ (loop.pc # "free" => publish[p].shm < configs)
    /\ UnderWay(p) => /\ publish[p].shm # 0
                      /\ writers[publish[p].shm].for = publish[p].source
    /\ publish[p].pc = "write" => writers[publish[p].shm].open

CloudIInv ==
    /\ CloudTypeOK /\ Current /\ LoopStops /\ shm <= configs
    /\ \A p \in Publishers : OwnRing(p)

Loops == [pc : {"free", "join", "open"}, source : Camera_, hz : BOOLEAN, closing : BOOLEAN]
Rings == [open : BOOLEAN, for : Camera_, holds : Camera_]
Publications ==
    [pc : {"off", "wait", "begin", "ask", "check", "write", "keep"}, source : Camera_,
     shm : Writers \cup {0}]

\* What one publisher holds, and that nothing else has a type to lose.
LEMMA CloudHeld ==
    ASSUME CloudIInv, NEW p \in Publishers
    PROVE  /\ publish \in [Publishers -> Publications] /\ publish[p] \in Publications
           /\ publish[p].shm \in Writers \cup {0} /\ publish[p].source \in Camera_
           /\ writers \in [Writers -> Rings] /\ configs \in Nat /\ loop \in Loops
           /\ OwnRing(p)
  BY CloudAssumption DEF CloudIInv, CloudTypeOK, Publications, Rings, Loops, Writers

LEMMA CloudInitial == CloudInit => CloudIInv
<1> SUFFICES ASSUME CloudInit
             PROVE  CloudIInv
  OBVIOUS
<1>1. Idle_ \in Publications /\ Free \in Loops
  BY DEF Idle_, Free, Publications, Loops, Camera_
<1>2. writers \in [Writers -> Rings]
  BY DEF CloudInit, Rings, Camera_
<1>3. CloudTypeOK
  <2>1. publish \in [Publishers -> Publications] /\ loop \in Loops
    BY <1>1 DEF CloudInit
  <2>2. {stop, hz} \subseteq BOOLEAN /\ source \in Camera_ /\ latest \in Camera_
    BY DEF CloudInit, Camera_
  <2>3. shm \in Writers \cup {0} /\ configs \in 0 .. MaxConfigs
    BY CloudAssumption DEF CloudInit
  <2> QED
    BY <1>2, <2>1, <2>2, <2>3 DEF CloudTypeOK, Publications, Loops, Rings
<1>4. \A p \in Publishers : publish[p] = Idle_
  BY DEF CloudInit
<1>5. Current /\ LoopStops /\ shm <= configs
  BY <1>4 DEF CloudInit, Current, LoopStops, Free, Idle_, Publishers
<1>6. \A p \in Publishers : OwnRing(p)
  BY <1>4 DEF CloudInit, OwnRing, UnderWay, Idle_, Free
<1> QED
  BY <1>3, <1>5, <1>6 DEF CloudIInv

LEMMA ClosesStep ==
    ASSUME CloudIInv, Reconfigures \/ CloseCalled
    PROVE  CloudIInv'
<1>1. PICK c \in Loops : Closes(c) /\ c.pc = "join"
  <2>1. CASE Reconfigures
    <3>1. PICK source_ \in Camera_, rate \in BOOLEAN :
              Closes([pc |-> "join", source |-> source_, hz |-> rate, closing |-> FALSE])
      BY <2>1 DEF Reconfigures
    <3> DEFINE c == [pc |-> "join", source |-> source_, hz |-> rate, closing |-> FALSE]
    <3>2. c \in Loops /\ c.pc = "join" /\ Closes(c)
      BY <3>1 DEF Loops
    <3> HIDE DEF c
    <3> QED
      BY <3>2
  <2>2. CASE CloseCalled
    <3>1. Closes([pc |-> "join", source |-> Nobody, hz |-> FALSE, closing |-> TRUE])
      BY <2>2 DEF CloseCalled
    <3> DEFINE c == [pc |-> "join", source |-> Nobody, hz |-> FALSE, closing |-> TRUE]
    <3>2. c \in Loops /\ c.pc = "join" /\ Closes(c)
      BY <3>1 DEF Loops, Camera_
    <3> HIDE DEF c
    <3> QED
      BY <3>2
  <2> QED
    BY <2>1, <2>2
<1>2. configs \in Nat /\ MaxConfigs \in Nat
  BY CloudAssumption DEF CloudIInv, CloudTypeOK
<1>3. configs' \in 0 .. MaxConfigs /\ configs' >= 1 /\ shm < configs' /\ shm <= configs'
  BY <1>1, <1>2 DEF Closes, CloudIInv, CloudTypeOK, Writers
<1>4. CloudTypeOK'
  BY <1>1, <1>3 DEF Closes, CloudIInv, CloudTypeOK, Loops, Camera_
<1>5. Current' /\ LoopStops'
  BY <1>1, <1>3 DEF Closes, Current, LoopStops
<1>6. ASSUME NEW p \in Publishers
      PROVE  OwnRing(p)'
  <2>1. publish[p].shm < configs' /\ publish[p].shm <= configs'
    BY <1>1, <1>2, CloudHeld DEF Closes, OwnRing, Writers
  <2> QED
    BY <1>1, <2>1, CloudHeld DEF Closes, OwnRing, UnderWay
<1> QED
  BY <1>1, <1>3, <1>4, <1>5, <1>6 DEF Closes, CloudIInv

LEMMA JoinStep ==
    ASSUME CloudIInv, Joined \/ JoinTimesOut
    PROVE  CloudIInv'
<1>1. /\ loop' \in Loops /\ loop'.pc \in {"free", "open"} /\ loop.pc = "join" /\ stop
      /\ UNCHANGED <<source, stop, hz, latest, publish, configs>>
      /\ publish["request"].pc \in {"off", "ask"}
  <2>1. loop \in Loops /\ Free \in Loops /\ Free.pc = "free"
    BY DEF CloudIInv, CloudTypeOK, Free, Loops, Camera_
  <2>2. [loop EXCEPT !.pc = "open"] \in Loops /\ [loop EXCEPT !.pc = "open"].pc = "open"
    BY <2>1 DEF Loops
  <2>3. loop' \in {Free, [loop EXCEPT !.pc = "open"]} /\ loop.pc = "join"
        /\ UNCHANGED <<source, stop, hz, latest, publish, configs>>
    BY DEF Joined, JoinTimesOut
  <2>4. stop /\ publish["request"].pc \in {"off", "ask"}
    BY <2>3 DEF CloudIInv, LoopStops
  <2> QED
    BY <2>1, <2>2, <2>3, <2>4
<1>2. /\ shm' \in {0, shm} /\ writers' \in [Writers -> Rings]
      /\ \A w \in Writers : writers'[w].for = writers[w].for
      /\ ~Alive \/ writers' = writers
  <2>1. CASE Joined /\ shm # 0
    <3>1. shm \in Writers /\ writers \in [Writers -> Rings]
      BY <2>1 DEF CloudIInv, CloudTypeOK, Rings
    <3> QED
      BY <2>1, <3>1 DEF Joined, Rings
  <2>2. CASE JoinTimesOut \/ shm = 0
    BY <2>2 DEF Joined, JoinTimesOut, CloudIInv, CloudTypeOK, Rings
  <2> QED
    BY <2>1, <2>2
<1>3. CloudTypeOK'
  BY <1>1, <1>2 DEF CloudIInv, CloudTypeOK, Loops, Rings
<1>4. Current' /\ LoopStops' /\ (shm <= configs)'
  BY <1>1, <1>2, CloudHeld DEF CloudIInv, CloudTypeOK, Current, LoopStops, Writers
<1>5. ASSUME NEW p \in Publishers
      PROVE  OwnRing(p)'
  <2>1. UnderWay(p) => publish[p].shm \in Writers
    BY CloudHeld DEF OwnRing
  <2>2. publish[p].pc = "write" => writers' = writers
    BY <1>1, <1>2 DEF Alive, Publishers
  <2> QED
    BY <1>1, <1>2, <2>1, <2>2, CloudHeld DEF OwnRing, UnderWay
<1> QED
  BY <1>3, <1>4, <1>5 DEF CloudIInv

LEMMA OpenStep ==
    ASSUME CloudIInv, Opens
    PROVE  CloudIInv'
<1>1. /\ loop.pc = "open" /\ stop /\ configs >= 1 /\ shm < configs
      /\ loop' = Free /\ Free \in Loops /\ Free.pc = "free"
      /\ source' = loop.source /\ source' \in Camera_ /\ hz' \in BOOLEAN
      /\ UNCHANGED <<latest, configs>>
      /\ configs \in Writers /\ configs # 0
  BY CloudHeld, CloudAssumption
  DEF Opens, Free, Loops, Camera_, CloudIInv, CloudTypeOK, LoopStops, Writers
<1>2. \A p \in Publishers : publish[p].shm < configs
  BY <1>1, CloudHeld DEF OwnRing
<1>3. CASE UNCHANGED <<stop, shm, writers, publish>>
  <2>1. CloudTypeOK'
    BY <1>1, <1>3 DEF CloudIInv, CloudTypeOK, Loops
  <2>2. Current' /\ LoopStops' /\ (shm <= configs)'
    BY <1>1, <1>3 DEF CloudIInv, Current, LoopStops
  <2>3. \A p \in Publishers : OwnRing(p)'
    BY <1>1, <1>2, <1>3 DEF CloudIInv, OwnRing, UnderWay
  <2> QED
    BY <2>1, <2>2, <2>3 DEF CloudIInv
<1>4. CASE ~Alive /\ loop.source # Nobody
  <2> DEFINE ring == [open |-> TRUE, for |-> loop.source, holds |-> Nobody]
             place == IF loop.hz THEN "begin" ELSE "off"
  <2>1. /\ stop' = FALSE /\ shm' = configs
        /\ writers' = [writers EXCEPT ![configs] = ring]
        /\ publish' = [publish EXCEPT !["thread"].pc = place]
    BY <1>4 DEF Opens
  <2>2. ring \in Rings /\ ring.open /\ ring.for = loop.source
    BY <1>1 DEF Rings, Camera_
  <2> HIDE DEF ring
  <2>3. /\ writers' \in [Writers -> Rings] /\ writers'[configs] = ring
        /\ \A w \in Writers : w # configs => writers'[w] = writers[w]
    BY <1>1, <2>1, <2>2 DEF CloudIInv, CloudTypeOK, Rings
  <2>4. publish' \in [Publishers -> Publications]
    BY ZenonT(40), <2>1 DEF CloudIInv, CloudTypeOK, Publications
  <2>5. CloudTypeOK'
    BY <1>1, <2>1, <2>3, <2>4 DEF CloudIInv, CloudTypeOK, Loops, Rings, Publications
  <2>6. Current' /\ LoopStops' /\ (shm <= configs)'
    <3>1. (shm <= configs)' /\ LoopStops'
      BY <1>1, <2>1 DEF LoopStops, Writers
    <3>2. Current'
      BY <1>1, <2>1, <2>2, <2>3 DEF Current
    <3> QED
      BY <3>1, <3>2
  <2>7. ASSUME NEW p \in Publishers
        PROVE  OwnRing(p)'
    <3>1. /\ publish'[p].shm = publish[p].shm /\ publish'[p].source = publish[p].source
          /\ publish'[p].pc \in {"off", "begin", publish[p].pc}
      BY <2>1, CloudHeld DEF Publications
    <3>2. publish[p].shm # configs /\ publish[p].shm <= configs
      BY <1>1, <1>2, CloudHeld DEF Writers
    <3>3. UnderWay(p)' => UnderWay(p) /\ publish[p].shm \in Writers
      BY <3>1, CloudHeld DEF UnderWay, OwnRing
    <3>4. UnderWay(p)' => writers'[publish[p].shm] = writers[publish[p].shm]
      BY <2>3, <3>2, <3>3
    <3>5. publish'[p].pc = "write" => publish[p].pc = "write" /\ UnderWay(p)'
      BY <3>1 DEF UnderWay
    <3> QED
      BY <1>1, <3>1, <3>2, <3>3, <3>4, <3>5, CloudHeld DEF OwnRing
  <2> QED
    BY <2>5, <2>6, <2>7 DEF CloudIInv
<1> QED
  BY <1>3, <1>4 DEF Opens

\* A publisher whose publication becomes k, while nothing else moves.
LEMMA PublisherStep ==
    ASSUME CloudIInv, NEW p \in Publishers, NEW k \in Publications,
           publish' = [publish EXCEPT ![p] = k],
           k.shm <= configs, loop.pc # "free" => k.shm < configs,
           k.pc \in {"ask", "check", "write", "keep"} =>
               k.shm # 0 /\ writers[k.shm].for = k.source,
           k.pc = "write" => writers[k.shm].open,
           p = "request" /\ k.pc \notin {"off", "ask"} => loop.pc = "free",
           UNCHANGED <<loop, source, shm, stop, hz, writers, configs>>, latest' \in Camera_
    PROVE  CloudIInv'
<1>1. publish \in [Publishers -> Publications]
  BY CloudHeld
<1>2. publish' \in [Publishers -> Publications]
  BY <1>1
<1>3. CloudTypeOK'
  BY <1>2 DEF CloudIInv, CloudTypeOK, Publications
<1>4. Current' /\ (shm <= configs)'
  BY DEF CloudIInv, Current
<1>5. publish["request"]'.pc \notin {"off", "ask"} => loop.pc = "free"
  BY <1>1 DEF CloudIInv, LoopStops, Publishers
<1>6. LoopStops'
  BY <1>5 DEF CloudIInv, LoopStops
<1>7. ASSUME NEW q \in Publishers
      PROVE  OwnRing(q)'
  <2>1. CASE q = p
    BY <1>1, <2>1 DEF OwnRing, UnderWay
  <2>2. CASE q # p
    BY <1>1, <2>2, CloudHeld DEF OwnRing, UnderWay
  <2> QED
    BY <2>1, <2>2
<1> QED
  BY <1>3, <1>4, <1>6, <1>7 DEF CloudIInv

LEMMA IdleTyped ==
    LET w == [Idle_ EXCEPT !.pc = "wait"]
    IN /\ Idle_ \in Publications /\ Idle_.pc = "off" /\ Idle_.shm = 0
       /\ w \in Publications /\ w.pc = "wait" /\ w.shm = 0
  BY DEF Idle_, Publications, Camera_

LEMMA OverStep ==
    ASSUME CloudIInv, NEW p \in Publishers, Over(p),
           UNCHANGED <<loop, source, shm, stop, hz, writers, configs>>, latest' \in Camera_
    PROVE  CloudIInv'
<1>1. configs >= 0 /\ (loop.pc # "free" => 0 < configs)
  BY CloudHeld DEF CloudIInv, LoopStops
<1>2. CASE p = "thread"
  BY <1>1, <1>2, IdleTyped, PublisherStep DEF Over
<1>3. CASE p # "thread"
  BY <1>1, <1>3, IdleTyped, PublisherStep DEF Over
<1> QED
  BY <1>2, <1>3

\* A publisher that goes on with the publication it has.
LEMMA TurnStep ==
    ASSUME CloudIInv, NEW p \in Publishers,
           NEW to \in {"off", "wait", "begin", "check", "write", "keep"}, Turn(p, to),
           to \in {"check", "write", "keep"} => UnderWay(p),
           to = "write" => writers[publish[p].shm].open,
           p = "request" /\ to # "off" => loop.pc = "free",
           UNCHANGED <<loop, source, shm, stop, hz, writers, configs, latest>>
    PROVE  CloudIInv'
<1> DEFINE k == [publish[p] EXCEPT !.pc = to]
<1>1. /\ k \in Publications /\ k.pc = to /\ k.shm = publish[p].shm
      /\ k.source = publish[p].source
  BY CloudHeld DEF Publications
<1>2. publish' = [publish EXCEPT ![p] = k]
  BY DEF Turn
<1>3. latest' \in Camera_
  BY DEF CloudIInv, CloudTypeOK
<1> HIDE DEF k
<1>4. OwnRing(p)
  BY CloudHeld
<1> QED
  BY <1>1, <1>2, <1>3, <1>4, PublisherStep DEF OwnRing, UnderWay

LEMMA AskStep ==
    ASSUME CloudIInv, NEW p \in Publishers, Asks(p)
    PROVE  CloudIInv'
<1>1. latest' \in Camera_
  BY DEF Asks, CloudIInv, CloudTypeOK
<1>2. CASE Over(p)
  BY <1>1, <1>2, OverStep DEF Asks
<1>3. CASE /\ ~stop /\ source # Nobody /\ shm # 0
           /\ publish' = [publish EXCEPT ![p] = [pc |-> "ask", source |-> source, shm |-> shm]]
  <2> DEFINE k == [pc |-> "ask", source |-> source, shm |-> shm]
  <2>1. k \in Publications /\ k.pc = "ask" /\ k.shm = shm /\ k.source = source
    BY DEF CloudIInv, CloudTypeOK, Publications
  <2>2. writers[shm].for = source /\ shm <= configs /\ loop.pc = "free"
    BY <1>3, CloudHeld DEF CloudIInv, CloudTypeOK, Current, LoopStops, Loops
  <2> HIDE DEF k
  <2> QED
    BY <1>1, <1>3, <2>1, <2>2, PublisherStep DEF Asks, k
<1> QED
  BY <1>2, <1>3 DEF Asks

LEMMA AnswerStep ==
    ASSUME CloudIInv, NEW p \in Publishers, Answered(p) \/ Checks(p)
    PROVE  CloudIInv'
<1>1. latest' \in Camera_ /\ UnderWay(p)
      /\ UNCHANGED <<loop, source, shm, stop, hz, writers, configs, latest>>
      /\ (p = "request" => loop.pc = "free")
  BY DEF Answered, Checks, UnderWay, OnLoop, CloudIInv, CloudTypeOK
<1>2. CASE Over(p)
  BY <1>1, <1>2, OverStep
<1>3. CASE Turn(p, "check")
  BY <1>1, <1>3, TurnStep
<1>4. CASE MayWrite(p) /\ Turn(p, "write")
  <2>1. writers[publish[p].shm].open
    BY <1>1, <1>4, CloudHeld DEF MayWrite, CloudIInv, Current, OwnRing
  <2> QED
    BY <1>1, <1>4, <2>1, TurnStep
<1> QED
  BY <1>2, <1>3, <1>4 DEF Answered, Checks

LEMMA RequestStep ==
    ASSUME CloudIInv, Requested \/ Waits
    PROVE  CloudIInv'
<1>1. CASE Requested
  BY <1>1, TurnStep DEF Requested, Publishers
<1>2. CASE Waits
  BY <1>2, TurnStep DEF Waits, Publishers
<1> QED
  BY <1>1, <1>2

LEMMA WriteStep ==
    ASSUME CloudIInv, NEW p \in Publishers, Writes(p)
    PROVE  CloudIInv'
<1> DEFINE w == publish[p].shm
           k == [publish[p] EXCEPT !.pc = "keep"]
<1>1. /\ UnderWay(p) /\ w \in Writers /\ writers \in [Writers -> Rings]
      /\ publish \in [Publishers -> Publications] /\ publish[p].source \in Camera_
      /\ OwnRing(p) /\ (p = "request" => loop.pc = "free")
  BY CloudHeld DEF Writes, UnderWay, OwnRing, OnLoop
<1>2. writers' = [writers EXCEPT ![w].holds = publish[p].source]
      /\ publish' = [publish EXCEPT ![p] = k]
      /\ UNCHANGED <<loop, source, shm, stop, hz, latest, configs>>
  BY DEF Writes, Turn
<1>3. /\ k \in Publications /\ k.pc = "keep" /\ k.shm = w /\ k.source = publish[p].source
  BY <1>1 DEF Publications
<1> HIDE DEF w, k
<1>4. /\ writers' \in [Writers -> Rings]
      /\ \A v \in Writers : writers'[v].for = writers[v].for /\ writers'[v].open = writers[v].open
  BY <1>1, <1>2 DEF Rings
<1>5. publish' \in [Publishers -> Publications]
  BY <1>1, <1>2, <1>3
<1>6. CloudTypeOK'
  BY <1>2, <1>4, <1>5 DEF CloudIInv, CloudTypeOK, Publications, Rings
<1>7. Current' /\ LoopStops' /\ (shm <= configs)'
  <2>1. shm # 0 => shm \in Writers
    BY DEF CloudIInv, CloudTypeOK
  <2>2. publish["request"]'.pc \notin {"off", "ask"} => loop.pc = "free"
    BY <1>1, <1>2, <1>3 DEF CloudIInv, LoopStops, Publishers
  <2> QED
    BY <1>2, <1>4, <2>1, <2>2 DEF CloudIInv, Current, LoopStops
<1>8. ASSUME NEW q \in Publishers
      PROVE  OwnRing(q)'
  <2>1. /\ publish'[q].shm = publish[q].shm /\ publish'[q].source = publish[q].source
        /\ publish'[q].pc \in {"keep", publish[q].pc}
        /\ UnderWay(q)' => UnderWay(q)
    BY <1>1, <1>2, <1>3 DEF UnderWay, w
  <2>2. UnderWay(q) => publish[q].shm \in Writers
    BY CloudHeld DEF OwnRing
  <2>3. publish'[q].pc = "write" => publish[q].pc = "write" /\ UnderWay(q)
    BY <2>1 DEF UnderWay
  <2> QED
    BY <1>2, <1>4, <2>1, <2>2, <2>3, CloudHeld DEF OwnRing
<1> QED
  BY <1>6, <1>7, <1>8 DEF CloudIInv

LEMMA CloudStep == CloudIInv /\ [CloudNext]_cloudVars => CloudIInv'
<1> SUFFICES ASSUME CloudIInv, [CloudNext]_cloudVars
             PROVE  CloudIInv'
  OBVIOUS
<1>1. ASSUME NEW p \in Publishers, Remembers(p)
      PROVE  CloudIInv'
  <2>1. latest' \in Camera_
    BY <1>1, CloudHeld DEF Remembers
  <2> QED
    BY <1>1, <2>1, OverStep DEF Remembers
<1>2. CASE CloudNext
  BY <1>1, <1>2, ClosesStep, JoinStep, OpenStep, RequestStep, AskStep, AnswerStep, WriteStep
  DEF CloudNext
<1>3. CASE UNCHANGED cloudVars
  BY <1>3 DEF cloudVars, CloudIInv, CloudTypeOK, Current, LoopStops, OwnRing, UnderWay
<1> QED
  BY <1>2, <1>3

(* The publisher keeps its types. *)
THEOREM CloudTypes == CloudSpec => []CloudTypeOK
<1>1. CloudIInv => CloudTypeOK
  BY DEF CloudIInv
<1> QED
  BY <1>1, CloudInitial, CloudStep, PTL DEF CloudSpec

(* However often the camera is reconfigured or closed, and however late the  *)
(* old camera answers, a cloud goes only into a ring that is open and was    *)
(* opened for the camera the cloud came from.  (_publish_once_async,         *)
(* close_sync)                                                               *)
THEOREM CloudsGoIntoTheirOwnRing == CloudSpec => RingIsOwn
<1> DEFINE Own == \A w \in Writers :
               writers'[w].holds # writers[w].holds /\ writers'[w].holds # Nobody
               => writers[w].open /\ writers'[w].holds = writers[w].for
<1>1. ASSUME CloudIInv, [CloudNext]_cloudVars
      PROVE  [Own]_cloudVars
  <2>1. writers \in [Writers -> Rings]
    BY <1>1, CloudHeld DEF Publishers
  <2>2. CASE writers' = writers
    BY <2>2
  <2>3. CASE Joined
    <3>1. shm \in Writers \cup {0}
      BY <1>1 DEF CloudIInv, CloudTypeOK
    <3> QED
      BY <2>1, <2>3, <3>1 DEF Joined, Rings
  <2>4. CASE Opens
    BY <2>1, <2>4 DEF Opens, Rings
  <2>5. ASSUME NEW p \in Publishers, Writes(p)
        PROVE  Own
    <3>1. /\ publish[p].shm \in Writers /\ writers[publish[p].shm].open
          /\ writers[publish[p].shm].for = publish[p].source
      BY <1>1, <2>5, CloudHeld DEF Writes, OwnRing, UnderWay
    <3> QED
      BY <2>1, <2>5, <3>1 DEF Writes, Rings
  <2> QED
    BY <1>1, <2>2, <2>3, <2>4, <2>5
    DEF CloudNext, cloudVars, Reconfigures, CloseCalled, Closes, JoinTimesOut, Requested, Waits,
        Asks, Answered, Checks, Remembers
<1> QED
  BY <1>1, CloudInitial, CloudStep, PTL DEF CloudSpec, RingIsOwn

-----------------------------------------------------------------------------
(* How a revolution reaches the engine (ScanFeed)                          *)

\* The lidar has turned and published since the engine matched a scan.
Turning == cache.rev # None /\ ~silent

InMemory == feed # "rpc"

\* An object nobody maps and nobody can open holds no frame.
FramesHeld == \A o \in Objects : o \notin {map.on, link} => mem[o].rev = None

\* While the lidar turns a frame can be found under its name, young enough for
\* the read under way.
Offered ==
    Turning =>
        /\ up
        /\ InMemory => link # None /\ mem[link].rev # None
        /\ InMemory /\ read.at # "rest" => mem[link].age <= FrameAge

\* The second attempt opens the name again; a lidar behind calls has no name.
Attempts ==
    /\ read.at = "check" /\ read.try = 2 => map.on = None
    /\ ~InMemory => read.at \in {"rest", "none", "wait"}
    /\ read.at \in {"stat", "read"} => map.on # None

\* While the lidar turns the second attempt finds the object that is written,
\* and the read does not fail.
SecondAttempt ==
    /\ Turning /\ read.at \in {"stat", "read"} /\ read.try = 2 => map.on = link
    /\ Turning /\ InMemory => read.at \notin {"none", "wait"}

\* So a dropout means that the lidar has not turned all the time.
GapsAreSilence ==
    /\ Turning => ~gap
    /\ Turning /\ ~InMemory /\ fut.at = "done" => fut.rev # None

FeedIInv ==
    /\ FeedTypeOK
    /\ FramesHeld
    /\ Offered
    /\ Attempts
    /\ SecondAttempt
    /\ GapsAreSilence

LEMMA FeedNumbers ==
    /\ ScanAge \in Nat /\ FrameAge \in Nat /\ Stuck \in Nat
    /\ Objects = {1, 2, 3} /\ Revs = {1, 2, 3, 4, 5, 6} /\ None = 0
    /\ \A n \in Nat : Older(n) \in Nat /\ Older(n) >= n /\ Older(n) <= n + 1
<1>1. \A n \in Nat : Older(n) \in Nat /\ Older(n) >= n /\ Older(n) <= n + 1
  BY DEF Older
<1> QED
  BY <1>1, FeedAssumption DEF Objects, Revs, None

\* There is always another object, and another content, than those that can
\* still be met.
LEMMA FreshObject ==
    ASSUME FeedTypeOK, link = None
    PROVE  (CHOOSE o \in Objects : o \notin Held) \in Objects
<1>1. \E o \in Objects : o \notin Held
  BY FeedNumbers DEF FeedTypeOK, Held
<1> QED
  BY <1>1

LEMMA AnotherRev ==
    ASSUME FeedTypeOK, FramesHeld
    PROVE  Another \in Revs
<1>1. PICK o \in Objects : mem[o].rev = None
  BY FeedNumbers DEF FeedTypeOK, FramesHeld
<1>2. PICK a, b : \A x \in Objects : mem[x].rev \in {None, a, b}
  <2>1. PICK x \in Objects, y \in Objects : Objects = {o, x, y}
    BY FeedNumbers
  <2> QED
    BY <1>1, <2>1
<1>3. Contents \subseteq {None, a, b, fut.rev, cache.rev, rev}
  BY <1>2 DEF Contents
<1>4. \E r \in {1, 2, 3, 4, 5, 6} : r \notin {0, a, b, fut.rev, cache.rev, rev}
  OBVIOUS
<1>5. \E r \in Revs : r \notin Contents
  BY <1>3, <1>4, FeedNumbers
<1> QED
  BY <1>5 DEF Another

LEMMA FeedInitIInv == FeedInit => FeedIInv
<1> SUFFICES ASSUME FeedInit PROVE FeedIInv
  OBVIOUS
<1>1. /\ mem \in [Objects -> [rev : Revs \cup {None}, age : Nat]]
      /\ \A o \in Objects : mem[o].rev = None
  BY DEF FeedInit, NoFrame
<1>2. FeedTypeOK
  BY <1>1, FeedNumbers DEF FeedInit, FeedTypeOK, NoFrame, NoCall, Rest
<1>3. ~Turning /\ read.at = "rest"
  BY DEF FeedInit, Turning, NoFrame, Rest
<1> QED
  BY <1>1, <1>2, <1>3
     DEF FeedIInv, FramesHeld, Offered, Attempts, SecondAttempt, GapsAreSilence

\* The driver and the lidar.
LEMMA WritesFrameKeeps ==
    ASSUME FeedIInv, NEW r \in Revs, WritesFrame(r)
    PROVE  FeedIInv'
<1>1. /\ FeedTypeOK /\ link \in Objects /\ InMemory /\ rev' = r
      /\ mem' = [mem EXCEPT ![link] = [rev |-> r, age |-> 0]]
      /\ UNCHANGED <<feed, up, link, fut, client, silent>>
  BY FeedNumbers DEF FeedIInv, FeedTypeOK, WritesFrame, InMemory
<1>2. /\ mem' \in [Objects -> [rev : Revs \cup {None}, age : Nat]]
      /\ mem'[link].rev = r /\ mem'[link].age = 0
      /\ \A o \in Objects : o # link => mem'[o] = mem[o]
  BY <1>1 DEF FeedTypeOK
<1>3. FeedTypeOK'
  BY <1>1, <1>2 DEF FeedTypeOK, client
<1>4. FramesHeld'
  BY <1>1, <1>2 DEF FeedIInv, FramesHeld, client
<1>5. Offered'
  BY <1>1, <1>2, FeedNumbers DEF FeedIInv, Offered, Turning, InMemory, client
<1>6. Attempts' /\ SecondAttempt' /\ GapsAreSilence'
  BY <1>1 DEF FeedIInv, Attempts, SecondAttempt, GapsAreSilence, Turning, InMemory, client
<1> QED
  BY <1>3, <1>4, <1>5, <1>6 DEF FeedIInv

\* While the lidar is silent only the types, the frames and the attempts of a
\* read say anything.
LEMMA SilenceKeeps ==
    ASSUME ~Turning', FeedTypeOK', FramesHeld', Attempts'
    PROVE  FeedIInv'
  BY DEF FeedIInv, Offered, Attempts, SecondAttempt, GapsAreSilence

LEMMA ReachableIs ==
    ASSUME FeedTypeOK, NEW a, NEW b
    PROVE  /\ Reachable(mem, a, b) \in [Objects -> [rev : Revs \cup {None}, age : Nat]]
           /\ \A o \in Objects : o \notin {a, b} => Reachable(mem, a, b)[o].rev = None
           /\ \A o \in Objects : o \in {a, b} => Reachable(mem, a, b)[o] = mem[o]
<1>1. NoFrame \in [rev : Revs \cup {None}, age : Nat] /\ NoFrame.rev = None
  BY DEF NoFrame
<1> QED
  BY <1>1 DEF Reachable, FeedTypeOK

LEMMA UnlinksKeeps ==
    ASSUME FeedIInv, Unlinks \/ Stops
    PROVE  FeedIInv'
<1>1. ~Turning'
  BY DEF Unlinks, Stops, Turning
<1>2. UNCHANGED <<map, read, feed>>
  BY DEF Unlinks, Stops, client
<1>3. FeedTypeOK' /\ FramesHeld'
  <2>1. CASE Unlinks
    <3>1. mem' \in [Objects -> [rev : Revs \cup {None}, age : Nat]] /\ FramesHeld'
      BY <1>2, <2>1, ReachableIs DEF FeedIInv, Unlinks, FramesHeld
    <3> QED
      BY <2>1, <3>1 DEF FeedIInv, FeedTypeOK, Unlinks, client
  <2>2. CASE Stops
    <3>1. FeedTypeOK'
      <4>1. /\ up' \in BOOLEAN /\ silent' \in BOOLEAN
            /\ UNCHANGED <<feed, rev, link, mem, map, read, fut, cache, gap>>
        BY <2>2 DEF Stops, client
      <4> QED
        BY <4>1 DEF FeedIInv, FeedTypeOK
    <3>2. FramesHeld'
      BY <2>2 DEF FeedIInv, FramesHeld, Stops, client
    <3> QED
      BY <3>1, <3>2
  <2> QED
    BY <2>1, <2>2
<1> QED
  BY <1>1, <1>2, <1>3, SilenceKeeps DEF FeedIInv, Attempts, InMemory

LEMMA CreatesKeeps ==
    ASSUME FeedIInv, Creates
    PROVE  FeedIInv'
<1>1. ~Turning' /\ UNCHANGED <<map, read, feed>>
  BY DEF FeedIInv, Creates, Offered, Turning, InMemory, client
<1>2. link' \in Objects
  BY FreshObject DEF FeedIInv, Creates
<1>3. NoFrame \in [rev : Revs \cup {None}, age : Nat] /\ NoFrame.rev = None
  BY DEF NoFrame
<1>4. /\ mem' \in [Objects -> [rev : Revs \cup {None}, age : Nat]]
      /\ mem'[link'] = NoFrame /\ \A o \in Objects : o # link' => mem'[o] = mem[o]
  BY <1>2, <1>3 DEF FeedIInv, FeedTypeOK, Creates
<1>5. FeedTypeOK'
  BY <1>2, <1>4 DEF FeedIInv, FeedTypeOK, Creates, client
<1>6. FramesHeld'
  BY <1>1, <1>2, <1>3, <1>4, FeedNumbers DEF FeedIInv, Creates, FramesHeld
<1> QED
  BY <1>1, <1>5, <1>6, SilenceKeeps DEF FeedIInv, Attempts, InMemory

LEMMA ReturnsKeeps ==
    ASSUME FeedIInv, Returns
    PROVE  FeedIInv'
<1>1. ~Turning' /\ UNCHANGED <<map, read, feed>>
  BY DEF FeedIInv, Returns, Offered, Turning, client
<1>2. FeedTypeOK' /\ FramesHeld'
  BY DEF FeedIInv, FeedTypeOK, Returns, client, FramesHeld
<1> QED
  BY <1>1, <1>2, SilenceKeeps DEF FeedIInv, Attempts, InMemory

LEMMA CallKeeps ==
    ASSUME FeedIInv, Fails \/ Hangs \/ (\E r \in Revs : Answers(r))
    PROVE  FeedIInv'
<1>1. /\ UNCHANGED <<feed, up, link, mem, client, silent>>
      /\ fut' \in [at : {"none", "open", "done", "lost"}, age : Nat, rev : Revs \cup {None}]
      /\ rev' \in Revs
      /\ Turning /\ fut'.at = "done" => fut'.rev # None
  <2>1. CASE Fails \/ Hangs
    BY <2>1 DEF Fails, Hangs, driver, world, FeedIInv, FeedTypeOK, Offered
  <2>2. CASE \E r \in Revs : Answers(r)
    <3>1. PICK r \in Revs : Answers(r)
      BY <2>2
    <3>2. fut' = [fut EXCEPT !.at = "done", !.rev = r] /\ rev' = r
          /\ UNCHANGED <<feed, up, link, mem, client, silent>>
      BY <3>1 DEF Answers
    <3>3. /\ fut' \in [at : {"none", "open", "done", "lost"}, age : Nat, rev : Revs \cup {None}]
          /\ fut'.rev = r
      BY <3>2 DEF FeedIInv, FeedTypeOK
    <3> QED
      BY <3>2, <3>3, FeedNumbers
  <2> QED
    BY <2>1, <2>2
<1>2. FeedTypeOK' /\ FramesHeld'
  BY <1>1 DEF FeedIInv, FeedTypeOK, client, FramesHeld
<1>3. Offered' /\ Attempts' /\ SecondAttempt' /\ GapsAreSilence'
  BY <1>1 DEF FeedIInv, Offered, Attempts, SecondAttempt, GapsAreSilence, Turning, InMemory, client
<1> QED
  BY <1>2, <1>3 DEF FeedIInv

\* A period goes by.
LEMMA BeginsKeeps ==
    ASSUME FeedIInv, Begins
    PROVE  FeedIInv' /\ cache'.age >= cache.age
<1>0. FeedTypeOK /\ cache.age \in Nat /\ fut.age \in Nat
  BY DEF FeedIInv, FeedTypeOK
<1>1. /\ read' = [at |-> IF InMemory THEN "check" ELSE "none", try |-> 1]
      /\ UNCHANGED <<feed, up, rev, link, map, gap, silent>>
      /\ read.at = "rest"
  BY DEF Begins, InMemory
<1>2. /\ mem' \in [Objects -> [rev : Revs \cup {None}, age : Nat]]
      /\ \A o \in Objects : mem'[o].rev = mem[o].rev /\ mem'[o].age <= mem[o].age + 1
  BY <1>0, FeedNumbers DEF Begins, FeedTypeOK
<1>3. /\ fut' \in [at : {"none", "open", "done", "lost"}, age : Nat, rev : Revs \cup {None}]
      /\ fut'.at = fut.at /\ fut'.rev = fut.rev
  BY <1>0, FeedNumbers DEF Begins, FeedTypeOK
<1>4. /\ cache' \in [rev : Revs \cup {None}, age : Nat]
      /\ cache'.rev = cache.rev /\ cache'.age >= cache.age
  BY <1>0, FeedNumbers DEF Begins, FeedTypeOK
<1>5. FeedTypeOK'
  BY <1>1, <1>2, <1>3, <1>4 DEF FeedIInv, FeedTypeOK
<1>6. FramesHeld'
  BY <1>1, <1>2 DEF FeedIInv, FramesHeld
<1>7. Offered'
  <2> SUFFICES ASSUME Turning' PROVE Offered'
    BY DEF Offered
  <2>1. Turning /\ up /\ (InMemory => link # None /\ mem[link].rev # None)
    BY <1>1, <1>4 DEF Turning, FeedIInv, Offered
  <2>2. InMemory => link \in Objects /\ mem[link].age < FrameAge /\ mem[link].age \in Nat
    BY <1>0, <2>1 DEF Begins, InMemory, FeedTypeOK
  <2> QED
    BY <1>1, <1>2, <2>1, <2>2, FeedNumbers DEF Offered, InMemory
<1>8. Attempts' /\ SecondAttempt' /\ GapsAreSilence'
  BY <1>1, <1>3, <1>4 DEF FeedIInv, Attempts, SecondAttempt, GapsAreSilence, Turning, InMemory
<1> QED
  BY <1>4, <1>5, <1>6, <1>7, <1>8 DEF FeedIInv

\* A read ends: with a scan, or without one.
LEMMA EndsKeeps ==
    ASSUME FeedIInv, NEW r \in Revs \cup {None}, NEW waits \in BOOLEAN, Ends(r, waits),
           UNCHANGED <<feed, up, rev, link, mem, map>>,
           fut' \in [at : {"none", "open", "done", "lost"}, age : Nat, rev : Revs \cup {None}],
           ~InMemory => fut'.at # "done",
           r = None /\ ~waits => ~Turning
    PROVE  /\ FeedIInv'
           /\ cache'.rev = cache.rev /\ cache'.age < cache.age => silent
<1>0. FeedTypeOK /\ read'.at = "rest" /\ read' \in [at : {"rest"}, try : {1, 2}]
  BY DEF FeedIInv, Ends, Rest
<1>1. CASE r = None
  <2>1. UNCHANGED <<cache, silent>> /\ (Turning => gap' = gap) /\ gap' \in BOOLEAN
    BY <1>0, <1>1 DEF Ends, Misses, FeedTypeOK
  <2>2. FeedTypeOK' /\ FramesHeld'
    BY <1>0, <2>1 DEF FeedIInv, FeedTypeOK, FramesHeld
  <2>3. Offered' /\ Attempts' /\ SecondAttempt' /\ GapsAreSilence'
    BY <1>0, <2>1 DEF FeedIInv, Offered, Attempts, SecondAttempt, GapsAreSilence, Turning, InMemory
  <2> QED
    BY <1>0, <2>1, <2>2, <2>3 DEF FeedIInv, FeedTypeOK
<1>2. CASE r # None /\ UNCHANGED <<cache, silent>>
  <2>1. gap' \in BOOLEAN /\ (gap' => gap)
    BY <1>0, <1>2 DEF Ends, Merges, FeedTypeOK
  <2>2. FeedTypeOK' /\ FramesHeld'
    BY <1>0, <1>2, <2>1 DEF FeedIInv, FeedTypeOK, FramesHeld
  <2>3. Offered' /\ Attempts' /\ SecondAttempt'
    BY <1>0, <1>2 DEF FeedIInv, Offered, Attempts, SecondAttempt, Turning, InMemory
  <2>4. GapsAreSilence'
    BY <1>2, <2>1 DEF FeedIInv, GapsAreSilence, Turning, InMemory
  <2> QED
    BY <1>0, <1>2, <2>2, <2>3, <2>4 DEF FeedIInv, FeedTypeOK
<1>3. CASE r # None /\ ~UNCHANGED <<cache, silent>>
  <2>1. /\ cache' = [rev |-> r, age |-> 0] /\ gap' = FALSE /\ silent' = (~up \/ Starting)
        /\ cache.rev # r \/ gap
    BY <1>3 DEF Ends, Merges
  <2>2. FeedTypeOK' /\ FramesHeld'
    BY <1>0, <2>1 DEF FeedIInv, FeedTypeOK, FramesHeld, Starting
  <2>3. Offered' /\ Attempts' /\ SecondAttempt'
    BY <1>0, <2>1 DEF Offered, Attempts, SecondAttempt, Turning, Starting, InMemory
  <2>4. GapsAreSilence'
    BY <2>1 DEF FeedIInv, GapsAreSilence, Turning, InMemory
  <2>5. cache'.rev = cache.rev => silent
    BY <1>3, <2>1 DEF FeedIInv, GapsAreSilence, Turning
  <2> QED
    BY <2>2, <2>3, <2>4, <2>5 DEF FeedIInv
<1> QED
  BY <1>1, <1>2, <1>3

\* An attempt fails: the next one opens the name again, the second ends the read.
LEMMA NextAttemptKeeps ==
    ASSUME FeedIInv, InMemory, NextAttempt, read.at \in {"check", "read"},
           Invalidate \/ (KeepMap /\ read.try = 2),
           UNCHANGED <<world, fut, cache, gap, silent>>,
           read.try = 2 => ~Turning
    PROVE  FeedIInv'
<1>0. FeedTypeOK
  BY DEF FeedIInv
<1>1. \/ read.try = 1 /\ read' = [at |-> "check", try |-> 2] /\ Invalidate
      \/ read.try = 2 /\ read' = [at |-> "none", try |-> 1]
  BY <1>0 DEF NextAttempt, Done, FeedTypeOK
<1>2. /\ mem' \in [Objects -> [rev : Revs \cup {None}, age : Nat]] /\ FramesHeld'
      /\ link # None => mem'[link] = mem[link]
      /\ map' \in [on : Objects \cup {None}, id : Objects \cup {None}]
      /\ Invalidate => map'.on = None
  <2>1. CASE Invalidate
    <3>1. mem' = Reachable(mem, None, link) /\ map' = [on |-> None, id |-> None] /\ link' = link
      BY <2>1 DEF Invalidate, world
    <3>2. link # None => link \in Objects
      BY <1>0 DEF FeedTypeOK
    <3> QED
      BY <1>0, <3>1, <3>2, ReachableIs DEF FramesHeld
  <2>2. CASE KeepMap
    BY <1>0, <2>2 DEF KeepMap, world, FeedIInv, FramesHeld, FeedTypeOK, Invalidate
  <2> QED
    BY <2>1, <2>2
<1>3. FeedTypeOK'
  BY <1>0, <1>1, <1>2 DEF FeedTypeOK, world
<1>4. Attempts' /\ SecondAttempt' /\ GapsAreSilence'
  BY <1>1, <1>2 DEF FeedIInv, Attempts, SecondAttempt, GapsAreSilence, Turning, InMemory, world
<1>5. Offered'
  BY <1>1, <1>2 DEF FeedIInv, Offered, Turning, InMemory, world
<1> QED
  BY <1>2, <1>3, <1>4, <1>5 DEF FeedIInv

LEMMA ChecksMappingKeeps ==
    ASSUME FeedIInv, ChecksMapping
    PROVE  FeedIInv'
<1>0. FeedTypeOK /\ read.at = "check" /\ InMemory
      /\ UNCHANGED <<world, fut, cache, gap, silent>>
      /\ UNCHANGED <<feed, up, rev, link>>
  BY DEF FeedIInv, ChecksMapping, Attempts, world
<1>1. CASE map.on = None /\ link = None /\ Done /\ KeepMap
  <2>1. ~Turning /\ ~Turning'
    BY <1>0, <1>1 DEF FeedIInv, Offered, Turning
  <2>2. FeedTypeOK' /\ FramesHeld' /\ Attempts'
    BY <1>0, <1>1 DEF FeedIInv, FeedTypeOK, FramesHeld, Attempts, InMemory, Done, KeepMap
  <2> QED
    BY <2>1, <2>2, SilenceKeeps
<1>2. CASE map.on = None /\ link # None /\ map' = [map EXCEPT !.on = link] /\ UNCHANGED mem /\ At("stat")
  <2>1. map' \in [on : Objects \cup {None}, id : Objects \cup {None}] /\ map'.on = link
    BY <1>0, <1>2 DEF FeedTypeOK
  <2>2. read' = [read EXCEPT !.at = "stat"] /\ read'.at = "stat" /\ read'.try = read.try
    BY <1>0, <1>2 DEF FeedTypeOK, At
  <2>3. FeedTypeOK' /\ FramesHeld' /\ Attempts'
    <3>1. FeedTypeOK'
      BY <1>0, <1>2, <2>1, <2>2 DEF FeedTypeOK
    <3>2. FramesHeld'
      BY FeedNumbers, <1>0, <1>2, <2>1 DEF FeedIInv, FramesHeld
    <3>3. Attempts'
      BY <1>0, <1>2, <2>1, <2>2 DEF Attempts, InMemory
    <3> QED
      BY <3>1, <3>2, <3>3
  <2>4. Offered' /\ SecondAttempt' /\ GapsAreSilence'
    BY <1>0, <1>2, <2>1, <2>2 DEF FeedIInv, Offered, SecondAttempt, GapsAreSilence, Turning, InMemory
  <2> QED
    BY <2>3, <2>4 DEF FeedIInv
<1>3. CASE map.on # None /\ Invalidate /\ NextAttempt
  <2>1. read.try # 2
    BY <1>0, <1>3 DEF FeedIInv, Attempts
  <2> QED
    BY <1>0, <1>3, <2>1, NextAttemptKeeps
<1>4. CASE map.on # None /\ At("read") /\ KeepMap
  <2>1. read'.at = "read" /\ read'.try = read.try /\ read.try # 2
        /\ read' \in [at : {"read"}, try : {1, 2}]
    BY <1>0, <1>4 DEF FeedIInv, Attempts, FeedTypeOK, At
  <2>2. FeedTypeOK' /\ FramesHeld' /\ Attempts'
    BY <1>0, <1>4, <2>1 DEF FeedIInv, FeedTypeOK, FramesHeld, Attempts, InMemory, KeepMap
  <2>3. Offered' /\ SecondAttempt' /\ GapsAreSilence'
    BY <1>0, <1>4, <2>1 DEF FeedIInv, Offered, SecondAttempt, GapsAreSilence, Turning, InMemory, KeepMap
  <2> QED
    BY <2>2, <2>3 DEF FeedIInv
<1> QED
  BY <1>1, <1>2, <1>3, <1>4 DEF ChecksMapping

LEMMA StatsKeeps ==
    ASSUME FeedIInv, Stats
    PROVE  FeedIInv'
<1>0. FeedTypeOK /\ read.at = "stat" /\ InMemory
      /\ UNCHANGED <<feed, up, rev, link, mem, fut, cache, gap, silent>>
      /\ map' = [map EXCEPT !.id = link] /\ read' = [read EXCEPT !.at = "read"]
  BY DEF FeedIInv, Stats, Attempts, driver, world, At
<1>1. /\ map' \in [on : Objects \cup {None}, id : Objects \cup {None}] /\ map'.on = map.on
      /\ read' \in [at : {"read"}, try : {1, 2}] /\ read'.try = read.try
  BY <1>0 DEF FeedTypeOK
<1>2. FeedTypeOK' /\ FramesHeld' /\ Attempts'
  BY <1>0, <1>1 DEF FeedIInv, FeedTypeOK, FramesHeld, Attempts, InMemory
<1>3. Offered' /\ SecondAttempt' /\ GapsAreSilence'
  BY <1>0, <1>1 DEF FeedIInv, Offered, SecondAttempt, GapsAreSilence, Turning, InMemory
<1> QED
  BY <1>2, <1>3 DEF FeedIInv

LEMMA ReadsKeeps ==
    ASSUME FeedIInv, Reads
    PROVE  /\ FeedIInv'
           /\ cache'.rev = cache.rev /\ cache'.age < cache.age => silent
<1>0. FeedTypeOK /\ read.at = "read" /\ InMemory /\ UNCHANGED <<world, fut>>
      /\ UNCHANGED <<feed, up, rev, link, fut>>
      /\ Frame \in [rev : Revs \cup {None}, age : Nat]
  BY DEF FeedIInv, Reads, Attempts, world, Frame, FeedTypeOK
<1>1. CASE Frame.rev # None /\ Ends(Frame.rev, FALSE) /\ KeepMap
  <2>1. Frame.rev \in Revs
    BY <1>0, <1>1
  <2> QED
    BY <1>0, <1>1, <2>1, EndsKeeps DEF KeepMap, FeedTypeOK
<1>2. CASE /\ ~(Frame.rev # None /\ Frame.age <= FrameAge)
           /\ NextAttempt
           /\ IF Distrusted /\ read.try = 1 THEN Invalidate ELSE KeepMap
           /\ UNCHANGED <<cache, gap, silent>>
  <2>1. read.try = 2 => ~Turning
    <3> SUFFICES ASSUME read.try = 2, Turning PROVE FALSE
      OBVIOUS
    <3>1. map.on = link /\ mem[link].rev # None /\ mem[link].age <= FrameAge
      BY <1>0 DEF FeedIInv, SecondAttempt, Offered
    <3> QED
      BY <1>2, <3>1 DEF Frame
  <2>2. Invalidate \/ (KeepMap /\ read.try = 2)
    <3>1. Distrusted
      BY <1>0, <1>2, FeedNumbers DEF Distrusted
    <3> QED
      BY <1>0, <1>2, <3>1 DEF FeedTypeOK
  <2> QED
    <3>1. UNCHANGED <<world, fut, cache, gap, silent>>
      BY <1>0, <1>2
    <3>2. FeedIInv' /\ cache' = cache /\ cache.age \in Nat
      BY <1>0, <1>2, <2>1, <2>2, <3>1, NextAttemptKeeps DEF FeedTypeOK
    <3> QED
      BY <3>2
<1> QED
  BY <1>1, <1>2 DEF Reads

LEMMA RequiredKeeps ==
    ASSUME FeedIInv, Required
    PROVE  /\ FeedIInv'
           /\ cache'.rev = cache.rev /\ cache'.age < cache.age => silent
<1>1. /\ read.at = "none" /\ InMemory /\ Ends(None, FALSE)
      /\ UNCHANGED <<feed, up, rev, link, mem, map, fut>>
  BY DEF Required, InMemory, driver, world
<1>2. ~Turning
  BY <1>1 DEF FeedIInv, SecondAttempt
<1>3. fut' \in [at : {"none", "open", "done", "lost"}, age : Nat, rev : Revs \cup {None}]
  BY <1>1 DEF FeedIInv, FeedTypeOK
<1> QED
  BY <1>1, <1>2, <1>3, EndsKeeps

LEMMA NoCallType ==
    /\ NoCall \in [at : {"none", "open", "done", "lost"}, age : Nat, rev : Revs \cup {None}]
    /\ NoCall.at = "none"
    /\ [NoCall EXCEPT !.at = "open"] \in
         [at : {"none", "open", "done", "lost"}, age : Nat, rev : Revs \cup {None}]
    /\ [NoCall EXCEPT !.at = "open"].at = "open"
  BY DEF NoCall

\* A call that is done is collected.
LEMMA CollectsKeeps ==
    ASSUME FeedIInv, read.at \in {"none", "wait"}, fut.at = "done", fut' = NoCall,
           Ends(fut.rev, FALSE), UNCHANGED <<driver, map>>
    PROVE  /\ FeedIInv'
           /\ cache'.rev = cache.rev /\ cache'.age < cache.age => silent
<1>1. fut.rev \in Revs \cup {None} /\ UNCHANGED <<feed, up, rev, link, mem, map>>
  BY DEF FeedIInv, FeedTypeOK, driver, world
<1>2. fut.rev = None => ~Turning
  BY DEF FeedIInv, SecondAttempt, GapsAreSilence
<1> QED
  BY <1>1, <1>2, NoCallType, EndsKeeps

\* A call that is not done is left alone, and there is no scan.
LEMMA LeavesKeeps ==
    ASSUME FeedIInv, fut.at # "done", UNCHANGED <<fut, driver, map>>, Ends(None, TRUE)
    PROVE  /\ FeedIInv'
           /\ cache'.rev = cache.rev /\ cache'.age < cache.age => silent
<1>1. /\ UNCHANGED <<feed, up, rev, link, mem, map>>
      /\ fut' \in [at : {"none", "open", "done", "lost"}, age : Nat, rev : Revs \cup {None}]
      /\ fut'.at # "done"
  BY DEF FeedIInv, FeedTypeOK, driver, world
<1> QED
  BY <1>1, EndsKeeps

LEMMA PollsKeeps ==
    ASSUME FeedIInv, Polls
    PROVE  /\ FeedIInv'
           /\ cache'.rev = cache.rev /\ cache'.age < cache.age => silent
<1>1. CASE fut.at = "done" /\ fut' = NoCall /\ Ends(fut.rev, FALSE)
  BY <1>1, CollectsKeeps DEF Polls
<1>2. CASE fut.at \in {"open", "lost"} /\ Ends(None, TRUE) /\ UNCHANGED fut
  BY <1>2, LeavesKeeps DEF Polls
<1>3. CASE fut' = [NoCall EXCEPT !.at = "open"] /\ At("wait") /\ UNCHANGED <<cache, gap, silent>>
  <2>1. /\ read.at = "none" /\ UNCHANGED <<feed, up, rev, link, mem, map, cache, gap, silent>>
        /\ read' \in [at : {"wait"}, try : {1, 2}]
    BY <1>3 DEF FeedIInv, FeedTypeOK, Polls, driver, world, At
  <2>2. FeedTypeOK' /\ FramesHeld' /\ Attempts'
    BY <1>3, <2>1, NoCallType DEF FeedIInv, FeedTypeOK, FramesHeld, Attempts, InMemory
  <2>3. Offered' /\ SecondAttempt' /\ GapsAreSilence'
    BY <1>3, <2>1, NoCallType
       DEF FeedIInv, Offered, SecondAttempt, GapsAreSilence, Turning, InMemory
  <2>4. cache.age \in Nat /\ cache' = cache
    BY <2>1 DEF FeedIInv, FeedTypeOK
  <2> QED
    BY <2>2, <2>3, <2>4 DEF FeedIInv
<1> QED
  BY <1>1, <1>2, <1>3 DEF Polls

LEMMA AwaitsAnswerKeeps ==
    ASSUME FeedIInv, AwaitsAnswer
    PROVE  /\ FeedIInv'
           /\ cache'.rev = cache.rev /\ cache'.age < cache.age => silent
<1>1. CASE fut.at = "done" /\ fut' = NoCall /\ Ends(fut.rev, FALSE)
  BY <1>1, CollectsKeeps DEF AwaitsAnswer
<1>2. CASE fut.at # "done" /\ Ends(None, TRUE) /\ UNCHANGED fut
  BY <1>2, LeavesKeeps DEF AwaitsAnswer
<1> QED
  BY <1>1, <1>2 DEF AwaitsAnswer

LEMMA FeedNextIInv ==
    ASSUME FeedIInv, [FeedNext]_feedVars
    PROVE  FeedIInv' /\ [cache'.rev = cache.rev /\ cache'.age < cache.age => silent]_feedVars
<1>0. cache.age \in Nat /\ rev \in Revs /\ Another \in Revs /\ ~(cache.age < cache.age)
  BY AnotherRev DEF FeedIInv, FeedTypeOK
<1>1. CASE \E r \in {rev, Another} : WritesFrame(r)
  <2>1. FeedIInv' /\ cache' = cache
    BY <1>0, <1>1, WritesFrameKeeps DEF WritesFrame, client
  <2> QED
    BY <1>0, <2>1
<1>2. CASE Unlinks \/ Stops \/ Creates \/ Returns
  <2>1. FeedIInv' /\ cache' = cache
    BY <1>2, UnlinksKeeps, CreatesKeeps, ReturnsKeeps DEF Unlinks, Stops, Creates, Returns, client
  <2> QED
    BY <1>0, <2>1
<1>3. CASE Fails \/ Hangs \/ (\E r \in {rev, Another} : Answers(r))
  <2>1. FeedIInv' /\ cache' = cache
    BY <1>0, <1>3, CallKeeps DEF Fails, Hangs, Answers, client
  <2> QED
    BY <1>0, <2>1
<1>4. CASE Begins
  <2>1. FeedIInv' /\ cache'.age >= cache.age
    BY <1>4, BeginsKeeps
  <2>2. cache'.age \in Nat
    BY <2>1 DEF FeedIInv, FeedTypeOK
  <2> QED
    BY <1>0, <2>1, <2>2
<1>5. CASE ChecksMapping \/ Stats
  <2>1. FeedIInv' /\ cache' = cache
    BY <1>5, ChecksMappingKeeps, StatsKeeps DEF ChecksMapping, Stats
  <2> QED
    BY <1>0, <2>1
<1>6. CASE Reads \/ Required \/ Polls \/ AwaitsAnswer
  BY <1>6, ReadsKeeps, RequiredKeeps, PollsKeeps, AwaitsAnswerKeeps
<1>7. CASE UNCHANGED feedVars
  BY <1>7
     DEF feedVars, FeedIInv, FeedTypeOK, FramesHeld, Offered, Attempts, SecondAttempt,
         GapsAreSilence, Turning, InMemory
<1> QED
  BY <1>1, <1>2, <1>3, <1>4, <1>5, <1>6, <1>7 DEF FeedNext, Engine

\* The inductive invariant of the way from the lidar to the engine.
THEOREM FeedInvariant == FeedSpec => []FeedIInv
  BY FeedInitIInv, FeedNextIInv, PTL DEF FeedSpec

\* The objects, the mapping, the call in flight and the cached scan keep their
\* types, whatever the ages allowed.
THEOREM FeedTypes == FeedSpec => []FeedTypeOK
<1>1. FeedIInv => FeedTypeOK
  BY DEF FeedIInv
<1> QED
  BY <1>1, FeedInvariant, PTL

\* BuiltinSensors.get_scan: a revolution is matched twice only if the lidar has
\* stopped, restarted or been late since the last scan.
THEOREM RevolutionsAreMatchedOnce == FeedSpec => MatchedOnce
<1>1. FeedIInv /\ [FeedNext]_feedVars
        => [cache'.rev = cache.rev /\ cache'.age < cache.age => silent]_feedVars
  BY FeedNextIInv
<1> QED
  BY <1>1, FeedInvariant, PTL DEF FeedSpec, MatchedOnce
=============================================================================
