------------------------------ MODULE ShmRing ------------------------------
(***************************************************************************)
(* One double-buffered shared-memory object, the frames a Writer puts into *)
(* it and one Reader (src/src/shm/pcshm.py; imushm.py uses the same two    *)
(* classes for samples of the IMU).  Writer and reader are processes with  *)
(* no lock between them.                                                   *)
(*                                                                         *)
(* A frame is the words of one write: payload, timestamp and length.  What *)
(* a word holds is abstracted to the number of the write it is from.  The  *)
(* words are copied in any order, which memcpy is free to choose; each     *)
(* access to a sequence number, and each store before a later store, is    *)
(* seen by the other process in program order.                             *)
(***************************************************************************)
EXTENDS Naturals

CONSTANTS
    Words,          \* the words of a slot
    Retries,        \* tries of one read; the code has 64
    MaxWrites       \* bound: calls of write

ASSUME RingAssumption ==
    /\ Words # {}
    /\ Retries \in Nat \ {0}
    /\ MaxWrites \in Nat

Slots == {0, 1}     \* NUM_SLOTS

NoSlot == 2         \* best_slot = -1

VARIABLES
    seq,        \* sequence number of each slot
    data,       \* for each slot, the write each of its words is from
    next,       \* Writer._next
    write,      \* the write under way: whether, and the words still to copy
    writes,     \* calls of write so far
    frames,     \* writes that completed (ghost)
    newest,     \* the newest of them (ghost)
    pc,         \* where the reader is in read
    best,       \* best_slot and best_seq
    copy,       \* the words copied out so far, and from which write each is
    tries,      \* tries of this read that were torn
    got,        \* the frame the last successful read returned
    floor,      \* newest when this read began (ghost)
    began       \* writes when this read began (ghost)

writerVars == <<seq, data, next, write, writes, frames, newest>>
readerVars == <<pc, best, copy, tries, got, floor, began>>
vars == <<seq, data, next, write, writes, frames, newest,
          pc, best, copy, tries, got, floor, began>>

Odd(n) == n % 2 = 1

Nothing == [w \in Words |-> 0]

Idle == [on |-> FALSE, todo |-> {}]

TypeOK ==
    /\ seq \in [Slots -> Nat]
    /\ data \in [Slots -> [Words -> Nat]]
    /\ next \in Slots
    /\ write \in [on : BOOLEAN, todo : SUBSET Words]
    /\ writes \in Nat
    /\ frames \in SUBSET Nat
    /\ newest \in Nat
    /\ pc \in {"idle", "peek0", "peek1", "copy", "check"}
    /\ best \in [slot : Slots \cup {NoSlot}, seq : Nat]
    /\ copy \in [done : SUBSET Words, word : [Words -> Nat]]
    /\ tries \in 0 .. Retries
    /\ got \in Nat
    /\ floor \in Nat
    /\ began \in Nat

Init ==
    /\ seq = [s \in Slots |-> 0]
    /\ data = [s \in Slots |-> Nothing]
    /\ next = 0
    /\ write = Idle
    /\ writes = 0
    /\ frames = {}
    /\ newest = 0
    /\ pc = "idle"
    /\ best = [slot |-> NoSlot, seq |-> 0]
    /\ copy = [done |-> {}, word |-> Nothing]
    /\ tries = 0
    /\ got = 0
    /\ floor = 0
    /\ began = 0

-----------------------------------------------------------------------------
(* Writer.write *)

\* The slot of the write under way: _next has moved on already.
Target == 1 - next

\* Takes the slot, flips _next and makes the sequence number odd.
BeginWrite ==
    /\ ~write.on
    /\ writes < MaxWrites
    /\ next' = 1 - next
    /\ seq' = [seq EXCEPT ![next] = IF Odd(@) THEN @ + 2 ELSE @ + 1]
    /\ write' = [on |-> TRUE, todo |-> Words]
    /\ writes' = writes + 1
    /\ UNCHANGED <<data, frames, newest, readerVars>>

WriteWord(w) ==
    /\ write.on
    /\ w \in write.todo
    /\ data' = [data EXCEPT ![Target][w] = writes]
    /\ write' = [write EXCEPT !.todo = @ \ {w}]
    /\ UNCHANGED <<seq, next, writes, frames, newest, readerVars>>

\* Mutant: publishes before the last word is written.
EndWriteEarly ==
    /\ write.on
    /\ seq' = [seq EXCEPT ![Target] = @ + 1]
    /\ write' = Idle
    /\ frames' = frames \cup {writes}
    /\ newest' = writes
    /\ UNCHANGED <<data, next, writes, readerVars>>

EndWrite ==
    /\ write.on
    /\ write.todo = {}
    /\ seq' = [seq EXCEPT ![Target] = @ + 1]
    /\ write' = Idle
    /\ frames' = frames \cup {writes}
    /\ newest' = writes
    /\ UNCHANGED <<data, next, writes, readerVars>>

\* The copy raises: the slot stays odd, the writer goes on with the other.
FailWrite ==
    /\ write.on
    /\ write' = Idle
    /\ UNCHANGED <<seq, data, next, writes, frames, newest, readerVars>>

-----------------------------------------------------------------------------
(* Reader.read *)

BeginRead ==
    /\ pc = "idle"
    /\ pc' = "peek0"
    /\ best' = [slot |-> NoSlot, seq |-> 0]
    /\ tries' = 0
    /\ floor' = newest
    /\ began' = writes
    /\ UNCHANGED <<writerVars, copy, got>>

\* The scan takes slot s: it is complete and no older than the best so far.
Better(s) == seq[s] # 0 /\ ~Odd(seq[s]) /\ seq[s] >= best.seq

Peek(s) == best' = IF Better(s) THEN [slot |-> s, seq |-> seq[s]] ELSE best

Peek0 ==
    /\ pc = "peek0"
    /\ Peek(0)
    /\ pc' = "peek1"
    /\ UNCHANGED <<writerVars, copy, tries, got, floor, began>>

\* After the second slot, NoFrameError or the copy.
Peek1 ==
    /\ pc = "peek1"
    /\ Peek(1)
    /\ pc' = IF best'.slot = NoSlot THEN "idle" ELSE "copy"
    /\ copy' = [done |-> {}, word |-> Nothing]
    /\ UNCHANGED <<writerVars, tries, got, floor, began>>

CopyWord(w) ==
    /\ pc = "copy"
    /\ w \notin copy.done
    /\ copy' = [done |-> copy.done \cup {w},
                word |-> [copy.word EXCEPT ![w] = data[best.slot][w]]]
    /\ UNCHANGED <<writerVars, pc, best, tries, got, floor, began>>

CopyDone ==
    /\ pc = "copy"
    /\ copy.done = Words
    /\ pc' = "check"
    /\ UNCHANGED <<writerVars, best, copy, tries, got, floor, began>>

\* Mutant: the frame is returned without a second look at its number.
CheckNothing ==
    /\ pc = "check"
    /\ pc' = "idle"
    /\ \E w \in Words : got' = copy.word[w]
    /\ UNCHANGED <<writerVars, best, copy, tries, floor, began>>

\* The number is the one the scan saw: the copy is the frame.
CheckOk ==
    /\ pc = "check"
    /\ seq[best.slot] = best.seq
    /\ pc' = "idle"
    /\ \E w \in Words : got' = copy.word[w]
    /\ UNCHANGED <<writerVars, best, copy, tries, floor, began>>

\* Torn: scan again, or TornReadError after the last try.
CheckTorn ==
    /\ pc = "check"
    /\ seq[best.slot] # best.seq
    /\ tries' = tries + 1
    /\ pc' = IF tries' = Retries THEN "idle" ELSE "peek0"
    /\ best' = [slot |-> NoSlot, seq |-> 0]
    /\ UNCHANGED <<writerVars, copy, got, floor, began>>

-----------------------------------------------------------------------------
WriterNext == BeginWrite \/ (\E w \in Words : WriteWord(w)) \/ EndWrite \/ FailWrite

ReaderNext ==
    \/ BeginRead \/ Peek0 \/ Peek1 \/ CopyDone \/ CheckOk \/ CheckTorn
    \/ \E w \in Words : CopyWord(w)

Next == WriterNext \/ ReaderNext

Spec == Init /\ [][Next]_vars

-----------------------------------------------------------------------------
(* Properties *)

\* The payload, the timestamp and the length a read is about to return are all
\* of one completed write, whatever the writer did while they were copied.
NeverTorn ==
    pc = "check" /\ seq[best.slot] = best.seq
      => \E f \in frames : \A w \in Words : copy.word[w] = f

\* That frame is no older than any that was complete when the read began,
\* although the two sequence numbers are read one after the other.
NeverStale ==
    pc = "check" /\ seq[best.slot] = best.seq
      => \A w \in Words : copy.word[w] >= floor

\* A try is torn only if a write began since the read did, another for each
\* try: a reader spends its retries only on a writer that outruns it.
TornNeedsWriter == tries <= writes - began

Register == INSTANCE FrameRegister WITH reading <- pc # "idle"

\* The ring implements a register whose reads are whole and never go back.
RegisterSpec == Register!Spec
=============================================================================
