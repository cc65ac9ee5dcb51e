----------------------------- MODULE PoseFanout -----------------------------
(***************************************************************************)
(* The pose hub's fan-out (PoseStreamHub): the drain thread appends the    *)
(* driver's samples, the losses the ring reported and session boundaries   *)
(* to a history of fixed capacity, and each consumer reads it through a    *)
(* cursor of its own, in chunks, so that the drain thread never waits for  *)
(* a long copy.  What is promised to a consumer is PoseChannel.            *)
(*                                                                         *)
(* A position keeps its place in the history, position % capacity, until   *)
(* the entry `capacity' further on overwrites it, so the history is a      *)
(* function of the positions retained.  A sample is its number.  The       *)
(* mutex is held by the consumer that is inside a locked section of its    *)
(* drain; the sections of the other calls are single steps.  The drain     *)
(* thread takes the mutex once for a batch: entry by entry allows more.    *)
(***************************************************************************)
EXTENDS Naturals, Sequences

CONSTANTS
  Consumers,
  Capacity,     \* HistoryCapacity
  CopyChunk,    \* entries a drain copies per hold of the mutex
  MaxEntries,   \* bound: entries appended
  MaxLosses     \* bound: losses marked by gaps and boundaries

ASSUME GeometryAssumption == Capacity \in Nat \ {0} /\ CopyChunk \in Nat \ {0}
ASSUME BoundsAssumption == MaxEntries \in Nat /\ MaxLosses \in Nat

VARIABLES
  history,          \* the entries retained, by position
  head,             \* position of the next write
  sampleCount,      \* samples appended
  sourceDropCount,  \* losses appended
  marks,            \* history: sourceDropCount at each sample
  cursor,           \* consumers
  call              \* where each consumer's drain is, and what it has

hubVars == <<history, head, sampleCount, sourceDropCount, marks>>
vars == <<hubVars, cursor, call>>

NoHole == [size |-> 0, boundary |-> FALSE]
Now == [historyPosition |-> head, samplePosition |-> sampleCount,
        sourceDropPosition |-> sourceDropCount, hole |-> NoHole]

Init ==
  /\ history = [p \in {} |-> 0] /\ head = 0 /\ sampleCount = 0 /\ sourceDropCount = 0
  /\ marks = <<>>
  /\ cursor = [c \in Consumers |-> Now]
  /\ call = [c \in Consumers |-> [pc |-> "idle", out |-> <<>>, dropped |-> 0, hole |-> NoHole,
                                  snapshotHead |-> 0, copied |-> 0]]

OldestAt(h) == IF h > Capacity THEN h - Capacity ELSE 0
Oldest == OldestAt(head)

Unlocked == \A c \in Consumers : call[c].pc \notin {"enter", "copy"}

-----------------------------------------------------------------------------
(* The drain thread.                                                        *)

Write(entry) ==
  /\ Unlocked /\ head < MaxEntries
  /\ history' = [p \in OldestAt(head + 1) .. head |-> IF p = head THEN entry ELSE history[p]]
  /\ head' = head + 1

AppendSample ==
  /\ Write([sample |-> sampleCount + 1, drops |-> sourceDropCount, samples |-> sampleCount,
            hasSample |-> TRUE])
  /\ sampleCount' = sampleCount + 1
  /\ marks' = Append(marks, sourceDropCount)
  /\ UNCHANGED <<sourceDropCount, cursor, call>>

Gap(count) ==
  /\ sourceDropCount + count <= MaxLosses
  /\ Write([sample |-> 0, drops |-> sourceDropCount + count, samples |-> sampleCount,
            hasSample |-> FALSE])
  /\ sourceDropCount' = sourceDropCount + count
  /\ UNCHANGED <<sampleCount, marks>>

AppendGap == (\E count \in 1 .. MaxLosses : Gap(count)) /\ UNCHANGED <<cursor, call>>

ForgetHoles ==
  /\ cursor' = [c \in Consumers |-> [Now EXCEPT !.hole.boundary = TRUE]]
  /\ Gap(1)
  /\ UNCHANGED call

\* Every cursor skips to now, with its hole still open and marked.
AppendSessionBoundary ==
  /\ cursor' = [c \in Consumers |->
                  [Now EXCEPT !.hole = [cursor[c].hole EXCEPT !.boundary = TRUE]]]
  /\ Gap(1)
  /\ UNCHANGED call

-----------------------------------------------------------------------------
(* DrainAppend.                                                             *)

\* AccountForHistoryOverflowLocked.  The gap markers overwritten are counted by
\* the first entry retained.
Overflow(c) == cursor[c].historyPosition < Oldest

Account(c) ==
  LET lost == history[Oldest].samples - cursor[c].samplePosition IN
  /\ cursor' = [cursor EXCEPT ![c] = [cursor[c] EXCEPT
       !.historyPosition = Oldest, !.samplePosition = @ + lost, !.hole.size = @ + lost]]
  /\ call' = [call EXCEPT ![c].dropped = @ + lost]

\* The entry about to be copied carries a loss the cursor has not seen.
SourceGap(c) ==
  LET p == cursor[c].historyPosition IN
  ~Overflow(c) /\ p < call[c].snapshotHead /\ history[p].drops > cursor[c].sourceDropPosition

Enter(c) ==
  /\ call[c].pc = "idle" /\ Unlocked
  /\ call' = [call EXCEPT ![c] = [pc |-> "enter", out |-> <<>>, dropped |-> 0, hole |-> NoHole,
                                  snapshotHead |-> head, copied |-> 0]]
  /\ UNCHANGED <<hubVars, cursor>>

EnterAccount(c) ==
  /\ call[c].pc = "enter" /\ Overflow(c) /\ Account(c)
  /\ UNCHANGED hubVars

Reserve(c) ==
  /\ call[c].pc = "enter" /\ ~Overflow(c)
  /\ call' = [call EXCEPT ![c].pc = "between"]
  /\ UNCHANGED <<hubVars, cursor>>

Chunk(c) ==
  /\ call[c].pc = "between" /\ Unlocked
  /\ call' = [call EXCEPT ![c].pc = "copy", ![c].copied = 0]
  /\ UNCHANGED <<hubVars, cursor>>

\* Never acknowledge a loss after copying an older prefix.
CutShort(c) ==
  /\ call[c].pc = "copy" /\ call[c].out # <<>> /\ (Overflow(c) \/ SourceGap(c))
  /\ call' = [call EXCEPT ![c].pc = "idle"]
  /\ UNCHANGED <<hubVars, cursor>>

ChunkAccount(c) ==
  /\ call[c].pc = "copy" /\ call[c].out = <<>> /\ Overflow(c) /\ Account(c)
  /\ UNCHANGED hubVars

CountSourceGap(c) ==
  LET lost == history[cursor[c].historyPosition].drops - cursor[c].sourceDropPosition IN
  /\ call[c].pc = "copy" /\ call[c].out = <<>> /\ SourceGap(c)
  /\ cursor' = [cursor EXCEPT ![c] = [cursor[c] EXCEPT
       !.sourceDropPosition = @ + lost, !.hole.size = @ + lost]]
  /\ call' = [call EXCEPT ![c].dropped = @ + lost]
  /\ UNCHANGED hubVars

Copying(c) == call[c].pc = "copy" /\ ~Overflow(c) /\ ~SourceGap(c)
Copied(c) == cursor[c].historyPosition >= call[c].snapshotHead

CopyEntry(c) ==
  LET entry == history[cursor[c].historyPosition] IN
  /\ Copying(c) /\ ~Copied(c) /\ call[c].copied < CopyChunk
  /\ cursor' = [cursor EXCEPT ![c] =
       [cursor[c] EXCEPT !.historyPosition = @ + 1,
                 !.samplePosition = IF entry.hasSample THEN entry.samples + 1 ELSE entry.samples,
                 !.hole = IF entry.hasSample THEN NoHole ELSE @]]
  /\ call' = [call EXCEPT ![c] =
       [call[c] EXCEPT !.copied = @ + 1,
                 !.out = IF entry.hasSample THEN Append(@, entry.sample) ELSE @,
                 !.hole = IF entry.hasSample /\ call[c].out = <<>> THEN cursor[c].hole ELSE @]]
  /\ UNCHANGED hubVars

ChunkFull(c) ==
  /\ Copying(c) /\ ~Copied(c) /\ call[c].copied >= CopyChunk
  /\ call' = [call EXCEPT ![c].pc = "between"]
  /\ UNCHANGED <<hubVars, cursor>>

Complete(c) ==
  /\ Copying(c) /\ Copied(c)
  /\ call' = [call EXCEPT ![c] = [call[c] EXCEPT !.pc = "idle",
                !.hole = IF call[c].out = <<>> THEN cursor[c].hole ELSE @]]
  /\ UNCHANGED <<hubVars, cursor>>

\* On the consumer's own thread.
DiscardBacklog(c) ==
  /\ call[c].pc = "idle" /\ Unlocked
  /\ cursor' = [cursor EXCEPT ![c] = Now]
  /\ UNCHANGED <<hubVars, call>>

-----------------------------------------------------------------------------
Drain(c) ==
  \/ EnterAccount(c) \/ Reserve(c) \/ Chunk(c) \/ CutShort(c) \/ ChunkAccount(c)
  \/ CountSourceGap(c) \/ CopyEntry(c) \/ ChunkFull(c) \/ Complete(c)

Next ==
  \/ AppendSample \/ AppendGap \/ AppendSessionBoundary
  \/ \E c \in Consumers : Enter(c) \/ DiscardBacklog(c) \/ Drain(c)

Spec == Init /\ [][Next]_vars

-----------------------------------------------------------------------------
(* The refinement of PoseChannel.                                           *)

At(c) == IF Overflow(c) THEN Oldest ELSE cursor[c].historyPosition
SamplesBefore(p) == IF p < head THEN history[p].samples ELSE sampleCount

Due(c) ==
  IF call[c].pc = "idle" \/ At(c) >= call[c].snapshotHead THEN 0
  ELSE SamplesBefore(call[c].snapshotHead) - SamplesBefore(At(c))

\* What the channel's variables are of a consumer.
Unread == [c \in Consumers |-> SamplesBefore(At(c)) + 1]
Told == [c \in Consumers |-> [samples |-> cursor[c].samplePosition,
                              losses |-> cursor[c].sourceDropPosition]]
Holes == [c \in Consumers |-> cursor[c].hole]
Calls == [c \in Consumers |->
            [open |-> call[c].pc # "idle", got |-> call[c].out, dropped |-> call[c].dropped,
             front |-> call[c].hole, due |-> Due(c),
             news |-> call[c].pc # "idle" /\ head # call[c].snapshotHead]]

Channel == INSTANCE PoseChannel WITH
  before <- marks, lost <- sourceDropCount, next <- Unread, told <- Told, hole <- Holes,
  call <- Calls

\* Whatever the history overwrites, however the chunks fall between appends and
\* wherever a boundary moves a cursor under a running copy, each consumer sees
\* what PoseChannel promises (PoseStreamHub::DrainAppend, AppendSessionBoundaryLocked).
ChannelKept == Channel!Spec

\* A batch never bridges a loss: its samples are consecutive, with nothing marked
\* lost between them (DrainAppend's overflowPending and sourcePending).
BatchUnbroken ==
  \A c \in Consumers : \A i \in 1 .. Len(call[c].out) - 1 :
    LET n == call[c].out[i] IN call[c].out[i + 1] = n + 1 /\ marks[n + 1] = marks[n]
=============================================================================
