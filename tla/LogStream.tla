----------------------------- MODULE LogStream -----------------------------
(***************************************************************************)
(* One output stream of a run: LogStreamCollector, RollingFile,            *)
(* BoundedByteTail, StreamShared and ManagedRunLogEventSource of           *)
(* crates/logging/src/lib.rs.                                              *)
(*                                                                         *)
(* A capture worker appends UTF-8 text to rolling files under a gate that  *)
(* readers share; a source of events follows the files and never holds the *)
(* worker up.  A byte is the offset it was accepted at.                    *)
(***************************************************************************)
EXTENDS Naturals, Sequences, FiniteSets

CONSTANTS
  FileBytes,     \* LogLimits.file_bytes
  FileCount,     \* LogLimits.files_per_stream
  MemoryBytes,   \* LogLimits.memory_bytes_per_stream
  ChunkBytes,    \* MAX_LOG_EVENT_BYTES: the most one range or event carries
  Texts,         \* what the process writes at once: widths of scalars in bytes
  MaxBytes,      \* bound: bytes of output
  MaxFailures    \* bound: failing system calls

ASSUME StreamLimits ==
  /\ FileCount \in Nat \ {0} /\ MaxBytes \in Nat /\ MaxFailures \in Nat
  /\ {FileBytes, MemoryBytes, ChunkBytes} \subseteq Nat
  /\ \A t \in Texts :
       /\ t \in Seq(1..4) /\ t # <<>>
       /\ \A i \in 1..Len(t) : t[i] <= FileBytes /\ t[i] <= MemoryBytes /\ t[i] <= ChunkBytes

VARIABLES
  disk,       \* the files, 0 the active one; an absent file is empty
  starts,     \* history: which accepted bytes begin a scalar
  shared,     \* StreamRuntime: the window and the status of the stream
  tail,       \* BoundedByteTail
  capture,    \* the capture worker
  rest,       \* the text being appended under the gate, as starts of scalars
  dirty,      \* the notification channel of capacity one is full
  source,     \* ManagedRunLogEventSource and its EventCursor
  event,      \* the last event
  misjudged,  \* the window could not be reconciled with the files
  failures

streamVars == <<disk, starts, shared, tail, capture, rest, dirty, source, event, misjudged, failures>>

Status == [eof |-> FALSE, diskError |-> FALSE, readError |-> FALSE]
NoEvent == [from |-> 0, first |-> 0, available |-> 0, bytes |-> <<>>, status |-> Status, failed |-> FALSE]

StreamInit ==
  /\ disk = [n \in 0..FileCount - 1 |-> <<>>]
  /\ starts = <<>>
  /\ shared = [first |-> 0, end |-> 0, status |-> Status]
  /\ tail = [first |-> 0, bytes |-> <<>>]
  /\ capture = "Reading" /\ rest = <<>>
  /\ dirty = FALSE
  /\ source = [at |-> "Wait", cursor |-> 0, backlog |-> FALSE, disconnected |-> FALSE,
               status |-> Status, failed |-> FALSE]
  /\ event = NoEvent
  /\ misjudged = FALSE
  /\ failures = 0

GateIsFree == rest = <<>>
Fails == failures < MaxFailures /\ failures' = failures + 1
Works == UNCHANGED failures

Offsets(a, b) == [i \in 1..b - a |-> a + i - 1]           \* the bytes a..b-1
StartsScalar(o) == o >= Len(starts) \/ starts[o + 1]
Joined(pieces, n) ==
  LET upTo[i \in 0..n] == IF i = 0 THEN <<>> ELSE upTo[i - 1] \o pieces[i] IN upTo[n]
Flags(t) == Joined([k \in 1..Len(t) |-> [i \in 1..t[k] |-> i = 1]], Len(t))
Least(a, b) == IF a < b THEN a ELSE b
----------------------------------------------------------------------------
(* Rolling files. *)

RetainedBytes(d) == Joined([k \in 1..FileCount |-> d[FileCount - k]], FileCount)
FreeBytes(d) == FileBytes - Len(d[0])

(* A rotation that got as far as emptying file i: the oldest is removed *)
(* first, then each file takes the place of the next older one.         *)
Rotated(d, i) ==
  [n \in 0..FileCount - 1 |-> IF n > i THEN d[n - 1] ELSE IF n = i THEN <<>> ELSE d[n]]

(* utf8_prefix_len *)
Prefix(text, most) ==
  CHOOSE n \in 0..Least(Len(text), most) :
    /\ n = Len(text) \/ text[n + 1]
    /\ \A m \in n + 1..Least(Len(text), most) : m # Len(text) /\ ~text[m + 1]

(* BoundedByteTail::append_utf8, for one chunk accepted at offset "at". *)
Appended(old, flags, at) ==
  LET n == Len(flags)
      begins(o) == IF o >= at THEN flags[o - at + 1] ELSE StartsScalar(o)
      all == IF n >= MemoryBytes THEN Offsets(at, at + n) ELSE old.bytes \o Offsets(at, at + n)
      over == IF Len(all) > MemoryBytes THEN Len(all) - MemoryBytes ELSE 0
      whole == {k \in over..Len(all) : k = Len(all) \/ over = 0 \/ begins(all[k + 1])}
      drop == CHOOSE k \in whole : \A j \in whole : k <= j
  IN  [first |-> at + n - (Len(all) - drop), bytes |-> SubSeq(all, drop + 1, Len(all))]
----------------------------------------------------------------------------
(* The window of retained offsets. *)

(* reconcile_retained_window after a failure; listing the files may fail *)
(* as well, and a window that does not fit the files makes reads fail.   *)
Reconciled(d) ==
  IF Len(RetainedBytes(d)) <= shared.end
    THEN [shared EXCEPT !.first = shared.end - Len(RetainedBytes(d)), !.status.diskError = TRUE]
    ELSE [shared EXCEPT !.status.diskError = TRUE]

Unavailable(d) ==
  /\ disk' = d
  /\ \/ shared' = Reconciled(d) /\ failures' = failures + 1 /\ UNCHANGED misjudged
     \/ /\ failures + 1 < MaxFailures /\ failures' = failures + 2
        /\ shared' = [shared EXCEPT !.status.diskError = TRUE] /\ misjudged' = TRUE

Unreadable == [ok |-> FALSE, first |-> 0, bytes |-> <<>>]

(* The files in the order of open_retained_files. *)
OldestFirst(d) == RetainedBytes(d)

(* read_snapshot; truncate_incomplete_utf8 gives up a scalar cut short. *)
ReadAt(offset, most) ==
  LET bytes == OldestFirst(disk)
      first == Least(IF offset > shared.first THEN offset ELSE shared.first, shared.end)
      cut   == SubSeq(bytes, first - shared.first + 1,
                      Least(first - shared.first + most, Len(bytes)))
      whole == {k \in 0..Len(cut) : StartsScalar(first + k)}
  IN  IF Len(bytes) # shared.end - shared.first \/ ~StartsScalar(first) THEN Unreadable
      ELSE [ok |-> TRUE, first |-> first,
            bytes |-> SubSeq(cut, 1, CHOOSE k \in whole : \A j \in whole : j <= k)]
----------------------------------------------------------------------------
(* The capture worker: capture_with_pipeline. *)

Output(t) ==
  /\ capture = "Reading" /\ GateIsFree
  /\ Len(starts) + Len(Flags(t)) <= MaxBytes
  /\ rest' = Flags(t)
  /\ UNCHANGED <<disk, starts, shared, tail, capture, dirty, source, event, misjudged, failures>>

(* One turn of append_utf8_under_gate: a rotation if the next scalar does *)
(* not fit, else a chunk.  A failure drops the rest and ends all appends. *)
NextWidth == CHOOSE w \in 1..Len(rest) : /\ w = Len(rest) \/ rest[w + 1]
                                         /\ \A v \in 2..w : ~rest[v]
NeedsRotation == FreeBytes(disk) < NextWidth

Rotate ==
  /\ rest # <<>> /\ NeedsRotation
  /\ disk' = Rotated(disk, 0)
  /\ shared' = [shared EXCEPT !.first = @ + Len(disk[FileCount - 1])]
  /\ UNCHANGED <<starts, tail, capture, rest, dirty, source, event, misjudged, failures>>

WriteChunk ==
  /\ rest # <<>> /\ ~NeedsRotation
  /\ LET n == Prefix(rest, FreeBytes(disk)) IN
     /\ disk' = [disk EXCEPT ![0] = @ \o Offsets(Len(starts), Len(starts) + n)]
     /\ tail' = Appended(tail, SubSeq(rest, 1, n), Len(starts))
     /\ starts' = starts \o SubSeq(rest, 1, n)
     /\ shared' = [shared EXCEPT !.end = @ + n]
     /\ rest' = SubSeq(rest, n + 1, Len(rest))
  /\ dirty' = (dirty \/ rest' = <<>>)
  /\ UNCHANGED <<capture, source, event, misjudged, failures>>

(* A write that fails half-way is rolled back to where the file ended. *)
AppendFails ==
  /\ rest # <<>> /\ failures < MaxFailures
  /\ \/ NeedsRotation /\ \E i \in 0..FileCount - 1 : Unavailable(Rotated(disk, i))
     \/ Unavailable(disk)
  /\ rest' = <<>> /\ capture' = "Failed" /\ dirty' = TRUE
  /\ UNCHANGED <<starts, tail, source, event>>

(* The pipe ends, or reading it fails. *)
EndOfFile ==
  /\ capture \in {"Reading", "Failed"} /\ GateIsFree
  /\ \/ /\ shared' = [shared EXCEPT !.status.eof = TRUE]
        /\ capture' = (IF capture = "Failed" THEN "Ended" ELSE "Flush") /\ Works
     \/ shared' = [shared EXCEPT !.status.readError = TRUE] /\ capture' = "Ended" /\ Fails
  /\ dirty' = TRUE
  /\ UNCHANGED <<disk, starts, tail, rest, source, event, misjudged>>

Flush ==
  /\ capture = "Flush" /\ capture' = "Ended"
  /\ \/ UNCHANGED <<disk, shared, dirty, misjudged, failures>>
     \/ failures < MaxFailures /\ Unavailable(disk) /\ dirty' = TRUE
  /\ UNCHANGED <<starts, tail, rest, source, event>>
----------------------------------------------------------------------------
(* The source of events: recv_batch.  The worker's end is seen once the *)
(* notifications before it are consumed.                                *)

Disconnected == capture = "Ended" /\ ~dirty

FaultyWaitForBatch ==   \* the end of the worker hides the backlog
  /\ source.at = "Wait"
  /\ \/ /\ source.disconnected \/ Disconnected
        /\ source' = [source EXCEPT !.at = "Ended"] /\ UNCHANGED dirty
     \/ /\ source.backlog /\ dirty' = FALSE
        /\ source' = [source EXCEPT !.at = "Fill"]
     \/ /\ ~source.backlog /\ ~source.disconnected /\ dirty
        /\ dirty' = FALSE /\ source' = [source EXCEPT !.at = "Throttle"]
  /\ UNCHANGED <<disk, starts, shared, tail, capture, rest, event, misjudged, failures>>

WaitForBatch ==
  /\ source.at = "Wait"
  /\ \/ /\ source.backlog /\ dirty' = FALSE
        /\ source' = [source EXCEPT !.at = "Fill", !.disconnected = @ \/ capture = "Ended"]
     \/ /\ ~source.backlog /\ (source.disconnected \/ Disconnected)
        /\ source' = [source EXCEPT !.at = "Ended"] /\ UNCHANGED dirty
     \/ /\ ~source.backlog /\ ~source.disconnected /\ dirty
        /\ dirty' = FALSE /\ source' = [source EXCEPT !.at = "Throttle"]
  /\ UNCHANGED <<disk, starts, shared, tail, capture, rest, event, misjudged, failures>>

(* Until the deadline more notifications are absorbed. *)
Throttle ==
  /\ source.at = "Throttle"
  /\ \/ dirty /\ dirty' = FALSE /\ UNCHANGED source
     \/ source' = [source EXCEPT !.at = "Fill", !.disconnected = Disconnected] /\ UNCHANGED dirty
     \/ source' = [source EXCEPT !.at = "Fill"] /\ UNCHANGED dirty
  /\ UNCHANGED <<disk, starts, shared, tail, capture, rest, event, misjudged, failures>>

Emit(first, bytes, failed) ==
  event' = [from |-> source.cursor, first |-> first, available |-> shared.first,
            bytes |-> bytes, status |-> shared.status, failed |-> failed]

(* fill_stream when the files can be read. *)
EmitRange ==
  LET s == ReadAt(source.cursor, ChunkBytes)
      next == s.first + Len(s.bytes)
  IN
  /\ source.at = "Fill" /\ GateIsFree /\ s.ok
  /\ source' = [source EXCEPT !.at = "Wait", !.cursor = next, !.backlog = next < shared.end,
                              !.failed = FALSE, !.status = shared.status]
  /\ IF s.bytes = <<>> /\ source.status = shared.status /\ ~source.failed /\ s.first = source.cursor
       THEN UNCHANGED event
       ELSE Emit(s.first, s.bytes, FALSE)
  /\ UNCHANGED <<disk, starts, shared, tail, capture, rest, dirty, misjudged, failures>>

FaultyEmitFailure ==   \* gives up what it could not read
  /\ source.at = "Fill" /\ GateIsFree
  /\ IF ReadAt(source.cursor, ChunkBytes).ok THEN Fails ELSE Works
  /\ source' = [source EXCEPT !.at = "Wait", !.backlog = FALSE, !.cursor = shared.end,
                              !.failed = TRUE, !.status = shared.status]
  /\ Emit(shared.end, <<>>, TRUE)
  /\ UNCHANGED <<disk, starts, shared, tail, capture, rest, dirty, misjudged>>

(* fill_stream when they cannot: the window does not fit, or the system    *)
(* refuses.  The error is told once, and nothing is tried again before the *)
(* next notification.                                                      *)
EmitFailure ==
  LET first == Least(IF source.cursor > shared.first THEN source.cursor ELSE shared.first, shared.end) IN
  /\ source.at = "Fill" /\ GateIsFree
  /\ IF ReadAt(source.cursor, ChunkBytes).ok THEN Fails ELSE Works
  /\ IF source.status = shared.status /\ source.failed
       THEN source' = [source EXCEPT !.at = "Wait", !.backlog = FALSE] /\ UNCHANGED event
       ELSE /\ source' = [source EXCEPT !.at = "Wait", !.backlog = FALSE, !.cursor = first,
                                        !.failed = TRUE, !.status = shared.status]
            /\ Emit(first, <<>>, TRUE)
  /\ UNCHANGED <<disk, starts, shared, tail, capture, rest, dirty, misjudged>>

Fill == EmitRange \/ EmitFailure
----------------------------------------------------------------------------
Append1 == Rotate \/ WriteChunk \/ AppendFails
Worker  == Append1 \/ Flush
Source  == WaitForBatch \/ Throttle \/ Fill

StreamNext == (\E t \in Texts : Output(t)) \/ EndOfFile \/ Worker \/ Source

StreamSpec == StreamInit /\ [][StreamNext]_streamVars

(* Both threads run on; the process that writes may go on for ever, so *)
(* nothing makes the pipe end.                                         *)
StreamProgress == Worker \/ Source

FairStreamSpec == StreamSpec /\ WF_streamVars(StreamProgress)
----------------------------------------------------------------------------
(* The memory of a stream is its end, in whole scalars and not less than *)
(* what fits.                                                            *)
TailIsSuffix ==
  /\ tail.bytes = Offsets(tail.first, Len(starts))
  /\ Len(tail.bytes) <= MemoryBytes /\ StartsScalar(tail.first)
  /\ tail.first = 0 \/ Len(tail.bytes) + 4 > MemoryBytes

(* A range read returns the bytes of the offsets it names, from rotated   *)
(* files as well and after any failure, never cuts a scalar, and reads on *)
(* as long as there is something retained; a read that would not is       *)
(* refused, which happens only when the files could not be listed.  The   *)
(* tail in memory agrees.                                                 *)
RangesAreFaithful ==
  /\ TailIsSuffix
  /\ GateIsFree => \A o \in 0..shared.end :
       LET s == ReadAt(o, ChunkBytes)
           next == s.first + Len(s.bytes)
       IN  StartsScalar(o) =>
             /\ s.ok \/ misjudged
             /\ s.ok => /\ s.bytes = Offsets(s.first, next) /\ s.first >= o
                        /\ StartsScalar(next)
                        /\ next > s.first \/ s.first = shared.end

(* The events carry the stream in order: an event goes on where the last *)
(* one ended, unless rotation dropped that part, and then it starts with *)
(* the oldest byte there is.                                             *)
EventsAreFaithful ==
  /\ event.bytes = Offsets(event.first, event.first + Len(event.bytes))
  /\ event.first # event.from => event.first > event.from /\ event.first = event.available

(* Who reads a log, in ranges or by its events, reads what the process *)
(* wrote, with no gap but the one rotation made.                       *)
ReadsAreFaithful == RangesAreFaithful /\ EventsAreFaithful

(* Once the worker has ended, the source ends too, and by then the last *)
(* byte and the last status were told, or that reading failed.          *)
AllIsTold ==
  capture = "Ended" ~>
    /\ source.at = "Ended"
    /\ ~source.failed => source.cursor = shared.end /\ source.status = shared.status
=============================================================================
