---------------------------- MODULE EventBuffer ----------------------------
(***************************************************************************)
(* EventBuffer, the ring both services keep their events in, as operators  *)
(* on the sequence it holds, oldest event first.  A push takes the mutex   *)
(* of the ring and reads the clock under it.                               *)
(***************************************************************************)
EXTENDS Naturals, Sequences, SequencesExt

CONSTANT Capacity  \* EVENT_BUFFER_CAPACITY of both services (200)

\* push: the oldest event makes room.
Push(buffer, event) ==
  Append(IF Len(buffer) >= Capacity THEN Tail(buffer) ELSE buffer, event)

\* Mutant of Newest: the cut comes before the reversal.
NewestCutFirst(buffer, n) ==
  Reverse(SubSeq(buffer, 1, IF Len(buffer) < n THEN Len(buffer) ELSE n))

\* A snapshot as both services send it: reversed, then cut to n events.
Newest(buffer, n) ==
  SubSeq(Reverse(buffer), 1, IF Len(buffer) < n THEN Len(buffer) ELSE n)
=============================================================================
