------------------------------ MODULE CellCodec ------------------------------
(***************************************************************************)
(* Cells on a byte stream: write_to_stream, by several tasks that share a  *)
(* write half under its mutex, and from_stream at the other end.  A write  *)
(* and a read take as many steps as the transport likes, the connection    *)
(* may end between any two bytes, and a read under a handshake timeout may *)
(* be given up, with its connection.                                       *)
(*                                                                         *)
(* A header field takes one place on the wire, whatever its width, and the *)
(* digest, which is carried like the ids, is left out.                     *)
(***************************************************************************)
EXTENDS Naturals, Sequences, SequencesExt

CONSTANTS
  MaxPayload,  \* MAX_PAYLOAD_SIZE (497)
  Bytes,       \* the bytes of payloads and of their random padding
  Circuits,    \* circuit ids
  Sent,        \* the commands of the messages that are sent
  MaxCells     \* bound: cells of a run

VARIABLES
  out,       \* what remains of the write_all that holds the writer's mutex
  wire,      \* bytes under way
  link,      \* "up", "closed" by the writer, or "broken"
  buf,       \* bytes read_exact has so far
  reader,    \* "reading", "eof" (None), "failed" or "gone"
  written,   \* history: the messages that were taken for writing
  messages   \* history: the messages from_stream returned

vars == <<out, wire, link, buf, reader, written, messages>>

\* The codes of from_u8.
MessageCommand == 0 .. 5 \union 16 .. 19

HeaderSize == 4
CellSize == HeaderSize + MaxPayload

Message ==
  [circuit : Circuits, command : Sent, data : BoundedSeq(Bytes, MaxPayload + 1)]

\* to_bytes, with the random bytes that fill the cell; it would truncate a
\* longer payload.
ToBytes(m, padding) ==
  <<CellSize, m.circuit, m.command, Len(m.data)>>
    \o SubSeq(m.data \o padding, 1, MaxPayload)

\* Mutant of Data: the payload ends with the cell.
DataToTheEnd(bytes) == SubSeq(bytes, HeaderSize + 1, CellSize)

\* The payload of a cell: as long as its length field says.
Data(bytes) == SubSeq(bytes, HeaderSize + 1, HeaderSize + bytes[4])

\* What from_bytes refuses.
Malformed(bytes) ==
  \/ bytes[1] # CellSize
  \/ bytes[3] \notin MessageCommand
  \/ bytes[4] > MaxPayload

FromBytes(bytes) ==
  [circuit |-> bytes[2], command |-> bytes[3], data |-> Data(bytes)]
-----------------------------------------------------------------------------
Init ==
  /\ out = <<>> /\ wire = <<>> /\ buf = <<>>
  /\ link = "up" /\ reader = "reading"
  /\ written = <<>> /\ messages = <<>>

\* Mutant of Write: the cell goes out while another is being written.
WriteUnlocked(m, padding) ==
  /\ link = "up" /\ Len(written) < MaxCells
  /\ Len(m.data) <= MaxPayload
  /\ out' = ToBytes(m, padding) \o out
  /\ written' = Append(written, m)
  /\ UNCHANGED <<wire, link, buf, reader, messages>>

\* write_to_stream, with the lock of the write half: PayloadTooLarge leaves
\* nothing on the wire.
Write(m, padding) ==
  /\ link = "up" /\ out = <<>> /\ Len(written) < MaxCells
  /\ Len(m.data) <= MaxPayload
  /\ out' = ToBytes(m, padding)
  /\ written' = Append(written, m)
  /\ UNCHANGED <<wire, link, buf, reader, messages>>

\* write_all goes on.
Transmit ==
  /\ link = "up" /\ out # <<>>
  /\ wire' = Append(wire, Head(out)) /\ out' = Tail(out)
  /\ UNCHANGED <<link, buf, reader, written, messages>>

\* The writer is dropped.
Close ==
  /\ link = "up" /\ out = <<>>
  /\ link' = "closed"
  /\ UNCHANGED <<out, wire, buf, reader, written, messages>>

\* The connection ends: what was under way may be lost.
Break ==
  /\ link = "up"
  /\ link' = "broken" /\ out' = <<>>
  /\ wire' \in Prefixes(wire)
  /\ UNCHANGED <<buf, reader, written, messages>>

\* read_exact takes what there is.
Receive ==
  /\ reader = "reading" /\ Len(buf) < CellSize /\ wire # <<>>
  /\ buf' = Append(buf, Head(wire)) /\ wire' = Tail(wire)
  /\ UNCHANGED <<out, link, reader, written, messages>>

\* from_stream returns a message, or InvalidData, on which every caller drops
\* the connection.
Decode ==
  /\ reader = "reading" /\ Len(buf) = CellSize
  /\ buf' = <<>>
  /\ IF Malformed(buf)
     THEN reader' = "failed" /\ UNCHANGED messages
     ELSE messages' = Append(messages, FromBytes(buf)) /\ UNCHANGED reader
  /\ UNCHANGED <<out, wire, link, written>>

\* UnexpectedEof is Ok(None), in the middle of a cell too; a connection that
\* broke may give another error.
Eof ==
  /\ reader = "reading" /\ Len(buf) < CellSize /\ wire = <<>> /\ link # "up"
  /\ \/ reader' = "eof"
     \/ link = "broken" /\ reader' = "gone"
  /\ UNCHANGED <<out, wire, link, buf, written, messages>>

\* HANDSHAKE_TIMEOUT drops the read, and the caller its connection: what
\* read_exact had is lost with it.
TimeOut ==
  /\ reader = "reading" /\ Len(buf) < CellSize
  /\ reader' = "gone" /\ buf' = <<>>
  /\ link' = IF link = "up" THEN "broken" ELSE link
  /\ out' = <<>> /\ wire' = <<>>
  /\ UNCHANGED <<written, messages>>

Next ==
  \/ \E m \in Message :
       \E padding \in TupleOf(Bytes, MaxPayload - Len(m.data)) :
         Write(m, padding)
  \/ Transmit \/ Close \/ Break \/ Receive \/ Decode \/ Eof \/ TimeOut

Spec == Init /\ [][Next]_vars
-----------------------------------------------------------------------------
(* Properties.                                                             *)

\* Every variable keeps its type.
TypeOK ==
  /\ out \in Seq(Nat) /\ wire \in Seq(Nat) /\ buf \in Seq(Nat)
  /\ Len(out) <= CellSize /\ Len(buf) <= CellSize
  /\ link \in {"up", "closed", "broken"}
  /\ reader \in {"reading", "eof", "failed", "gone"}
  /\ Len(written) <= MaxCells /\ Len(messages) <= MaxCells

\* The reader has the messages that were written, in order and unchanged, with
\* nothing of the padding, whoever wrote them and however the bytes were cut;
\* it finds no malformed cell, and after an orderly close it misses none.
ReadsWhatWasWritten ==
  /\ IsPrefix(messages, written)
  /\ reader # "failed"
  /\ reader = "eof" /\ link = "closed" => messages = written
=============================================================================
