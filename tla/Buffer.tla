------------------------------- MODULE Buffer -------------------------------
(* Buffer: bytes between a read and a write index of a vector that grows, or *)
(* moves what is unread to its front, when the tail has no room.             *)
EXTENDS Integers, Sequences

CONSTANTS
  HeaderReservedSize, \* headerReservedSize_
  InitialSize,        \* initialSize
  Unset               \* what a cell holds before it is written

ASSUME BufferAssumption == HeaderReservedSize \in Nat /\ InitialSize \in Nat

Blank(n) == [i \in 1..n |-> Unset]

NewBuffer == [cells |-> Blank(HeaderReservedSize + InitialSize),
              read |-> HeaderReservedSize, write |-> HeaderReservedSize]

Readable(b) == SubSeq(b.cells, b.read + 1, b.write)
WriteableBytes(b) == Len(b.cells) - b.write

\* resize: a vector that doubles has its size as its capacity.
Grown(b, len) ==
  LET more == IF b.write + len > 2 * Len(b.cells)
              THEN b.write + len - Len(b.cells) ELSE Len(b.cells)
  IN [b EXCEPT !.cells = @ \o Blank(more)]

\* bytes written over the cells from index at on.
Over(cells, at, bytes) ==
  SubSeq(SubSeq(cells, 1, at) \o bytes \o SubSeq(cells, at + Len(bytes) + 1, Len(cells)),
         1, Len(cells))

\* The unread bytes are copied down to the reserved header.
Moved(b) ==
  [cells |-> Over(b.cells, HeaderReservedSize, Readable(b)),
   read |-> HeaderReservedSize, write |-> HeaderReservedSize + Len(Readable(b))]

Fits(b, len) == WriteableBytes(b) + b.read >= len + HeaderReservedSize

EnsureWritableBytes(b, len) ==
  IF WriteableBytes(b) >= len THEN b
  ELSE IF Fits(b, len) THEN Moved(b) ELSE Grown(b, len)

AppendBytes(b, bytes) ==
  LET room == EnsureWritableBytes(b, Len(bytes)) IN
  [room EXCEPT !.cells = Over(@, room.write, bytes), !.write = @ + Len(bytes)]

Retrieve(b, len) ==
  [b EXCEPT !.read = IF len <= Len(Readable(b)) THEN @ + len ELSE b.write]
=============================================================================
