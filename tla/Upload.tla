------------------------------- MODULE Upload -------------------------------
(***************************************************************************)
(* mg_upload: a form with files is read through one buffer, and what lies  *)
(* between the headers of a part and the next boundary is written to its   *)
(* file.  A cell stands for the headers of a part, for a byte of its data  *)
(* or for a byte of the boundary.                                          *)
(***************************************************************************)
EXTENDS Integers, Sequences, SequencesExt

CONSTANTS
  Boundary,  \* "\r\n--" and the boundary of Content-Type, as cells
  Named      \* the headers of a part with a file name

BoundaryLen == Len(Boundary)

DropFirst(s, n) == SubSeq(s, n + 1, Len(s))

\* A request in the making: the buffer and its size, the content mg_read has not
\* returned yet, the files written, and how many were counted as uploaded.
Reading(content, size) ==
  [buf |-> <<>>, size |-> size, content |-> content, files |-> <<>>, uploaded |-> 0]

\* mg_read waits until the buffer is full or the content ends.
MgRead(r) ==
  LET room == r.size - Len(r.buf)
      n    == IF Len(r.content) < room THEN Len(r.content) ELSE room
  IN [r EXCEPT !.buf = @ \o SubSeq(r.content, 1, n), !.content = DropFirst(@, n)]

\* fwrite to the file of the current part, the last one.
Write(r, data) == [r EXCEPT !.files[Len(r.files)] = @ \o data]

\* Where the boundary may begin, counted from 0.
BoundaryAt(buf) ==
  {i \in 0 .. Len(buf) - BoundaryLen - 1 : SubSeq(buf, i + 1, i + BoundaryLen) = Boundary}

\* The data up to the first boundary in the buffer, and the file is complete.
CutAtBoundary(r) ==
  LET found == BoundaryAt(r.buf)
      i     == CHOOSE i \in found : \A j \in found : i <= j
  IN IF found = {} THEN r
     ELSE [Write(r, SubSeq(r.buf, 1, i)) EXCEPT
             !.buf = DropFirst(@, i + BoundaryLen), !.uploaded = @ + 1]

\* Mutant: one byte too little is kept for a boundary still to come.
FlushAllBut(r) ==
  LET n == Len(r.buf) - (BoundaryLen - 1) IN
    IF n <= 1 THEN r ELSE [Write(r, SubSeq(r.buf, 1, n)) EXCEPT !.buf = DropFirst(@, n)]

\* All but the last bytes, which may be the start of a boundary, are written,
\* whether a boundary was found before or not.
Flush(r) ==
  LET n == Len(r.buf) - BoundaryLen IN
    IF n <= 0 THEN r ELSE [Write(r, SubSeq(r.buf, 1, n)) EXCEPT !.buf = DropFirst(@, n)]

RECURSIVE ReadPart(_)
ReadPart(r) ==
  LET flushed == Flush(CutAtBoundary(r))
      next    == MgRead(flushed)
  IN IF next = flushed THEN flushed ELSE ReadPart(next)

\* A part with headers and a file name opens a file; anything else ends it all.
RECURSIVE MgUpload(_)
MgUpload(request) ==
  LET r == MgRead(request)
      h == SelectInSeq(r.buf, LAMBDA c : c = Named)
  IN IF h = 0 THEN r
     ELSE MgUpload(ReadPart([r EXCEPT !.buf = DropFirst(@, h), !.files = Append(@, <<>>)]))
=============================================================================
