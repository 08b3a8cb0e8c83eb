------------------------------- MODULE Digest -------------------------------
(***************************************************************************)
(* mg_md5 hashes a list of strings: which blocks MD5Transform is given,    *)
(* whatever the lengths of the strings.  The transformation itself is not  *)
(* modelled; a byte is any value, and the length counts bytes.             *)
(***************************************************************************)
EXTENDS Integers, Sequences, SequencesExt

CONSTANTS
  BlockSize,   \* 64 bytes in the code
  LengthSize,  \* the 8 of them that hold the length, here one per word
  LowWord      \* bytes the low word of the length counts: 2^29 in the code

ASSUME DigestAssumption ==
  /\ LengthSize = 2
  /\ BlockSize \in Nat /\ BlockSize > LengthSize
  /\ LowWord \in Nat \ {0} /\ LowWord % BlockSize = 0

Pad  == -1   \* the byte 0x80
Zero == -2
Old  == -3   \* what the buffer held before

\* Bytes written over a buffer, from position at on (counted from 0).
Put(in, at, bytes) ==
  [k \in 1 .. BlockSize |-> IF k - at \in 1 .. Len(bytes) THEN bytes[k - at] ELSE in[k]]

Zeros(n) == [k \in 1 .. n |-> Zero]

MD5Init ==
  [lo |-> 0, hi |-> 0, in |-> [k \in 1 .. BlockSize |-> Old], blocks |-> <<>>]

MD5Transform(ctx, in) == [ctx EXCEPT !.in = in, !.blocks = Append(@, in)]

\* ctx->bits: the carry is seen in the sum being smaller than before.
Counted(ctx, len) ==
  LET lo == (ctx.lo + len) % LowWord
      carry == IF lo < ctx.lo THEN 1 ELSE 0
  IN [ctx EXCEPT !.lo = lo, !.hi = @ + carry + len \div LowWord]

\* The whole blocks of the bytes from k on, then the rest into the buffer.
Absorb(ctx, bytes) ==
  LET whole == Len(bytes) \div BlockSize
      blk(n) == SubSeq(bytes, (n - 1) * BlockSize + 1, n * BlockSize)
      after == FoldLeft(LAMBDA c, n : MD5Transform(c, blk(n)), ctx,
                        [n \in 1 .. whole |-> n])
      left  == SubSeq(bytes, whole * BlockSize + 1, Len(bytes))
  IN [after EXCEPT !.in = Put(@, 0, left)]

MD5Update(ctx, bytes) ==
  LET held == ctx.lo % BlockSize
      room == BlockSize - held
      now  == Counted(ctx, Len(bytes))
  IN IF held = 0 THEN Absorb(now, bytes)
     ELSE IF Len(bytes) < room THEN [now EXCEPT !.in = Put(@, held, bytes)]
     ELSE Absorb(MD5Transform(now, Put(now.in, held, SubSeq(bytes, 1, room))),
                 SubSeq(bytes, room + 1, Len(bytes)))

\* Mutant: a block with room for the length alone is thought to be full.
NoRoomStrict(count) == count <= LengthSize

NoRoom(count) == count < LengthSize

\* The padding and the length, in a block of their own if there is no room.
MD5Final(ctx) ==
  LET held  == ctx.lo % BlockSize
      count == BlockSize - 1 - held
      in    == Put(ctx.in, held, <<Pad>>)
      last  == IF NoRoom(count)
                 THEN MD5Transform(ctx, Put(in, held + 1, Zeros(count)))
                 ELSE [ctx EXCEPT !.in = Put(in, held + 1, Zeros(count - LengthSize))]
      full  == IF NoRoom(count) THEN Put(last.in, 0, Zeros(BlockSize - LengthSize))
                                ELSE last.in
  IN MD5Transform(last, Put(full, BlockSize - LengthSize, <<ctx.lo, ctx.hi>>)).blocks

Md5(strings) == MD5Final(FoldLeft(MD5Update, MD5Init, strings))
=============================================================================
