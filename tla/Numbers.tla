------------------------------ MODULE Numbers ------------------------------
(***************************************************************************)
(* The numbers of an update: unsigned values, memory in bytes and the time *)
(* are cut to unsigned and printed with "%d".                              *)
(***************************************************************************)
EXTENDS Integers

CONSTANTS
  WordBits,  \* bits of unsigned, 32 in the builds of cudamond
  LongBits,  \* bits of unsigned long long and of time_t
  Mega       \* 1024 * 1024

ASSUME NumbersAssumption ==
  /\ WordBits \in Nat \ {0} /\ LongBits \in Nat /\ LongBits > WordBits
  /\ Mega \in Nat \ {0}

Word == 0 .. 2 ^ WordBits - 1
Long == 0 .. 2 ^ LongBits - 1

\* (unsigned)
Cut(n) == n % 2 ^ WordBits

\* JSON_KEY_INTEGER: an unsigned read as an int.
PrintedInt(n) == IF n < 2 ^ (WordBits - 1) THEN n ELSE n - 2 ^ WordBits

\* Mutant: the bytes are cut before they are divided.
MebibytesOfWord(bytes) == PrintedInt(Cut(bytes) \div Mega)

Mebibytes(bytes) == PrintedInt(Cut(bytes \div Mega))

Memory(total, free, used) ==
  [total |-> Mebibytes(total), free |-> Mebibytes(free), used |-> Mebibytes(used)]

Time(lastUpdate) == PrintedInt(Cut(lastUpdate))
=============================================================================
