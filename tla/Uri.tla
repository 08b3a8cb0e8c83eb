-------------------------------- MODULE Uri --------------------------------
(***************************************************************************)
(* What mongoose does to the texts of a request: URLs are decoded, encoded *)
(* and rid of dots and slashes, and variables and cookies are looked up.   *)
(* A text is a sequence of character codes without its final NUL.          *)
(***************************************************************************)
EXTENDS Integers, Sequences, SequencesExt

Space     == 32
Quote     == 34
Percent   == 37
Ampersand == 38
Plus      == 43
Dot       == 46
Slash     == 47
Semicolon == 59
Equals    == 61
Backslash == 92

IsDigit(c)     == c \in 48 .. 57
IsUpper(c)     == c \in 65 .. 90
IsHexDigit(c)  == IsDigit(c) \/ c \in 65 .. 70 \/ c \in 97 .. 102
Lower(c)       == IF IsUpper(c) THEN c + 32 ELSE c
SameLetters(s, t) ==
  Len(s) = Len(t) /\ \A k \in 1 .. Len(s) : Lower(s[k]) = Lower(t[k])

\* Character k, the terminating NUL behind the last one.
CharAt(s, k) == IF k \in 1 .. Len(s) THEN s[k] ELSE 0

\* The text up to its first NUL.
CString(s) ==
  LET nul == SelectInSeq(s, LAMBDA c : c = 0) IN
    IF nul = 0 THEN s ELSE SubSeq(s, 1, nul - 1)

\* What a buffer that held the text old holds after new was written over it.
Over(old, new) == new \o <<0>> \o SubSeq(old, Len(new) + 2, Len(old))

\* The position of the first element of S from k on, one past the end if none.
Scan(s, k, S) ==
  LET at == SelectInSubSeq(s, k, Len(s), LAMBDA c : c \in S) IN
    IF k > Len(s) \/ at = 0 THEN Len(s) + 1 ELSE at

-----------------------------------------------------------------------------
(* url_decode and url_encode *)

HexValue(c) == IF IsDigit(c) THEN c - 48 ELSE Lower(c) - 87
HexDigit(n) == IF n < 10 THEN n + 48 ELSE n + 87

IsEscape(s, k) ==
  s[k] = Percent /\ IsHexDigit(CharAt(s, k + 1)) /\ IsHexDigit(CharAt(s, k + 2))

\* The decoded text, cut to the destination, and its length or -1 if it was cut.
UrlDecode(src, dstLen, isForm) ==
  LET dec[k \in 1 .. Len(src) + 1] ==
        IF k > Len(src) THEN <<>>
        ELSE IF IsEscape(src, k)
          THEN <<16 * HexValue(src[k + 1]) + HexValue(src[k + 2])>> \o dec[k + 3]
        ELSE IF isForm /\ src[k] = Plus THEN <<Space>> \o dec[k + 1]
        ELSE <<src[k]>> \o dec[k + 1]
      fits == Len(dec[1]) <= dstLen - 1
  IN [len |-> IF fits THEN Len(dec[1]) ELSE -1,
      dst |-> IF fits THEN dec[1] ELSE SubSeq(dec[1], 1, dstLen - 1)]

\* Mutant: the percent sign is left as it is.
IsPlainPercent(c) ==
  \/ IsDigit(c) \/ IsUpper(c) \/ IsUpper(c - 32)
  \/ c \in {Dot, 95, 45, 36, 44, Semicolon, 126, 40, 41, Percent}

\* Letters, digits and ._-$,;~()
IsPlain(c) ==
  \/ IsDigit(c) \/ IsUpper(c) \/ IsUpper(c - 32)
  \/ c \in {Dot, 95, 45, 36, 44, Semicolon, 126, 40, 41}

\* The destination is PATH_MAX long and holds any file name.
UrlEncode(src) ==
  FlattenSeq([k \in 1 .. Len(src) |->
    IF IsPlain(src[k]) THEN <<src[k]>>
    ELSE <<Percent, HexDigit(src[k] \div 16), HexDigit(src[k] % 16)>>])

-----------------------------------------------------------------------------
(* The path of a request, and where a directory is redirected to *)

IsSeparator(c) == c \in {Slash, Backslash}
IsDots(s, k)   == CharAt(s, k) = Dot /\ CharAt(s, k + 1) = Dot

\* Mutant: one separator or pair of dots is skipped, not all that follow.
SkippedOnce(s, k) ==
  IF IsSeparator(CharAt(s, k)) THEN k + 1 ELSE IF IsDots(s, k) THEN k + 2 ELSE k

\* Where the text goes on after the separators and double dots at k.
Skipped(s, k) ==
  LET go[j \in k .. Len(s) + 1] ==
        IF IsSeparator(CharAt(s, j)) THEN go[j + 1]
        ELSE IF IsDots(s, j) THEN go[j + 2] ELSE j
  IN go[k]

RemoveDoubleDotsAndDoubleSlashes(s) ==
  LET rest[k \in 1 .. Len(s) + 1] ==
        IF k > Len(s) THEN <<>>
        ELSE <<s[k]>> \o rest[IF IsSeparator(s[k]) THEN Skipped(s, k + 1) ELSE k + 1]
  IN rest[1]

\* ri->uri as handle_request leaves it: the buffer the text is rewritten in.
UriBuffer(uri) ==
  LET decoded == Over(uri, UrlDecode(uri, Len(uri) + 1, FALSE).dst)
      text    == CString(decoded)
  IN Over(decoded, RemoveDoubleDotsAndDoubleSlashes(text))

PathOf(uri) == CString(UriBuffer(uri))

\* Mutant: the last character is looked for one place too early.
IsRedirectedEarly(uri) == CharAt(UriBuffer(uri), Len(uri) - 1) # Slash

\* Is the request for a directory answered with a redirect?  The test uses the
\* length the URI had before it was decoded.
IsRedirected(uri) == CharAt(UriBuffer(uri), Len(uri)) # Slash

Location(uri) == Append(PathOf(uri), Slash)

-----------------------------------------------------------------------------
(* mg_get_var and mg_get_cookie *)

NotFound == [len |-> -1, dst |-> <<>>]
TooSmall == -2

\* Mutant: a variable is found inside the name of another one.
IsVariableAt(data, name, k) ==
  /\ CharAt(data, k + Len(name)) = Equals
  /\ SameLetters(SubSeq(data, k, k + Len(name) - 1), name)

StartsVariable(data, name, k) ==
  /\ k = 1 \/ data[k - 1] = Ampersand
  /\ CharAt(data, k + Len(name)) = Equals
  /\ SameLetters(SubSeq(data, k, k + Len(name) - 1), name)

GetVar(data, name, dstLen) ==
  LET found == {k \in 1 .. Len(data) - Len(name) : StartsVariable(data, name, k)}
      first == CHOOSE k \in found : \A j \in found : k <= j
      from  == first + Len(name) + 1
      value == SubSeq(data, from, Scan(data, from, {Ampersand}) - 1)
      got   == UrlDecode(value, dstLen, TRUE)
  IN IF found = {} THEN NotFound
     ELSE IF got.len = -1 THEN [got EXCEPT !.len = TooSmall] ELSE got

\* Mutant: the quotes around a value are kept.
UnquotedKept(s) == s

\* A value of at least two characters between double quotes loses them.
Unquoted(s) ==
  IF Len(s) > 1 /\ s[1] = Quote /\ s[Len(s)] = Quote
    THEN SubSeq(s, 2, Len(s) - 1) ELSE s

\* strstr goes on behind a name that is not followed by '='.
GetCookie(header, name, dstLen) ==
  LET at(k) == SubSeq(header, k, k + Len(name) - 1) = name
      find[k \in 1 .. Len(header) + 1] ==
        IF k + Len(name) > Len(header) + 1 THEN 0
        ELSE IF ~at(k) THEN find[k + 1]
        ELSE IF CharAt(header, k + Len(name)) = Equals THEN k
        ELSE find[k + Len(name)]
      from  == find[1] + Len(name) + 1
      upTo  == Scan(header, from, {Space})
      end   == IF header[upTo - 1] = Semicolon THEN upTo - 1 ELSE upTo
      value == Unquoted(SubSeq(header, from, end - 1))
  IN IF find[1] = 0 THEN NotFound
     ELSE IF Len(value) < dstLen THEN [len |-> Len(value), dst |-> value]
     ELSE [len |-> TooSmall, dst |-> <<>>]
=============================================================================
