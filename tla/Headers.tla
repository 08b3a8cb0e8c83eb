------------------------------ MODULE Headers ------------------------------
(***************************************************************************)
(* What mongoose reads out of the values of two headers: the fields of a   *)
(* Digest Authorization, and the date of If-Modified-Since.                *)
(* A text is a sequence of one-character strings.                          *)
(***************************************************************************)
EXTENDS Integers, Sequences, SequencesExt

\* The position of the first character of S from k on, one past the end if none.
StrCspn(s, k, S) ==
  LET at == SelectInSubSeq(s, k, Len(s), LAMBDA c : c \in S) IN
    IF k > Len(s) \/ at = 0 THEN Len(s) + 1 ELSE at

\* The text behind the characters of S it begins with from k on.
SkipAll(s, k, S) ==
  LET at == SelectInSubSeq(s, k, Len(s), LAMBDA c : c \notin S) IN
    IF k > Len(s) \/ at = 0 THEN <<>> ELSE SubSeq(s, at, Len(s))

\* Mutant: one quoted delimiter is taken into a word, not all of them.
QuotedWordOnce(s, word, end, delimiters, quote) ==
  IF word = <<>> \/ Last(word) # quote \/ end > Len(s) THEN [word |-> word, end |-> end]
  ELSE LET next == StrCspn(s, end + 1, delimiters) IN
         [word |-> Front(word) \o SubSeq(s, end, next - 1), end |-> next]

\* While a word ends with the quote character, that character goes and the
\* delimiter behind it belongs to the word, up to the next delimiter.
RECURSIVE QuotedWord(_, _, _, _, _)
QuotedWord(s, word, end, delimiters, quote) ==
  IF word = <<>> \/ Last(word) # quote THEN [word |-> word, end |-> end]
  ELSE IF end > Len(s) THEN [word |-> Front(word), end |-> end]
  ELSE LET next == StrCspn(s, end + 1, delimiters) IN
         QuotedWord(s, Front(word) \o SubSeq(s, end, next - 1), next, delimiters, quote)

\* The word up to a delimiter, and the text behind the white space that follows.
SkipQuoted(s, delimiters, whitespace, quote) ==
  LET end == StrCspn(s, 1, delimiters)
      got == QuotedWord(s, SubSeq(s, 1, end - 1), end, delimiters, quote)
  IN [word |-> got.word, rest |-> SkipAll(s, got.end + 1, whitespace)]

\* The loop of parse_auth_header: a field is a name and a value that is quoted
\* or ends at a comma or a space; a later field replaces an earlier one.
RECURSIVE AuthFields(_, _)
AuthFields(text, fields) ==
  LET name   == SkipQuoted(SkipAll(text, 1, {" "}), {"="}, {" "}, "")
      quoted == name.rest # <<>> /\ Head(name.rest) = "\""
      value  == IF quoted THEN SkipQuoted(Tail(name.rest), {"\""}, {" "}, "\\")
                ELSE SkipQuoted(name.rest, {",", " "}, {" "}, "")
      comma  == quoted /\ value.rest # <<>> /\ Head(value.rest) = ","
      rest   == IF comma THEN Tail(value.rest) ELSE value.rest
  IN IF name.word = <<>> THEN fields
     ELSE AuthFields(rest, [n \in DOMAIN fields \union {name.word} |->
                              IF n = name.word THEN value.word ELSE fields[n]])

ParseAuthHeader(text) == AuthFields(text, [n \in {} |-> <<>>])

-----------------------------------------------------------------------------
(* parse_date_string: the days since 1970 of a date, month 1 being January *)

DaysBeforeMonth == <<0, 31, 59, 90, 120, 151, 181, 212, 243, 273, 304, 334>>

\* Mutant: centuries are leap years.
NumLeapYearsJulian(year) == year \div 4

NumLeapYears(year) == year \div 4 - year \div 100 + year \div 400

ParseDate(year, month, day) ==
  IF year <= 1970 THEN 0
  ELSE (year - 1970) * 365 + DaysBeforeMonth[month] + (day - 1)
       + NumLeapYears(year) - NumLeapYears(1970)
=============================================================================
