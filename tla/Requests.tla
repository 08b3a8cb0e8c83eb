------------------------------ MODULE Requests ------------------------------
(***************************************************************************)
(* What mongoose makes of the head of a message: parse_http_message cuts   *)
(* it into a request line and headers, get_header looks one up.            *)
(* A text is a sequence of character codes.                                *)
(***************************************************************************)
EXTENDS Uri, Headers

CONSTANTS
  Methods,    \* what is_valid_http_method accepts, a set of texts
  Protocol,   \* "HTTP/"
  MaxHeaders  \* the size of http_headers, 64

ASSUME RequestsAssumption == MaxHeaders \in Nat \ {0}

Colon    == 58
LineEnds == {13, 10}
White    == {Space} \union 9 .. 13

\* Where a word ends, and the white space behind it.
EndOfWord == <<{Space}, {Space}>>
EndOfName == <<{Colon}, {Space}>>
EndOfLine == <<LineEnds, LineEnds>>

\* What a row of calls of skip and skip_quoted, without a quote character, cuts
\* off a text.
Words(text, ends) ==
  FoldLeft(LAMBDA got, e :
             LET skip == SkipQuoted(got.rest, e[1], e[2], 0) IN
               [words |-> Append(got.words, skip.word), rest |-> skip.rest],
           [words |-> <<>>, rest |-> text], ends)

\* Mutant: the headers end at the first one without a value.
ParseHttpHeadersUntilEmpty(text, headers) ==
  LET line == Words(text, <<EndOfName, EndOfLine>>) IN
    IF Len(headers) = MaxHeaders \/ line.words[2] = <<>> THEN headers
    ELSE Append(headers, [name |-> line.words[1], value |-> line.words[2]])

\* Up to MaxHeaders, until a name is empty.
RECURSIVE ParseHttpHeaders(_, _)
ParseHttpHeaders(text, headers) ==
  LET line == Words(text, <<EndOfName, EndOfLine>>) IN
    IF Len(headers) = MaxHeaders \/ line.words[1] = <<>> THEN headers
    ELSE ParseHttpHeaders(line.rest,
                          Append(headers, [name |-> line.words[1], value |-> line.words[2]]))

\* A head up to its last line feed.  Behind white space there is a request,
\* or a reply, which begins with the protocol.
ParseHttpMessage(text) ==
  LET line    == Words(SkipAll(text, 1, White), <<EndOfWord, EndOfWord, EndOfLine>>)
      method  == line.words[1]
      version == line.words[3]
      request == method \in Methods
  IN IF ~IsPrefix(Protocol, IF request THEN version ELSE method)
     THEN [ok |-> FALSE]
     ELSE [ok |-> TRUE, method |-> method, uri |-> line.words[2],
           version |-> IF request THEN SubSeq(version, Len(Protocol) + 1, Len(version))
                       ELSE version,
           headers |-> ParseHttpHeaders(line.rest, <<>>)]

NoHeader == [found |-> FALSE]

\* The first header of that name, whatever the case of its letters.
GetHeader(headers, name) ==
  LET k == SelectInSeq(headers, LAMBDA h : SameLetters(name, h.name)) IN
    IF k = 0 THEN NoHeader ELSE [found |-> TRUE, value |-> headers[k].value]
=============================================================================
