------------------------------ MODULE MCTexts ------------------------------
(***************************************************************************)
(* The functions of the server that turn one text or number into another,  *)
(* each checked against what it is for.  A behaviour picks one input; the  *)
(* properties say what the functions make of it.                           *)
(***************************************************************************)
EXTENDS Requests, Options, Listing, Access, Digest, CgiEnvironment, Upload, Numbers

VARIABLE input

FormBoundary == <<"r", "n", "x">>

\* "G" is a method and "H/" the protocol.
RequestMethods  == {<<71>>}
RequestProtocol == <<72, Slash>>

\* Two options, the second one without a default.
ServerOptions ==
  <<[short |-> <<97>>, long |-> <<97, 97>>, default |-> <<120>>],
    [short |-> <<98>>, long |-> <<98, 98>>, default |-> Unset]>>

\* .a, .ab and .b
BuiltinTypes ==
  <<[extension |-> <<Dot, 97>>, type |-> <<1>>],
    [extension |-> <<Dot, 97, 98>>, type |-> <<2>>],
    [extension |-> <<Dot, 98>>, type |-> <<3>>]>>
Plain == <<0>>

Total(s) == FoldLeft(LAMBDA a, b : a + b, 0, s)

\* Sequences over S of at most n elements.
UpTo(S, n) == UNION {[1 .. k -> S] : k \in 0 .. n}
Joined(texts, sep) ==
  FlattenSeq([k \in 1 .. Len(texts) |-> IF k = 1 THEN texts[k] ELSE sep \o texts[k]])

-----------------------------------------------------------------------------
(* The inputs *)

Init == input = [kind |-> "none"]

Pick(i) == input' = i

\* "/" and pieces behind it, plain and escaped.
Pieces == {<<Slash>>, <<Backslash>>, <<Dot>>, <<97>>, <<37, 50, 69>>, <<37, 50, 102>>}
PickUri == \E t \in UpTo(Pieces, 5) : Pick([kind |-> "uri", uri |-> <<Slash>> \o FlattenSeq(t)])

NameChars == {Dot, 97, 50, 102, Percent, Plus, Space, 63, Backslash, 200}
PickName ==
  \E name \in UpTo(NameChars, 3) \ {<<>>}, dir \in BOOLEAN :
    Pick([kind |-> "name", entry |-> [name |-> name, isDirectory |-> dir]])

\* Alternatives of a pattern, as tokens; a star is not followed by another one.
Tokens == {<<"a">>, <<"/">>, <<"?">>, <<"*">>, <<"*", "*">>}
Alternatives(n) ==
  {t \o e : t \in {u \in UpTo(Tokens, n) : \A k \in 1 .. Len(u) - 1 :
                     u[k] = <<"*">> => u[k + 1] \notin {<<"*">>, <<"*", "*">>}},
            e \in {<<>>, << <<"$">> >>}}
PickPattern ==
  \E a \in Alternatives(3), b \in {<<>>} \union {<<x>> : x \in Alternatives(1)} :
    Pick([kind |-> "pattern", alternatives |-> <<a>> \o b])

Networks ==
  {[parts |-> p, mask |-> m] :
     p \in {<<2>>, <<0, 0>>, <<2, 0>>, <<2, 1>>, <<3, 3>>, <<0, 4>>, <<2, 1, 3>>},
     m \in {None, 0, 1, 2, 3, 5}}
PickAcl ==
  \/ Pick([kind |-> "acl", list |-> None])
  \/ \E list \in UpTo([flag : {"+", "-", "x"}, spec : Networks], 2) :
       Pick([kind |-> "acl", list |-> list])

Keys ==
  {[kind |-> "all"], [kind |-> "uri", pattern |-> <<"/", "*">>],
   [kind |-> "uri", pattern |-> <<"a">>],
   [kind |-> "net", spec |-> [parts |-> <<2, 0>>, mask |-> 2]],
   [kind |-> "net", spec |-> [parts |-> <<3, 0>>, mask |-> 2]],
   [kind |-> "net", spec |-> [parts |-> <<2>>, mask |-> 2]]}
PickTraffic ==
  \E list \in UpTo([key : Keys, value : {-1, 0, 1, 3, None}, unit : {"none", "x"}], 1)
              \union [1 .. 2 -> [key : Keys, value : {2, None}, unit : {"none", "k"}]],
     writes \in UpTo([pause : {0, 1}, len : {1, 7}], 3) :
    Pick([kind |-> "traffic", list |-> list, writes |-> writes])

\* Names of options, known and not, and values.
PickStart ==
  \E options \in UpTo([name : {<<97>>, <<97, 97>>, <<98>>, <<99>>},
                       value : {<<>>, <<121>>, <<122>>, Unset}], 3) :
    Pick([kind |-> "start", options |-> options])

PickMime ==
  \E extra \in UpTo({e \in [ext : UpTo({Dot, 98}, 2), type : {<<>>, <<Equals, 99>>, Unset}] :
                         e.type = Unset => e.ext # <<>>}, 2),
     path \in UpTo({Slash, Dot, 97, 98, 66}, 4) \ {<<>>} :
    Pick([kind |-> "mime", extra |-> extra, path |-> path])

PickPorts ==
  \E list \in UpTo([valid : BOOLEAN, ssl : BOOLEAN, binds : BOOLEAN], 3), ready \in BOOLEAN :
    Pick([kind |-> "ports", list |-> list, sslReady |-> ready])

\* Strings to be hashed, by their lengths; every byte of them is different.
PickStrings == \E lengths \in UpTo(0 .. 9, 3) : Pick([kind |-> "strings", lengths |-> lengths])

AuthValues ==
  [quoted : {TRUE}, text : UpTo({"a", "\"", ",", "=", " "}, 2)]
    \union [quoted : {FALSE}, text : {<<"a">>, <<"a", "a">>}]
\* Headers a, A and ab, with values that hold what ends other fields.
PickHead ==
  \E headers \in UpTo([name : {<<97>>, <<65>>, <<97, 98>>},
                       value : {<<>>, <<120>>, <<121, Space, Colon>>}], 3),
     sep \in {<<Colon>>, <<Colon, Space, Space>>}, eol \in {<<10>>, <<13, 10>>},
     before \in {<<>>, <<13, 10>>}, version \in {<<72, Slash, 49>>, <<72>>} :
    Pick([kind |-> "head", headers |-> headers, sep |-> sep, eol |-> eol,
          before |-> before, version |-> version])

PickAuth ==
  \E names \in {<<"u">>, <<"u", "n">>, <<"n", "u">>},
     sep \in {<<",", " ">>, <<",">>, <<" ">>} :
     \E values \in [1 .. Len(names) -> AuthValues] :
       Pick([kind |-> "auth", names |-> names, values |-> values, sep |-> sep])

PickDate == \E y \in 1971 .. 2110, m \in 1 .. 12 : Pick([kind |-> "date", year |-> y, month |-> m])

\* a, b, ab and B; a value is any text.
VarNames == {<<97>>, <<98>>, <<97, 98>>, <<66>>}
PickVars ==
  \E vars \in UpTo([name : VarNames,
                    value : UpTo({97, Ampersand, Percent, Plus}, 2)], 2) :
    Pick([kind |-> "vars", vars |-> vars])

PickCookies ==
  \E cookies \in UpTo([name : VarNames, quoted : BOOLEAN,
                       value : UpTo({97, 120}, 2)], 2) :
    Pick([kind |-> "cookies", cookies |-> cookies])

Entry(n) == [name : {n}, isDirectory : BOOLEAN, size : 1 .. 2, mtime : 1 .. 2]
PickDirectory ==
  \E a \in Entry(<<97>>), b \in Entry(<<98>>), c \in Entry(<<97, 98>>), n \in 1 .. 3 :
    Pick([kind |-> "directory", entries |-> ToSet(SubSeq(<<a, b, c>>, 1, n))])

PickRequest ==
  \E usual \in 1 .. 3, there \in {{}, {"QUERY_STRING"}, ToSet(Optional)}, query \in {2, 20},
     headers \in UpTo({1, 7, 14}, 3), user \in UpTo({2}, 1) :
    Pick([kind |-> "request", headers |-> headers, user |-> user,
          lengths |-> [n \in ToSet(Always) \union there |->
                         IF n = "QUERY_STRING" THEN query ELSE usual]])

\* The data of a file, without a boundary in it.
PickForm ==
  \E data \in UpTo({"d"} \union ToSet(Boundary), 5) :
    /\ \A k \in 1 .. Len(data) - 2 : SubSeq(data, k, k + 2) # Boundary
    /\ Pick([kind |-> "form", data |-> data])

PickNumbers ==
  \E free, used \in 0 .. 2 ^ (LongBits - 1) - 1 :
    Pick([kind |-> "numbers", free |-> free, used |-> used])

Next ==
  /\ input.kind = "none"
  /\ \/ PickUri \/ PickName \/ PickPattern \/ PickAcl \/ PickTraffic \/ PickPorts
     \/ PickStart \/ PickMime \/ PickHead \/ PickStrings \/ PickAuth \/ PickDate
     \/ PickVars \/ PickCookies \/ PickDirectory \/ PickRequest \/ PickForm \/ PickNumbers

Spec == Init /\ [][Next]_input

-----------------------------------------------------------------------------
(* The texts of a request *)

\* However it is escaped, no path handle_request goes on with climbs out of the
\* directory before or holds an empty name, and a second pass changes nothing.
PathIsClean ==
  input.kind = "uri" =>
    LET p == PathOf(input.uri) IN
      /\ \A k \in 1 .. Len(p) : IsSeparator(p[k]) =>
           ~IsSeparator(CharAt(p, k + 1)) /\ ~IsDots(p, k + 1)
      /\ RemoveDoubleDotsAndDoubleSlashes(p) = p

\* The redirect of a directory leads to a URI that is answered, unless decoding
\* or cleaning made the URI shorter: the test reads the character at the length
\* the URI had before, and /d// is redirected to itself for ever.  (So is a URI
\* that ends in a backslash.)
RedirectSettles ==
  input.kind = "uri" /\ Len(PathOf(input.uri)) = Len(input.uri)
    /\ Last(input.uri) # Backslash =>
    /\ IsRedirected(input.uri) <=> Last(PathOf(input.uri)) # Slash
    /\ IsRedirected(input.uri) => /\ ~IsRedirected(Location(input.uri))
                                  /\ PathOf(Location(input.uri)) = Location(input.uri)

\* The link to a file on the page of its directory is a URI whose path is that
\* file, whatever is in its name, a backslash and two dots in front excepted.
LinkLeadsToEntry ==
  input.kind = "name" /\ ~Contains(input.entry.name, Backslash)
    /\ ~IsDots(input.entry.name, 1) =>
    LET dir == <<Slash, 100, Slash>> IN
      PathOf(Link(dir, input.entry)) =
        dir \o input.entry.name \o (IF input.entry.isDirectory THEN <<Slash>> ELSE <<>>)

\* A variable of a form is found under its name and no other's, the first one if
\* there are several, with the value it was encoded from, or it does not fit.
VariablesFound ==
  input.kind = "vars" =>
    LET data == Joined([k \in 1 .. Len(input.vars) |->
                          input.vars[k].name \o <<Equals>> \o UrlEncode(input.vars[k].value)],
                       <<Ampersand>>)
    IN \A name \in VarNames, dstLen \in 1 .. 3 :
         LET k   == SelectInSeq(input.vars, LAMBDA v : SameLetters(v.name, name))
             got == GetVar(data, name, dstLen)
         IN IF k = 0 THEN got.len = -1
            ELSE IF Len(input.vars[k].value) >= dstLen THEN got.len = TooSmall
            ELSE got = [len |-> Len(input.vars[k].value), dst |-> input.vars[k].value]

\* A cookie is found with its value, quoted or not, unless the name of one
\* before it ends with its name: mg_get_cookie does not look at what precedes.
CookiesFound ==
  input.kind = "cookies" =>
    LET quotes(c) == IF c.quoted THEN <<Quote>> ELSE <<>>
        header == Joined([k \in 1 .. Len(input.cookies) |->
                            LET c == input.cookies[k] IN
                              c.name \o <<Equals>> \o quotes(c) \o c.value \o quotes(c)],
                         <<Semicolon, Space>>)
    IN \A name \in VarNames :
         LET k == SelectInSeq(input.cookies, LAMBDA c : IsSuffix(name, c.name)) IN
           IF k = 0 THEN GetCookie(header, name, 9).len = -1
           ELSE input.cookies[k].name = name =>
                  GetCookie(header, name, 9).dst = input.cookies[k].value

\* The fields of an Authorization header are read as a browser wrote them,
\* with quotes escaped and commas, equals signs and spaces within quotes.
AuthFieldsParsed ==
  input.kind = "auth" =>
    LET escaped(t) == FlattenSeq([k \in 1 .. Len(t) |->
                                    IF t[k] = "\"" THEN <<"\\", "\"">> ELSE <<t[k]>>])
        written(v) == IF v.quoted THEN <<"\"">> \o escaped(v.text) \o <<"\"">> ELSE v.text
        n == Len(input.names)
    IN ParseAuthHeader(Joined([k \in 1 .. n |->
                                 <<input.names[k], "=">> \o written(input.values[k])],
                              input.sep))
         = [f \in {<<input.names[k]>> : k \in 1 .. n} |->
              input.values[CHOOSE k \in 1 .. n : <<input.names[k]>> = f].text]

\* A request is taken for one if its method and its version are known.  Each of
\* its first MaxHeaders headers is then found under its name in any letters, the
\* first one of a name, with its value, and none behind them.
HeadParsed ==
  input.kind = "head" =>
    LET hs    == input.headers
        lines == FlattenSeq([k \in 1 .. Len(hs) |->
                               hs[k].name \o input.sep \o hs[k].value \o input.eol])
        text  == input.before \o <<71, Space, Slash, Space>> \o input.version \o input.eol
                   \o lines \o input.eol
    IN \A msg \in {ParseHttpMessage(Front(text))} :
       /\ msg.ok <=> Len(input.version) = 3
       /\ msg.ok =>
            /\ <<msg.method, msg.uri, msg.version>> = << <<71>>, <<Slash>>, <<49>> >>
            /\ \A name \in {<<97>>, <<97, 66>>, <<98>>} :
                 LET k == SelectInSeq(hs, LAMBDA h : SameLetters(h.name, name)) IN
                   GetHeader(msg.headers, name) =
                     IF k \in 1 .. MaxHeaders THEN [found |-> TRUE, value |-> hs[k].value]
                     ELSE NoHeader

IsLeap(y) == y % 4 = 0 /\ (y % 100 # 0 \/ y % 400 = 0)
MonthLength(y, m) ==
  IF m = 2 THEN IF IsLeap(y) THEN 29 ELSE 28 ELSE IF m \in {4, 6, 9, 11} THEN 30 ELSE 31
YearStart[y \in 1970 .. 2110] ==
  IF y = 1970 THEN 0 ELSE YearStart[y - 1] + (IF IsLeap(y - 1) THEN 366 ELSE 365)
MonthStart(y, m) == YearStart[y] + Total([k \in 1 .. m - 1 |-> MonthLength(y, k)])

\* If-Modified-Since is read as the day it names, but for January and February
\* of leap years, which are read as the day after: the year's own leap day is
\* counted before it comes.
DatesAgree ==
  input.kind = "date" =>
    LET start == MonthStart(input.year, input.month)
                   + (IF IsLeap(input.year) /\ input.month <= 2 THEN 1 ELSE 0)
    IN \A d \in 1 .. MonthLength(input.year, input.month) :
         ParseDate(input.year, input.month, d) = start + d - 1

\* The blocks hashed depend on the bytes alone, not on the strings they come in:
\* they are the message, 0x80, zeros and the length, cut into blocks.
DigestsOneStream ==
  input.kind = "strings" =>
    LET n(k) == Total(SubSeq(input.lengths, 1, k))
        strings == [k \in 1 .. Len(input.lengths) |->
                      [j \in 1 .. input.lengths[k] |-> n(k - 1) + j]]
        all  == n(Len(input.lengths))
        room == (all + 1 + LengthSize) % BlockSize
        text == FlattenSeq(strings) \o <<Pad>> \o Zeros(IF room = 0 THEN 0 ELSE BlockSize - room)
                  \o <<all % LowWord, all \div LowWord>>
    IN FlattenSeq(Md5(strings)) = text

\* A URI leads to where it says, and what handle_request sends to a URI leads
\* back to it.
PathsHold == PathIsClean /\ RedirectSettles /\ LinkLeadsToEntry

\* What a client has written into forms, cookies and headers is read as it was
\* meant.
RequestTextsRead ==
  /\ VariablesFound /\ CookiesFound /\ HeadParsed /\ AuthFieldsParsed
  /\ DatesAgree /\ DigestsOneStream

-----------------------------------------------------------------------------
(* The options *)

\* Where an alternative may end in a text, from the positions S on.
RECURSIVE Ends(_, _, _)
Ends(tokens, str, S) ==
  IF tokens = <<>> THEN S
  ELSE LET t == Head(tokens)
           next == CASE t = <<"$">> -> S \intersect {Len(str)}
                     [] t = <<"*", "*">> -> {j \in 0 .. Len(str) : \E k \in S : k <= j}
                     [] t = <<"*">> -> {j \in 0 .. Len(str) : \E k \in S :
                                          k <= j /\ "/" \notin {str[m] : m \in k + 1 .. j}}
                     [] OTHER -> {k + 1 : k \in {m \in S : /\ m < Len(str)
                                                          /\ t[1] \in {"?", str[m + 1]}}}
       IN Ends(Tail(tokens), str, next)

\* A pattern matches exactly when one of its alternatives matches some of the
\* text from its start: what match_prefix skips on its way is never needed.
GlobMatches ==
  input.kind = "pattern" =>
    LET pattern == Joined([k \in 1 .. Len(input.alternatives) |->
                             FlattenSeq(input.alternatives[k])], <<"|">>)
    IN \A str \in UpTo({"a", "b", "/"}, 3) :
         LET ends == UNION {Ends(input.alternatives[k], str, {0}) :
                              k \in 1 .. Len(input.alternatives)}
             res == MatchPrefix(pattern, str)
         IN IF ends \subseteq {0} THEN res <= 0 ELSE res > 0 /\ res \in ends

\* What is behind the last number, a mask too, is not looked at if there are
\* more numbers than an address has.
HasMask(spec) == spec.mask # None /\ Len(spec.parts) = Parts

WellFormed(spec) ==
  /\ Len(spec.parts) >= Parts /\ \A k \in 1 .. Parts : spec.parts[k] < 2 ^ PartBits
  /\ HasMask(spec) => spec.mask <= Bits

\* The addresses of a network; none if bits of hosts are set in it.
Hosts(spec) ==
  LET first == 2 ^ PartBits * spec.parts[1] + spec.parts[2]
      many  == 2 ^ (Bits - (IF HasMask(spec) THEN spec.mask ELSE Bits))
  IN IF WellFormed(spec) /\ first % many = 0 THEN first .. first + many - 1 ELSE {}

\* The last rule with the address in its network decides, and nobody else is let
\* in.  With a malformed rule in the list the server does not start: the -1 that
\* accept_new_connection would take for a yes never gets there.  A network with
\* numbers left out is malformed, the manual's "+192.168/16" for one.
AclDecides ==
  input.kind = "acl" =>
    LET list == input.list
        bad  == \E k \in 1 .. Len(list) : list[k].flag = "x" \/ ~WellFormed(list[k].spec)
    IN /\ SetAclOption(list) <=> list = None \/ ~bad
       /\ SetAclOption(list) => \A ip \in Address :
            LET last == SelectLastInSeq(list, LAMBDA r : ip \in Hosts(r.spec)) IN
              Accepts(list, ip) <=> list = None \/ (last # 0 /\ list[last].flag = "+")

\* However a reply is cut into writes, all of it is sent, and in any number of
\* seconds at most one second's worth more than the limit of the last entry that
\* fits the client or the URI.  So it is if every entry has a value; with one that
\* has none, as in the manual's "*=1k,10.0.0.0/8", the first request crashes the
\* server, whoever sends it.
ThrottleHolds ==
  input.kind = "traffic" =>
    LET valued  == \A k \in 1 .. Len(input.list) : input.list[k].value # None
        set     == SetThrottle(input.list, 9, <<"/", "b">>)
        fits(e) == /\ e.value >= 0 /\ e.unit # "x"
                   /\ \/ e.key.kind = "all"
                      \/ e.key.kind = "net" /\ 9 \in Hosts(e.key.spec)
                      \/ e.key.kind = "uri" /\ e.key.pattern[1] = "/"
        last  == SelectLastInSeq(input.list, fits)
        limit == IF last = 0 THEN 0
                 ELSE input.list[last].value * (IF input.list[last].unit = "k" THEN 1024 ELSE 1)
        end   == FoldLeft(LAMBDA c, w : MgWrite([c EXCEPT !.now = @ + w.pause], w.len),
                          Throttled(set), input.writes)
        bytes(s, t) == Total([k \in 1 .. Len(end.pushed) |->
                         IF end.pushed[k][1] \in s .. t THEN end.pushed[k][2] ELSE 0])
    IN /\ valued <=> set # Crash
       /\ valued => bytes(1, end.now) = Total([k \in 1 .. Len(input.writes) |-> input.writes[k].len])
       /\ valued /\ limit > 0 => \A s \in 1 .. end.now : \A t \in s .. end.now :
                         bytes(s, t) <= (t - s + 2) * limit

\* Either every port is listened on, or no socket is left open, and none is
\* closed twice (its number could be somebody else's by then).
PortsAllOrNone ==
  input.kind = "ports" =>
    LET s == SetPorts(input.list, input.sslReady) IN
      /\ s.success => Len(s.open) = Len(input.list) /\ s.closed = <<>>
      /\ ~s.success => s.open = <<>> /\ Len(s.closed) = s.made /\ ToSet(s.closed) = 1 .. s.made

\* The server starts exactly on known options with values, and answers with the
\* last value given under either name, then the default, then the empty text.
OptionsKept ==
  input.kind = "start" =>
    LET config == StartConfig(input.options)
        last(o) == SelectLastInSeq(input.options, LAMBDA p : p.name \in {o.short, o.long})
    IN /\ config = Unset <=> \E k \in 1 .. Len(input.options) :
                               input.options[k].name = <<99>> \/ input.options[k].value = Unset
       /\ config # Unset => \A o \in ToSet(ConfigOptions), name \in {<<97>>, <<97, 97>>, <<98>>} :
            name \in {o.short, o.long} =>
              MgGetOption(config, name) =
                IF last(o) # 0 THEN input.options[last(o)].value
                ELSE IF o.default = Unset THEN <<>> ELSE o.default

\* A file has the type of the first of the extra extensions its path ends with,
\* in any letters (an empty one if none is written), and otherwise the one its
\* last dot stands for.  So it is if no extra extension is longer than the path:
\* get_mime_type would compare it with what is in memory before the path.
MimeTypeDecided ==
  input.kind = "mime"
    /\ (\A k \in 1 .. Len(input.extra) : Len(input.extra[k].ext) <= Len(input.path)) =>
    LET extra == Joined([k \in 1 .. Len(input.extra) |->
                           input.extra[k].ext \o
                             IF input.extra[k].type = Unset THEN <<>>
                             ELSE <<Equals>> \o input.extra[k].type], <<Comma>>)
        low(s) == [k \in 1 .. Len(s) |-> Lower(s[k])]
        k     == SelectInSeq(input.extra, LAMBDA e : IsSuffix(e.ext, low(input.path)))
        dot   == SelectLastInSeq(input.path, LAMBDA c : c = Dot)
        b     == SelectInSeq(Builtin, LAMBDA e :
                   dot > 1 /\ e.extension = low(SubSeq(input.path, dot, Len(input.path))))
    IN GetMimeType(extra, <<0, 0>>, input.path) =
         IF k # 0 THEN IF input.extra[k].type = Unset THEN <<>> ELSE input.extra[k].type
         ELSE IF b # 0 THEN Builtin[b].type ELSE PlainText

\* The options admit, limit, listen and name types as they are written.
OptionsDecide ==
  /\ OptionsKept /\ MimeTypeDecided
  /\ GlobMatches /\ AclDecides /\ ThrottleHolds /\ PortsAllOrNone

-----------------------------------------------------------------------------
(* What is sent or handed on *)

Queries == {NoQuery} \union {Query(k, o) : k \in {"n", "s", "d", "x"}, o \in {"a", "d"}}

\* Entries can be sorted by any query, directories come first, and the link at
\* the head of a column turns the order of its entries round.
ListingOrdered ==
  input.kind = "directory" =>
    \A q \in Queries :
      /\ Orders(input.entries, q) # {}
      /\ \A p \in Orders(input.entries, q) :
           \A i, j \in 1 .. Len(p) : i < j =>
             /\ p[j].isDirectory => p[i].isDirectory
             /\ p[i].isDirectory = p[j].isDirectory /\ ByColumn(p[i], p[j], q.key) # 0 =>
                  CompareDirEntries(p[i], p[j], Query(q.key, SortDirection(q))) > 0

\* Whatever a request holds, the assertions of addenv and
\* prepare_cgi_environment hold, addenv always writes what its caller then
\* reads, and the child gets whole variables, in order and packed: all of them
\* if they fit.
EnvironmentFits ==
  input.kind = "request" =>
    LET b    == PrepareCgiEnvironment(input)
        vars == Variables(input)
        end(k) == b.vars[k].at + b.vars[k].len + 1
        index(v) == SelectInSeq(vars, LAMBDA w : w.name = v.name)
        size == Total([k \in 1 .. Len(vars) |-> vars[k].len + 1])
    IN /\ b.room >= 1 /\ b.nvars < MaxVars /\ b.len \in 1 .. EnvironmentSize - 1
       /\ \A k \in 1 .. Len(b.vars) :
            /\ b.vars[k].len = vars[index(b.vars[k])].len
            /\ k < Len(b.vars) => /\ b.vars[k + 1].at = end(k)
                                  /\ index(b.vars[k]) < index(b.vars[k + 1])
            /\ k = Len(b.vars) => b.len = end(k) + 1
       /\ size < EnvironmentSize - 2 /\ Len(vars) <= MaxVars - 2 => Len(b.vars) = Len(vars)

\* The file of a form is stored byte by byte, wherever the buffer ends between
\* or within its data and the boundary.  The file is the last part of the form:
\* what follows it is written to it too (README, divergences).
UploadExact ==
  input.kind = "form" =>
    \A size \in Len(Boundary) + 2 .. Len(Boundary) + 6 :
      LET r == MgUpload(Reading(<<Named>> \o input.data \o Boundary \o <<"e">>, size)) IN
        r.files = <<input.data>> /\ r.uploaded = 1

\* While memory is below 2^31 MiB and the time below 2^31 s the page is sent the
\* numbers as they are, and what is free and used adds up to the total or to one
\* MiB less.
NumbersExact ==
  input.kind = "numbers" =>
    LET total  == input.free + input.used
        memory == Memory(total, input.free, input.used)
        most   == 2 ^ (WordBits - 1)
    IN /\ total \div Mega < most =>
            /\ memory.total = total \div Mega
            /\ memory.total - (memory.free + memory.used) \in {0, 1}
       /\ input.free < most => Time(input.free) = input.free

\* Listings, environments, uploaded files and the numbers of an update hold
\* what they were made from.
HandedOnExactly == ListingOrdered /\ EnvironmentFits /\ UploadExact /\ NumbersExact
=============================================================================
