------------------------- MODULE HttpConnectionProofs -------------------------
(***************************************************************************)
(* Proofs about HttpConnection for any messages, any size of the buffer    *)
(* and any chunks.                                                         *)
(***************************************************************************)
EXTENDS HttpConnection, StreamLemmas

-----------------------------------------------------------------------------
(* The inductive invariant *)

Cell == Nat \X Nat

Info == [connection : {"", "close", "keep-alive"}, http11 : BOOLEAN, at : Nat]

Word == {"", "none", "keep-alive", "close", "cgi close", "cgi keep-alive"}

Conn ==
  [buf : Seq(Cell), info : Info, requestLen : Int, contentLen : Int,
   consumed : Nat, status : Int, mustClose : BOOLEAN, error : BOOLEAN,
   said : Word, n : Nat]

\* What the types add to TypeOK.
TypeInv ==
  /\ TypeOK
  /\ conn \in Conn
  /\ wire \in Seq(Cell) /\ got \in Seq(Cell)
  /\ stop \in BOOLEAN /\ enabled \in BOOLEAN /\ hungUp \in BOOLEAN
  /\ strayed \in BOOLEAN
  /\ replies \in Nat /\ late \in Nat

\* In what follows ms are the messages sent, m one of them by its number.
Size(ms, i) == ms[i].head + ms[i].body

\* A cell of a message that was sent.
Sent(ms, c) == c \in Cell /\ c[1] \in 1 .. Len(ms) /\ c[2] \in 1 .. Size(ms, c[1])

CellInv ==
  /\ \A i \in 1 .. Len(wire) : Sent(sent, wire[i])
  /\ \A i \in 1 .. Len(conn.buf) : conn.buf[i] = Below \/ Sent(sent, conn.buf[i])

\* What a request finds, and keeps until it has read its body.
CountInv ==
  /\ pc # "aborted" => Len(conn.buf) <= BufSize
  /\ pc = "read" => conn.consumed = 0
  /\ pc \in {"handle", "pull"} =>
       conn.consumed = Len(got) /\ conn.requestLen \in 1 .. Len(conn.buf)

LateInv == late <= 1 /\ (late > 0 => stop /\ pc # "read")

SaidInv ==
  pc = "finish" =>
    /\ conn.said = "close" => ~ShouldKeepAlive(conn)
    /\ conn.said = "keep-alive" => ShouldKeepAlive(conn)

\* The cell that follows c in the stream of the client.
Succ(ms, c) == IF c[2] < Size(ms, c[1]) THEN <<c[1], c[2] + 1>> ELSE <<c[1] + 1, 1>>

\* s is the part of the stream that starts with cell p; the cell behind it.
Run(ms, s, p) ==
  \A i \in 1 .. Len(s) : s[i] = IF i = 1 THEN p ELSE Succ(ms, s[i - 1])
After(ms, s, p) == IF Len(s) = 0 THEN p ELSE Succ(ms, s[Len(s)])

\* What is on the wire is the stream from p to its end.
OnWire(ms, w, p) == Run(ms, w, p) /\ After(ms, w, p) = <<Len(ms) + 1, 1>>

\* The buffer holds the stream from the start of message k on, the wire the rest.
Between(k) ==
  /\ Run(sent, conn.buf, <<k, 1>>)
  /\ OnWire(sent, wire, After(sent, conn.buf, <<k, 1>>))

\* The first cell on the wire while message k is handled: what was read of its
\* body behind the buffered part is gone.
NextOnWire(k) ==
  IF conn.requestLen + conn.consumed <= Len(conn.buf)
  THEN After(sent, conn.buf, <<k, 1>>)
  ELSE Succ(sent, <<k, conn.requestLen + conn.consumed>>)

Within(k) ==
  /\ k \in 1 .. Len(sent)
  /\ conn.requestLen = sent[k].head /\ conn.contentLen = sent[k].length
  /\ conn.requestLen <= Len(conn.buf)
  /\ conn.consumed > 0 => conn.consumed <= conn.contentLen
  /\ Run(sent, conn.buf, <<k, 1>>)
  /\ OnWire(sent, wire, NextOnWire(k))

TrackInv ==
  ~strayed =>
    /\ pc = "read" => Between(replies + 1)
    /\ pc \in {"handle", "pull"} =>
         /\ Within(replies + 1)
         /\ \A j \in 1 .. Len(got) : got[j] = <<replies + 1, conn.requestLen + j>>
    /\ pc = "finish" /\ conn.requestLen > 0 /\ ShouldKeepAlive(conn) => Within(replies)

\* The buffered part is used up before anything is pulled.
PullInv ==
  pc = "pull" /\ need > 0 =>
    /\ need <= conn.contentLen - conn.consumed
    /\ Len(conn.buf) <= conn.requestLen + conn.consumed

IInv == TypeInv /\ CellInv /\ CountInv /\ LateInv /\ SaidInv /\ TrackInv /\ PullInv

-----------------------------------------------------------------------------
(* Facts about the operators *)

\* The parts of a message.
LEMMA MessageFacts ==
  ASSUME NEW m \in Message
  PROVE  /\ m.head \in Nat \ {0} /\ m.body \in Nat /\ m.length \in {-1, m.body}
         /\ m.connection \in {"", "close", "keep-alive"} /\ m.http11 \in BOOLEAN
<1>1. m \in MessageType /\ m.length \in {-1, m.body}
  BY ConnectionAssumption DEF ConnectionAssumption
<1> QED BY <1>1 DEF MessageType

\* The bounds are numbers.
LEMMA Bounds ==
  /\ BufSize \in Nat \ {0} /\ MaxRead \in Nat \ {0}
  /\ MaxMessages \in Nat /\ MaxConn \in Nat /\ KeepAlive \subseteq BOOLEAN
  BY ConnectionAssumption DEF ConnectionAssumption

\* get_request_len returns an error, nothing yet, or a length within the buffer.
LEMMA RequestLenFacts ==
  ASSUME NEW b \in Seq(Cell)
  PROVE  GetRequestLen(b) \in {-1, 0} \union 1 .. Len(b)
<1> DEFINE ends == {k \in DOMAIN b : Ends(b[k])}
           controls == {k \in 1 .. Len(b) - 1 : IsControl(b[k])}
<1>1. Len(b) \in Nat /\ DOMAIN b = 1 .. Len(b)
  BY LenProperties
<1>2. ends \subseteq 1 .. Len(b)
  BY <1>1
<1>3. ends # {} => Min(ends) \in 1 .. Len(b)
  <2> HIDE DEF ends
  <2>1. ends \subseteq Nat
    BY <1>1, <1>2
  <2> QED BY <1>2, <2>1, MinFacts, Zenon
<1>4. GetRequestLen(b) \in {0, -1, Min(ends)}
  <2> HIDE DEF ends, controls
  <2> QED BY DEF GetRequestLen, ends, controls
<1>5. ends = {} => GetRequestLen(b) \in {0, -1}
  BY DEF GetRequestLen
<1> QED BY <1>3, <1>4, <1>5

-----------------------------------------------------------------------------
(* mg_stop and the Connection header *)

\* A request that is counted as late leaves the loop behind it.
LEMMA LateStep ==
  ASSUME IInv, [Next]_vars
  PROVE  LateInv'
<1>1. LateInv /\ late \in Nat /\ stop \in BOOLEAN
  BY DEF IInv, TypeInv
<1>2. CASE Send \/ HangUp \/ Stop
  BY <1>1, <1>2 DEF LateInv, Send, HangUp, Stop, history
<1>3. CASE Serve
  BY <1>1, <1>3 DEF LateInv, Serve
<1>4. CASE ReadMore
  BY <1>1, <1>4 DEF LateInv, ReadMore, history
<1>5. CASE ReadFails
  BY <1>1, <1>5 DEF LateInv, ReadFails, Refuse
<1>6. CASE Parse
  <2>1. \/ late' = late /\ pc' = "finish"
        \/ late' = (IF stop THEN late + 1 ELSE late) /\ pc' = "handle"
    BY <1>6 DEF Parse, Refuse
  <2>2. pc = "read" /\ stop' = stop
    BY <1>6, Zenon DEF Parse
  <2>3. late = 0
    BY <1>1, <2>2 DEF LateInv
  <2> QED BY <2>1, <2>3, <2>2, <1>1 DEF LateInv
<1>7. CASE \E len \in 1 .. MaxRead : Read(len)
  BY <1>1, <1>7 DEF LateInv, Read
<1>8. CASE ReadPull \/ ReadReturns \/ Reply
  BY <1>1, <1>8 DEF LateInv, ReadPull, ReadReturns, Reply, history
<1>9. CASE Finish
  <2>1. late' = late /\ stop' = stop /\ (pc' = "read" => ~stop)
    BY <1>9 DEF Finish, Again
  <2> QED BY <1>1, <2>1 DEF LateInv
<1>10. CASE UNCHANGED vars
  BY <1>1, <1>10 DEF LateInv, vars, history
<1> QED BY <1>2, <1>3, <1>4, <1>5, <1>6, <1>7, <1>8, <1>9, <1>10 DEF Next, Worker

\* What send_http_error leaves of the connection it is given.
LEMMA RefuseFacts ==
  ASSUME NEW c \in Conn, NEW status \in Int, Refuse(c, status)
  PROVE  /\ conn' \in Conn
         /\ conn'.buf = c.buf /\ conn'.info = c.info /\ conn'.requestLen = c.requestLen
         /\ conn'.contentLen = c.contentLen /\ conn'.consumed = c.consumed
         /\ conn'.mustClose = c.mustClose /\ conn'.status = status
         /\ conn'.said = Suggested(conn')
         /\ Counted /\ pc' = "finish" /\ UNCHANGED <<late, got>>
<1> DEFINE d == [c EXCEPT !.status = status, !.error = TRUE]
           e == [d EXCEPT !.said = Suggested(d)]
<1>1. /\ d \in Conn /\ d.buf = c.buf /\ d.info = c.info /\ d.requestLen = c.requestLen
      /\ d.contentLen = c.contentLen /\ d.consumed = c.consumed
      /\ d.mustClose = c.mustClose /\ d.status = status
  BY DEF Conn
<1>2. Suggested(d) \in {"keep-alive", "close"}
  BY DEF Suggested
<1>3. conn' = e /\ Counted /\ pc' = "finish" /\ UNCHANGED <<late, got>>
  BY DEF Refuse
<1> HIDE DEF d
<1>4. /\ e \in Conn /\ e.buf = d.buf /\ e.info = d.info /\ e.requestLen = d.requestLen
      /\ e.contentLen = d.contentLen /\ e.consumed = d.consumed
      /\ e.mustClose = d.mustClose /\ e.status = d.status /\ e.said = Suggested(d)
  BY <1>1, <1>2 DEF Conn, Word
<1>5. ShouldKeepAlive(e) <=> ShouldKeepAlive(d)
  BY <1>4 DEF ShouldKeepAlive
<1>6. Suggested(e) = Suggested(d)
  BY <1>5 DEF Suggested
<1> QED BY <1>1, <1>3, <1>4, <1>6

\* However read_request fails, send_http_error is called with what it has.
LEMMA ReadFailsFacts ==
  ASSUME ReadFails
  PROVE  \E r \in {-1, 0} : Refuse([conn EXCEPT !.requestLen = r], 500)
<1>1. CASE Refuse([conn EXCEPT !.requestLen = -1], 500)
  BY <1>1, Zenon
<1>2. CASE Refuse([conn EXCEPT !.requestLen = IF conn.n > 0 THEN 0 ELSE -1], 500)
  <2>1. (IF conn.n > 0 THEN 0 ELSE -1) \in {-1, 0}
    OBVIOUS
  <2> QED BY <1>2, <2>1, Zenon
<1> QED BY <1>1, <1>2, Zenon DEF ReadFails

\* What Parse makes of the connection before it refuses or accepts the request.
Parsed(e) ==
  /\ e \in Conn /\ e.buf = conn.buf /\ e.consumed = conn.consumed
  /\ e.requestLen = GetRequestLen(conn.buf)

Accept(e) ==
  /\ conn' = e /\ pc' = "handle" /\ got' = <<>>
  /\ late' = (IF stop THEN late + 1 ELSE late) /\ UNCHANGED replies

\* The length is the one of the message the buffer starts with.
Meant(e, m) == m \in Message /\ Starts(conn.buf) /\ e.contentLen = m.length

\* Unless it has strayed.
Kept(e) ==
  /\ strayed' \in BOOLEAN
  /\ ~strayed' => ~strayed /\ Meant(e, sent[conn.buf[1][1]])

Refused(e) == Refuse(e, 500) \/ Refuse(e, 400) \/ Refuse(e, 505)

LEMMA InfoFacts ==
  ASSUME NEW m \in Message
  PROVE  InfoOf(m) \in Info
<1>1. m.head \in Nat
  BY MessageFacts
<1>2. m.connection \in {"", "close", "keep-alive"} /\ m.http11 \in BOOLEAN
  BY MessageFacts, Zenon
<1> QED BY <1>1, <1>2, Zenon DEF InfoOf, Info

LEMMA LengthFacts ==
  ASSUME NEW m \in Message
  PROVE  m.length \in Int
<1>1. m.length \in {-1, m.body} /\ m.body \in Nat
  BY MessageFacts, Zenon
<1> QED BY <1>1

LEMMA ParsedInfo ==
  ASSUME NEW c \in Conn, NEW i \in Info, NEW l \in Int
  PROVE  LET d == [c EXCEPT !.info = i, !.contentLen = l] IN
           /\ d \in Conn /\ d.buf = c.buf /\ d.consumed = c.consumed
           /\ d.requestLen = c.requestLen /\ d.contentLen = l
  BY DEF Conn

\* What parsing and the loop assign to the connection leaves the buffer alone.
LEMMA OldVersion ==
  ASSUME NEW c \in Conn
  PROVE  LET v == [c EXCEPT !.info.http11 = FALSE] IN
           /\ v \in Conn /\ v.buf = c.buf /\ v.consumed = c.consumed
           /\ v.requestLen = c.requestLen /\ v.contentLen = c.contentLen
<1>1. c.info \in Info
  BY DEF Conn
<1>2. [c.info EXCEPT !.http11 = FALSE] \in Info
  BY <1>1 DEF Info
<1> QED BY <1>2 DEF Conn

LEMMA UnparsedFacts ==
  ASSUME NEW len \in Nat, NEW i \in Unparsed(len)
  PROVE  i \in Info
<1> DEFINE bare == [connection |-> "", http11 |-> TRUE, at |-> len]
<1>1. bare \in Info /\ Wiped \in Info
  BY Bounds DEF Wiped, Info
<1>2. i = Wiped \/ i = bare
  BY Zenon DEF Unparsed
<1> QED BY <1>1, <1>2, Zenon

\* Parse refuses the request or hands it to the handler.
LEMMA ParseFacts ==
  ASSUME TypeInv, CellInv, Parse
  PROVE  /\ GetRequestLen(conn.buf) \in 1 .. Len(conn.buf)
         /\ \E e \in Conn : Parsed(e) /\ Kept(e) /\ (Refused(e) \/ Accept(e))
<1> DEFINE len == GetRequestLen(conn.buf)
           m == sent[conn.buf[1][1]]
           c == [conn EXCEPT !.requestLen = len]
           d == [c EXCEPT !.info = InfoOf(m), !.contentLen = m.length]
           v == [d EXCEPT !.info.http11 = FALSE]
<1>1. conn \in Conn /\ conn.buf \in Seq(Cell) /\ sent \in Seq(Message)
      /\ strayed \in BOOLEAN
  BY DEF TypeInv, TypeOK, Conn
<1>2. len \in 1 .. Len(conn.buf) /\ len \in Int
  <2>1. len > 0
    BY Zenon DEF Parse
  <2>2. len \in {-1, 0} \union 1 .. Len(conn.buf) /\ Len(conn.buf) \in Nat
    BY <1>1, RequestLenFacts, LenProperties
  <2> HIDE DEF len
  <2> QED BY <2>1, <2>2
<1>3. Starts(conn.buf) => m \in Message
  <2> SUFFICES ASSUME Starts(conn.buf) PROVE m \in Message
    OBVIOUS
  <2>1. Len(conn.buf) \in Nat /\ 1 \in 1 .. Len(conn.buf)
    BY <1>1, <1>2, LenProperties
  <2>2. Sent(sent, conn.buf[1])
    BY <2>1 DEF CellInv, Starts
  <2> QED BY <1>1, <2>2, ElementOfSeq DEF Sent
<1>4. c \in Conn /\ c.buf = conn.buf /\ c.consumed = conn.consumed /\ c.requestLen = len
  <2> HIDE DEF len
  <2> QED BY <1>1, <1>2 DEF Conn
<1> HIDE DEF c
<1>5. ASSUME NEW i \in Unparsed(len)
      PROVE  LET w == [c EXCEPT !.info = i] IN
               /\ w \in Conn /\ w.buf = c.buf /\ w.consumed = c.consumed
               /\ w.requestLen = c.requestLen /\ w.contentLen = c.contentLen
  <2>1. len \in Nat
    BY <1>1, <1>2, LenProperties
  <2> HIDE DEF len
  <2>2. i \in Info
    BY <2>1, UnparsedFacts
  <2> QED BY <1>4, <2>2 DEF Conn
<1>6. c.contentLen = conn.contentLen
  BY <1>1 DEF c, Conn
<1>7. ASSUME m \in Message
      PROVE  /\ d \in Conn /\ d.buf = c.buf /\ d.consumed = c.consumed
             /\ d.requestLen = c.requestLen /\ d.contentLen = m.length
  <2> HIDE DEF m
  <2>1. InfoOf(m) \in Info
    BY <1>7, InfoFacts
  <2>2. m.length \in Int
    BY <1>7, LengthFacts
  <2> QED BY <1>4, <2>1, <2>2, ParsedInfo
<1>8. ASSUME m \in Message
      PROVE  /\ v \in Conn /\ v.buf = c.buf /\ v.consumed = c.consumed
             /\ v.requestLen = c.requestLen /\ v.contentLen = m.length
  <2> HIDE DEF d
  <2> QED BY <1>7, <1>8, OldVersion
<1>9. CASE ~Starts(conn.buf) \/ m.form = "line"
  <2>1. /\ \E i \in Unparsed(len) : Refuse([c EXCEPT !.info = i], 500)
        /\ strayed' = (strayed \/ (Starts(conn.buf) => conn.contentLen # m.length))
    BY <1>9, Zenon DEF Parse, c
  <2>2. PICK i \in Unparsed(len) : Refuse([c EXCEPT !.info = i], 500)
    BY <2>1
  <2> DEFINE w == [c EXCEPT !.info = i]
  <2>3. /\ w \in Conn /\ w.buf = c.buf /\ w.consumed = c.consumed
        /\ w.requestLen = c.requestLen /\ w.contentLen = c.contentLen
    BY <1>5
  <2>4. Refused(w)
    BY <2>2 DEF Refused
  <2> HIDE DEF w, m, len
  <2>5. Parsed(w)
    BY <1>4, <2>3 DEF Parsed, len
  <2>6. strayed' \in BOOLEAN
    BY <2>1
  <2>7. ~strayed' => ~strayed /\ Starts(conn.buf) /\ conn.contentLen = m.length
    BY <2>1, Zenon
  <2>8. ~strayed' => ~strayed /\ Meant(w, m)
    BY <1>3, <1>6, <2>3, <2>7 DEF Meant
  <2>9. Kept(w)
    BY <2>6, <2>8 DEF Kept, m
  <2>10. \E e \in Conn : Parsed(e) /\ Kept(e) /\ (Refused(e) \/ Accept(e))
    BY <2>3, <2>4, <2>5, <2>9, Zenon
  <2> QED BY <1>2, <2>10, Zenon DEF len
<1>10. CASE Starts(conn.buf) /\ m.form # "line"
  <2>1. Refuse(d, 400) \/ Refuse(v, 505) \/ Accept(d)
    <3>1. CASE m.form = "uri"
      BY <1>10, <3>1, Zenon DEF Parse, Accept, c
    <3>2. CASE m.form # "uri"
      BY <1>10, <3>2, ZenonT(60) DEF Parse, Accept, c
    <3> QED BY <3>1, <3>2
  <2>2. m \in Message
    BY <1>3, <1>10
  <2>3. Parsed(d) /\ Parsed(v) /\ Meant(d, m) /\ Meant(v, m)
    BY <1>4, <1>7, <1>8, <1>10, <2>2 DEF Parsed, Meant
  <2>4. d \in Conn /\ v \in Conn
    BY <1>7, <1>8, <2>2
  <2>5. strayed' = strayed
    BY <1>10, Zenon DEF Parse
  <2> HIDE DEF d, v, m, len
  <2>6. strayed' \in BOOLEAN
    BY <1>1, <2>5, Zenon
  <2>7. Kept(d) /\ Kept(v)
    BY <2>3, <2>5, <2>6 DEF Kept, m
  <2>8. (Refused(d) \/ Accept(d)) \/ Refused(v)
    BY <2>1, Zenon DEF Refused
  <2>9. \E e \in Conn : Parsed(e) /\ Kept(e) /\ (Refused(e) \/ Accept(e))
    BY <2>3, <2>4, <2>7, <2>8, Zenon
  <2> QED BY <1>2, <2>9, Zenon DEF len
<1> QED BY <1>9, <1>10

\* What a handler does to the connection.
LEMMA OutcomeFacts ==
  ASSUME NEW o \in Outcome
  PROVE  /\ o.status \in Int /\ (o.mustClose = TRUE \/ o.mustClose = FALSE)
         /\ \/ o.said = "suggest" \/ o.said \in {"none", "cgi close", "cgi keep-alive"}
            \/ o.said = "close" /\ o.mustClose
<1>1. CASE o \in Served
  <2>1. o.status = -1 \/ o.status = 200 \/ o.status = 401
    BY <1>1 DEF Served
  <2>2. o.status \in Int
    BY <2>1
  <2>3. o.mustClose = TRUE \/ o.mustClose = FALSE
    BY <1>1 DEF Served
  <2>4. o.said = "suggest" \/ o.said = "none" \/ (o.said = "close" /\ o.mustClose)
    BY <1>1 DEF Served
  <2> QED BY <2>2, <2>3, <2>4, Zenon
<1>2. CASE o \in Forwarded
  <2>1. o.said \in {"none", "cgi close", "cgi keep-alive"}
    BY <1>2 DEF Forwarded
  <2>2. o.status = 200 \/ o.status = 401
    BY <1>2 DEF Forwarded
  <2>3. o.status \in Int
    BY <2>2
  <2>4. o.mustClose \in BOOLEAN
    BY <1>2, Zenon DEF Forwarded
  <2> QED BY <2>1, <2>3, <2>4, Zenon
<1> QED BY <1>1, <1>2, Zenon DEF Outcome

\* What is said of a connection depends on these fields alone.
LEMMA SameKeepAlive ==
  ASSUME NEW c, NEW d, d.mustClose = c.mustClose, d.status = c.status, d.info = c.info
  PROVE  ShouldKeepAlive(d) <=> ShouldKeepAlive(c)
BY DEF ShouldKeepAlive

\* What the Connection header of a reply says holds until the turn ends.
LEMMA SaidStep ==
  ASSUME IInv, [Next]_vars
  PROVE  SaidInv'
<1>1. SaidInv /\ conn \in Conn /\ enabled \in BOOLEAN
  BY DEF IInv, TypeInv
<1>2. ASSUME NEW c \in Conn, NEW status \in Int, Refuse(c, status), enabled' = enabled
      PROVE  SaidInv'
  <2>1. conn'.said = Suggested(conn')
    BY <1>2, RefuseFacts
  <2> QED BY <1>2, <2>1 DEF SaidInv, Suggested, ShouldKeepAlive
<1>3. CASE pc' # "finish"
  BY <1>3 DEF SaidInv
<1>4. CASE UNCHANGED <<pc, conn, enabled>>
  BY ZenonT(60), <1>1, <1>4 DEF SaidInv, ShouldKeepAlive
<1>5. CASE ReadFails
  <2>1. PICK r \in Int : Refuse([conn EXCEPT !.requestLen = r], 500)
    BY <1>5, ReadFailsFacts
  <2>2. [conn EXCEPT !.requestLen = r] \in Conn
    BY <1>1 DEF Conn
  <2> QED BY <1>2, <1>5, <2>1, <2>2 DEF ReadFails
<1>6. CASE Parse
  <2>1. TypeInv /\ CellInv /\ enabled' = enabled
    BY <1>6 DEF IInv, Parse
  <2>2. ASSUME NEW e \in Conn, Accept(e) PROVE SaidInv'
    BY <2>2 DEF Accept, SaidInv
  <2>3. ASSUME NEW e \in Conn, Refused(e) PROVE SaidInv'
    <3>1. 500 \in Int /\ 400 \in Int /\ 505 \in Int
      OBVIOUS
    <3> QED BY <1>2, <2>1, <2>3, <3>1, Zenon DEF Refused
  <2> QED BY <1>6, <2>1, <2>2, <2>3, ParseFacts
<1>7. CASE Reply
  <2>1. PICK o \in Outcome :
          LET c == [conn EXCEPT !.status = o.status, !.mustClose = o.mustClose] IN
            conn' = [c EXCEPT !.said = IF o.said = "suggest" THEN Suggested(c) ELSE o.said]
    BY <1>7 DEF Reply
  <2> DEFINE c == [conn EXCEPT !.status = o.status, !.mustClose = o.mustClose]
  <2>2. c \in Conn /\ c.mustClose = o.mustClose
    <3>1. o.status \in Int /\ (o.mustClose = TRUE \/ o.mustClose = FALSE)
      BY OutcomeFacts
    <3> QED BY <1>1, <3>1 DEF Conn
  <2> HIDE DEF c
  <2>3. conn' = [c EXCEPT !.said = IF o.said = "suggest" THEN Suggested(c) ELSE o.said]
    BY <2>1 DEF c
  <2>4. /\ conn'.said = IF o.said = "suggest" THEN Suggested(c) ELSE o.said
        /\ ShouldKeepAlive(conn') <=> ShouldKeepAlive(c)
    <3>1. PICK x : /\ x = IF o.said = "suggest" THEN Suggested(c) ELSE o.said
                   /\ conn' = [c EXCEPT !.said = x]
      BY Zenon, <2>3
    <3>2. conn'.said = x
      BY <2>2, <3>1 DEF Conn
    <3>3. /\ conn'.mustClose = c.mustClose /\ conn'.status = c.status
          /\ conn'.info = c.info
      BY <2>2, <3>1 DEF Conn
    <3> QED BY Zenon, <3>1, <3>2, <3>3, SameKeepAlive
  <2>5. enabled' = enabled
    BY <1>7 DEF Reply
  <2>6. CASE o.said = "suggest"
    BY <2>4, <2>5, <2>6 DEF SaidInv, Suggested, ShouldKeepAlive
  <2>7. CASE o.said \in {"none", "cgi close", "cgi keep-alive"}
    BY <2>4, <2>7 DEF SaidInv
  <2>8. CASE o.said = "close" /\ o.mustClose
    <3>1. ~ShouldKeepAlive(c)
      BY <2>2, <2>8 DEF ShouldKeepAlive
    <3> QED BY <3>1, <2>4, <2>5, <2>8 DEF SaidInv, ShouldKeepAlive
  <2> QED BY <2>6, <2>7, <2>8, OutcomeFacts
<1>8. CASE Serve \/ ReadMore \/ (\E len \in 1 .. MaxRead : Read(len)) \/ ReadPull
             \/ ReadReturns \/ Finish
  BY <1>3, <1>8 DEF Serve, ReadMore, Read, ReadPull, ReadReturns, Finish
<1>9. CASE Send \/ HangUp \/ Stop \/ UNCHANGED vars
  BY <1>4, <1>9 DEF Send, HangUp, Stop, vars
<1> QED BY <1>5, <1>6, <1>7, <1>8, <1>9 DEF Next, Worker

\* A turn ends as its reply has said.
LEMMA HeaderStep ==
  ASSUME IInv, [Next]_vars, pc = "finish"
  PROVE  /\ conn.said = "close" => pc' # "read"
         /\ conn.said = "keep-alive" /\ pc' = "idle" => stop \/ conn.contentLen < 0
<1>1. /\ conn.said = "close" => ~ShouldKeepAlive(conn)
      /\ conn.said = "keep-alive" => ShouldKeepAlive(conn)
      /\ conn.contentLen \in Int
  BY DEF IInv, SaidInv, TypeInv, Conn
<1>2. CASE Finish
  <2>1. pc' = "read" => Again(conn)
    BY <1>2 DEF Finish
  <2>2. pc' = "idle" => ~Again(conn)
    BY <1>2 DEF Finish
  <2>3. ShouldKeepAlive(conn) => enabled
    BY Zenon DEF ShouldKeepAlive
  <2>4. ~(conn.contentLen >= 0) => conn.contentLen < 0
    BY <1>1
  <2> QED BY <1>1, <2>1, <2>2, <2>3, <2>4, Zenon DEF Again
<1>3. CASE ~Finish
  <2>1. pc' = pc
    BY <1>3 DEF Next, Worker, Send, HangUp, Stop, Serve, ReadMore, ReadFails, Parse,
                Read, ReadPull, ReadReturns, Reply, vars
  <2> QED BY <2>1
<1> QED BY <1>2, <1>3

-----------------------------------------------------------------------------
(* Types, cells and counts *)

\* The cells of a message.
LEMMA CellsFacts ==
  ASSUME NEW i \in Nat, NEW m \in Message
  PROVE  /\ Cells(i, m) \in Seq(Cell) /\ Len(Cells(i, m)) = m.head + m.body
         /\ m.head + m.body \in Nat \ {0}
         /\ \A j \in 1 .. m.head + m.body : Cells(i, m)[j] = <<i, j>>
<1> DEFINE n == m.head + m.body
<1>1. n \in Nat \ {0}
  <2>1. m.head \in Nat \ {0} /\ m.body \in Nat
    BY MessageFacts
  <2> QED BY <2>1
<1> HIDE DEF n
<1>2. Cells(i, m) = [j \in 1 .. n |-> <<i, j>>]
  BY DEF Cells, n
<1>3. \A j \in 1 .. n : <<i, j>> \in Cell
  BY <1>1 DEF Cell
<1>4. [j \in 1 .. n |-> <<i, j>>] \in Seq(Cell)
  BY <1>1, <1>3, IsASeq
<1>5. Len([j \in 1 .. n |-> <<i, j>>]) = n
  BY <1>1, <1>4, LenProperties
<1> QED BY <1>1, <1>2, <1>4, <1>5 DEF n

Base == TypeInv /\ CellInv /\ CountInv

\* The values of a step that keeps the types.
LEMMA TypeFrame ==
  ASSUME sent' \in Seq(Message), Len(sent') <= MaxMessages,
         pc' \in {"idle", "read", "handle", "pull", "finish", "aborted"},
         conn' \in Conn, conn'.requestLen \in -1 .. BufSize,
         conn'.consumed \in 0 .. Len(got'), Len(conn'.buf) <= BufSize + 1,
         need' \in 0 .. MaxRead, wire' \in Seq(Cell), got' \in Seq(Cell),
         stop' \in BOOLEAN, enabled' \in BOOLEAN, hungUp' \in BOOLEAN,
         strayed' \in BOOLEAN, replies' \in Nat, late' \in Nat
  PROVE  TypeInv'
  BY Zenon DEF TypeInv, TypeOK

\* The types one by one, with the lengths as numbers.
LEMMA BaseFacts ==
  ASSUME Base
  PROVE  /\ sent \in Seq(Message) /\ Len(sent) \in Nat /\ Len(sent) <= MaxMessages
         /\ pc \in {"idle", "read", "handle", "pull", "finish", "aborted"}
         /\ conn \in Conn /\ conn.buf \in Seq(Cell) /\ Len(conn.buf) \in Nat
         /\ conn.info \in Info /\ conn.contentLen \in Int /\ conn.consumed \in Nat
         /\ conn.requestLen \in -1 .. BufSize /\ conn.consumed \in 0 .. Len(got)
         /\ Len(conn.buf) <= BufSize + 1
         /\ need \in 0 .. MaxRead
         /\ wire \in Seq(Cell) /\ Len(wire) \in Nat
         /\ got \in Seq(Cell) /\ Len(got) \in Nat
         /\ stop \in BOOLEAN /\ enabled \in BOOLEAN /\ hungUp \in BOOLEAN
         /\ strayed \in BOOLEAN /\ replies \in Nat /\ late \in Nat
<1>1. /\ sent \in Seq(Message) /\ wire \in Seq(Cell) /\ got \in Seq(Cell)
      /\ conn \in Conn /\ stop \in BOOLEAN /\ enabled \in BOOLEAN /\ hungUp \in BOOLEAN
      /\ strayed \in BOOLEAN /\ replies \in Nat /\ late \in Nat
      /\ pc \in {"idle", "read", "handle", "pull", "finish", "aborted"}
      /\ Len(sent) <= MaxMessages /\ need \in 0 .. MaxRead
      /\ conn.requestLen \in -1 .. BufSize /\ conn.consumed \in 0 .. Len(got)
      /\ Len(conn.buf) <= BufSize + 1
  BY Zenon DEF Base, TypeInv, TypeOK
<1>2. /\ conn.buf \in Seq(Cell) /\ conn.info \in Info
      /\ conn.contentLen \in Int /\ conn.consumed \in Nat
  BY <1>1 DEF Conn
<1>3. /\ Len(sent) \in Nat /\ Len(conn.buf) \in Nat /\ Len(wire) \in Nat
      /\ Len(got) \in Nat
  BY <1>1, <1>2, LenProperties
<1> QED BY <1>1, <1>2, <1>3, Zenon

\* Cells of messages sent stay so when one more is sent.
LEMMA SentGrows ==
  ASSUME NEW ms \in Seq(Message), NEW m \in Message, NEW c, Sent(ms, c)
  PROVE  /\ Sent(Append(ms, m), c)
         /\ Succ(Append(ms, m), c) = Succ(ms, c)
<1>1. /\ Len(ms) \in Nat /\ Len(Append(ms, m)) = Len(ms) + 1
      /\ \A i \in 1 .. Len(ms) : Append(ms, m)[i] = ms[i]
  BY AppendProperties, LenProperties
<1>2. c[1] \in 1 .. Len(ms) /\ c \in Cell /\ c[2] \in 1 .. Size(ms, c[1])
  BY DEF Sent
<1>3. Size(Append(ms, m), c[1]) = Size(ms, c[1])
  BY <1>1, <1>2 DEF Size
<1>4. c[1] \in 1 .. Len(Append(ms, m))
  BY <1>1, <1>2
<1> QED BY <1>2, <1>3, <1>4 DEF Sent, Succ

\* What reset_per_request_attributes keeps and what it clears.
LEMMA ResetFacts ==
  ASSUME NEW c \in Conn
  PROVE  /\ Reset(c) \in Conn /\ Reset(c).buf = c.buf /\ Reset(c).info = c.info
         /\ Reset(c).contentLen = c.contentLen
         /\ Reset(c).requestLen = 0 /\ Reset(c).consumed = 0
<1>1. \A x \in Conn : [x EXCEPT !.n = 0] \in Conn /\ [x EXCEPT !.said = ""] \in Conn
                     /\ [x EXCEPT !.error = FALSE] \in Conn
                     /\ [x EXCEPT !.mustClose = FALSE] \in Conn
  BY DEF Conn, Word
<1>2. \A x \in Conn : /\ [x EXCEPT !.consumed = 0] \in Conn
                      /\ [x EXCEPT !.status = -1] \in Conn
                      /\ [x EXCEPT !.requestLen = 0] \in Conn
  <2>1. \A x \in Conn, i \in Int : [x EXCEPT !.status = i] \in Conn
    BY DEF Conn
  <2>2. \A x \in Conn, i \in Int : [x EXCEPT !.requestLen = i] \in Conn
    BY DEF Conn
  <2>3. \A x \in Conn, i \in Nat : [x EXCEPT !.consumed = i] \in Conn
    BY DEF Conn
  <2>4. 0 \in Int /\ -1 \in Int /\ 0 \in Nat
    OBVIOUS
  <2> QED BY <2>1, <2>2, <2>3, <2>4, Zenon
<1> DEFINE d == [[[[c EXCEPT !.consumed = 0] EXCEPT !.status = -1] EXCEPT !.mustClose = FALSE]
                   EXCEPT !.requestLen = 0]
           e == [[[d EXCEPT !.error = FALSE] EXCEPT !.said = ""] EXCEPT !.n = 0]
<1>3. d \in Conn
  BY <1>1, <1>2, Zenon
<1>4. d.buf = c.buf /\ d.info = c.info /\ d.contentLen = c.contentLen /\ d.requestLen = 0
      /\ d.consumed = 0
  BY DEF Conn
<1>5. Reset(c) = e
  BY DEF Reset, Conn
<1> HIDE DEF d
<1>6. e \in Conn
  BY <1>1, <1>3, Zenon
<1>7. e.buf = d.buf /\ e.info = d.info /\ e.contentLen = d.contentLen
      /\ e.requestLen = d.requestLen /\ e.consumed = d.consumed
  BY <1>3 DEF Conn
<1> QED BY <1>4, <1>5, <1>6, <1>7

\* The client sends a message; then one lemma for each step of the worker.
LEMMA SendBase ==
  ASSUME Base, Send
  PROVE  Base'
<1>1. PICK m \in Message :
        sent' = Append(sent, m) /\ wire' = wire \o Cells(Len(sent) + 1, m)
  BY DEF Send
<1>2. /\ UNCHANGED <<hungUp, pc, conn, need, stop, enabled, got, replies, strayed, late>>
      /\ Len(sent) < MaxMessages
  BY DEF Send, history
<1> DEFINE new == Cells(Len(sent) + 1, m)
<1>3. /\ new \in Seq(Cell) /\ Len(new) = m.head + m.body /\ Len(new) \in Nat
      /\ \A j \in 1 .. Len(new) : new[j] = <<Len(sent) + 1, j>>
  BY SMTT(30), BaseFacts, CellsFacts
<1>4. /\ sent' \in Seq(Message) /\ Len(sent') = Len(sent) + 1
      /\ sent'[Len(sent) + 1] = m
  BY <1>1, BaseFacts, AppendProperties
<1> HIDE DEF new
<1>5. /\ wire' \in Seq(Cell) /\ Len(wire') = Len(wire) + Len(new)
      /\ \A i \in 1 .. Len(wire) + Len(new) :
           wire'[i] = IF i <= Len(wire) THEN wire[i] ELSE new[i - Len(wire)]
  BY <1>1, <1>3, BaseFacts, ConcatProperties DEF new
<1>6. TypeInv'
  <2>1. Len(sent') <= MaxMessages
    BY <1>2, <1>4, BaseFacts, Bounds
  <2> QED BY <1>2, <1>4, <1>5, <2>1, BaseFacts, TypeFrame
<1>7. CellInv'
  <2>1. ASSUME NEW i \in 1 .. Len(conn.buf)
        PROVE  conn.buf[i] = Below \/ Sent(sent', conn.buf[i])
    BY <1>1, BaseFacts, SentGrows DEF Base, CellInv
  <2>2. ASSUME NEW i \in 1 .. Len(wire')
        PROVE  Sent(sent', wire'[i])
    <3>1. CASE i <= Len(wire)
      <4>1. i \in 1 .. Len(wire) /\ wire'[i] = wire[i]
        BY SMTT(30), <1>5, <3>1, BaseFacts
      <4>2. Sent(sent, wire[i])
        BY <4>1 DEF Base, CellInv
      <4> QED BY <1>1, <4>1, <4>2, BaseFacts, SentGrows
    <3>2. CASE i > Len(wire)
      <4> DEFINE j == i - Len(wire)
      <4>0. Len(wire) \in Nat /\ Len(sent) \in Nat
        BY BaseFacts
      <4>1. j \in 1 .. Len(new) /\ wire'[i] = <<Len(sent) + 1, j>>
        BY <1>3, <1>5, <3>2, <4>0
      <4>2. Size(sent', Len(sent) + 1) = Len(new)
        BY <1>3, <1>4 DEF Size
      <4> HIDE DEF j
      <4>3. Len(sent) + 1 \in Nat /\ j \in Nat
        BY <4>1, <1>3, BaseFacts
      <4>4. Len(sent) + 1 \in 1 .. Len(sent')
        BY <1>4, BaseFacts
      <4> DEFINE c == <<Len(sent) + 1, j>>
      <4>5. c \in Cell /\ c[1] = Len(sent) + 1 /\ c[2] = j
        BY <4>3 DEF Cell
      <4> HIDE DEF c
      <4>6. Sent(sent', c)
        BY <4>1, <4>2, <4>4, <4>5 DEF Sent
      <4> QED BY <4>1, <4>6 DEF c
    <3> QED BY <3>1, <3>2, <1>5, BaseFacts
  <2> QED BY <1>2, <2>1, <2>2 DEF CellInv
<1>8. CountInv'
  BY <1>2 DEF Base, CountInv
<1> QED BY <1>6, <1>7, <1>8 DEF Base

\* Steps of the client and the application that touch no cell.
LEMMA OutsideBase ==
  ASSUME Base, HangUp \/ Stop \/ ReadReturns \/ UNCHANGED vars
  PROVE  Base'
<1>1. /\ UNCHANGED <<sent, wire, conn, enabled, got, replies, strayed, late>>
      /\ hungUp' \in {hungUp, TRUE} /\ stop' \in {stop, TRUE}
      /\ need' \in {need, 0} /\ (pc' = pc \/ (pc = "pull" /\ pc' = "handle"))
  BY DEF HangUp, Stop, ReadReturns, vars, client, history
<1>2. need' \in 0 .. MaxRead
  BY SMTT(30), <1>1, BaseFacts, Bounds
<1>3. hungUp' \in BOOLEAN /\ stop' \in BOOLEAN
  BY <1>1, BaseFacts, Zenon
<1>4. pc' \in {"idle", "read", "handle", "pull", "finish", "aborted"}
  BY <1>1, BaseFacts
<1>5. TypeInv'
  BY <1>1, <1>2, <1>3, <1>4, BaseFacts, TypeFrame
<1>6. CellInv' /\ CountInv'
  BY <1>1 DEF Base, CellInv, CountInv
<1> QED BY <1>5, <1>6 DEF Base

LEMMA ServeBase ==
  ASSUME Base, Serve
  PROVE  Base'
<1> DEFINE c == [conn EXCEPT !.buf = <<>>]
<1>1. /\ sent' = <<>> /\ wire' = <<>> /\ hungUp' = FALSE /\ conn' = Reset(c)
      /\ pc' = "read" /\ got' = <<>> /\ replies' = 0 /\ strayed' = FALSE
      /\ UNCHANGED <<need, stop, enabled, late>>
  BY DEF Serve
<1>2. <<>> \in Seq(Cell) /\ Len(<<>>) = 0 /\ <<>> \in Seq(Message)
  BY EmptySeq
<1>3. c \in Conn /\ c.buf = <<>>
  BY <1>2, BaseFacts DEF Conn
<1>4. conn' \in Conn /\ conn'.buf = <<>> /\ conn'.requestLen = 0 /\ conn'.consumed = 0
  BY <1>1, <1>3, ResetFacts
<1>5. TypeInv'
  <2>1. 0 \in -1 .. BufSize /\ 0 \in 0 .. Len(got') /\ 0 <= BufSize + 1 /\ 0 <= MaxMessages
        /\ 0 \in Nat
    BY <1>1, <1>2, Bounds
  <2>2. pc' \in {"idle", "read", "handle", "pull", "finish", "aborted"}
    BY <1>1
  <2> QED BY <1>1, <1>2, <1>4, <2>1, <2>2, BaseFacts, TypeFrame
<1>6. CellInv' /\ CountInv'
  BY <1>1, <1>2, <1>4, Bounds DEF CellInv, CountInv
<1> QED BY <1>5, <1>6 DEF Base

LEMMA WipedFacts == Wiped \in Info
  BY Bounds DEF Wiped, Info

\* request_info is request_info whatever is written over it.
LEMMA SurvivesFacts ==
  ASSUME NEW i \in Info, NEW b
  PROVE  Survives(i, b) \in Info
<1>1. Wiped \in Info
  BY WipedFacts
<1>2. Survives(i, b) = Wiped \/ Survives(i, b) = i
  BY Zenon DEF Survives
<1> QED BY <1>1, <1>2, Zenon

\* What the fields of a connection are once its buffer has changed.
LEMMA BufferFacts ==
  ASSUME NEW c \in Conn, NEW b \in Seq(Cell), NEW i \in Info,
         NEW d, d = [c EXCEPT !.buf = b, !.info = i]
  PROVE  /\ d \in Conn /\ d.buf = b /\ d.info = i /\ d.requestLen = c.requestLen
         /\ d.contentLen = c.contentLen /\ d.consumed = c.consumed
  BY DEF Conn

\* The count of getreq, apart from the rest.
LEMMA CountedConn ==
  ASSUME NEW c \in Conn, NEW n \in Nat, NEW d, d = [c EXCEPT !.n = n]
  PROVE  /\ d \in Conn /\ d.buf = c.buf /\ d.info = c.info /\ d.requestLen = c.requestLen
         /\ d.contentLen = c.contentLen /\ d.consumed = c.consumed
  BY DEF Conn

\* One recv into the room that is left of the buffer.
LEMMA ReadMoreFacts ==
  ASSUME Base, ReadMore
  PROVE  \E n \in 1 .. Len(wire) :
           /\ conn' \in Conn /\ Len(conn'.buf) <= BufSize
           /\ conn'.buf = conn.buf \o SubSeq(wire, 1, n)
           /\ wire' = SubSeq(wire, n + 1, Len(wire))
           /\ conn'.requestLen = conn.requestLen /\ conn'.contentLen = conn.contentLen
           /\ conn'.consumed = conn.consumed
<1>1. PICK n \in 1 .. Min({Len(wire), BufSize - Len(conn.buf)}) :
        LET b == conn.buf \o SubSeq(wire, 1, n) IN
          /\ conn' = [conn EXCEPT !.buf = b, !.n = n, !.info = Survives(conn.info, b)]
          /\ wire' = SubSeq(wire, n + 1, Len(wire))
  BY DEF ReadMore
<1> DEFINE b == conn.buf \o SubSeq(wire, 1, n)
           i == Survives(conn.info, b)
           c == [conn EXCEPT !.buf = b, !.info = i]
<1>2. /\ conn \in Conn /\ conn.buf \in Seq(Cell) /\ conn.info \in Info /\ wire \in Seq(Cell)
      /\ Len(wire) \in Nat /\ Len(conn.buf) \in Nat
  BY BaseFacts, Zenon
<1>3. n \in 1 .. Len(wire) /\ n \in Nat /\ n <= BufSize - Len(conn.buf)
  <2>1. BufSize - Len(conn.buf) \in Int /\ Len(wire) \in Int
    BY <1>2, Bounds
  <2>2. Min({Len(wire), BufSize - Len(conn.buf)})
          = IF Len(wire) <= BufSize - Len(conn.buf) THEN Len(wire) ELSE BufSize - Len(conn.buf)
    BY <2>1, MinOfTwo
  <2> QED BY <2>1, <2>2
<1>4. b \in Seq(Cell) /\ Len(b) = Len(conn.buf) + n
  <2>1. n \in 0 .. Len(wire)
    BY <1>2, <1>3
  <2> QED BY <1>2, <2>1, MoveFacts
<1>5. Len(b) <= BufSize
  BY <1>2, <1>3, <1>4, Bounds
<1> HIDE DEF b
<1>6. i \in Info
  BY <1>2, SurvivesFacts
<1> HIDE DEF i
<1>7. /\ c \in Conn /\ c.buf = b /\ c.requestLen = conn.requestLen
      /\ c.contentLen = conn.contentLen /\ c.consumed = conn.consumed
  <2> DEFINE d == c
  <2>1. d = [conn EXCEPT !.buf = b, !.info = i] /\ conn \in Conn
        /\ b \in Seq(Cell) /\ i \in Info
    BY <1>2, <1>4, <1>6
  <2> HIDE DEF d
  <2>2. d \in Conn
    BY <2>1, BufferFacts
  <2>3. d.buf = b /\ d.requestLen = conn.requestLen
    BY <2>1 DEF Conn
  <2>4. d.contentLen = conn.contentLen /\ d.consumed = conn.consumed
    BY <2>1 DEF Conn
  <2> QED BY <2>2, <2>3, <2>4 DEF d
<1>8. conn' = [c EXCEPT !.n = n] /\ wire' = SubSeq(wire, n + 1, Len(wire))
  BY <1>1, <1>2 DEF b, i, Conn
<1> HIDE DEF c
<1>9. /\ conn' \in Conn /\ conn'.buf = c.buf /\ conn'.requestLen = c.requestLen
      /\ conn'.contentLen = c.contentLen /\ conn'.consumed = c.consumed
  BY <1>3, <1>7, <1>8, CountedConn
<1> QED BY <1>3, <1>5, <1>7, <1>8, <1>9 DEF b

LEMMA ReadMoreBase ==
  ASSUME Base, ReadMore
  PROVE  Base'
<1>1. PICK n \in 1 .. Len(wire) :
        /\ conn' \in Conn /\ Len(conn'.buf) <= BufSize
        /\ conn'.buf = conn.buf \o SubSeq(wire, 1, n)
        /\ wire' = SubSeq(wire, n + 1, Len(wire))
        /\ conn'.requestLen = conn.requestLen /\ conn'.contentLen = conn.contentLen
        /\ conn'.consumed = conn.consumed
  BY ReadMoreFacts
<1>2. /\ pc = "read" /\ UNCHANGED <<sent, hungUp, pc, need, stop, enabled>>
      /\ UNCHANGED <<got, replies, strayed, late>>
  BY DEF ReadMore, history
<1>3. /\ conn.buf \in Seq(Cell) /\ wire \in Seq(Cell)
      /\ Len(wire) \in Nat /\ Len(conn.buf) \in Nat /\ n \in 0 .. Len(wire)
  BY BaseFacts
<1>4. /\ conn'.buf \in Seq(Cell) /\ Len(conn'.buf) = Len(conn.buf) + n
      /\ wire' \in Seq(Cell) /\ Len(wire') = Len(wire) - n
      /\ \A i \in 1 .. Len(conn.buf) : conn'.buf[i] = conn.buf[i]
      /\ \A i \in 1 .. n : conn'.buf[Len(conn.buf) + i] = wire[i]
      /\ \A i \in 1 .. Len(wire) - n : wire'[i] = wire[n + i]
  BY <1>1, <1>3, MoveFacts
<1>5. TypeInv'
  <2>1. Len(conn'.buf) <= BufSize + 1
    BY <1>1, <1>3, <1>4, Bounds
  <2>2. conn'.requestLen \in -1 .. BufSize /\ conn'.consumed \in 0 .. Len(got')
    BY <1>1, <1>2, BaseFacts, Zenon
  <2> QED BY <1>1, <1>2, <1>4, <2>1, <2>2, BaseFacts, TypeFrame
<1>6. CellInv'
  <2>1. ASSUME NEW i \in 1 .. Len(conn'.buf)
        PROVE  conn'.buf[i] = Below \/ Sent(sent, conn'.buf[i])
    <3>1. CASE i <= Len(conn.buf)
      <4>1. i \in 1 .. Len(conn.buf) /\ conn'.buf[i] = conn.buf[i]
        BY <3>1, <1>3, <1>4
      <4> QED BY <4>1 DEF Base, CellInv
    <3>2. CASE i > Len(conn.buf)
      <4>1. i - Len(conn.buf) \in 1 .. n /\ i = Len(conn.buf) + (i - Len(conn.buf))
        BY <3>2, <1>3, <1>4
      <4>2. i - Len(conn.buf) \in 1 .. Len(wire)
        BY <1>3, <4>1
      <4>3. conn'.buf[i] = wire[i - Len(conn.buf)]
        BY <1>4, <4>1
      <4> QED BY <4>2, <4>3 DEF Base, CellInv
    <3> QED BY <3>1, <3>2, <1>3
  <2>2. ASSUME NEW i \in 1 .. Len(wire')
        PROVE  Sent(sent, wire'[i])
    <3>1. n + i \in 1 .. Len(wire) /\ wire'[i] = wire[n + i]
      BY <1>3, <1>4
    <3> QED BY <3>1 DEF Base, CellInv
  <2> QED BY <1>2, <2>1, <2>2 DEF CellInv
<1>7. CountInv'
  BY <1>1, <1>2 DEF Base, CountInv
<1> QED BY <1>5, <1>6, <1>7 DEF Base

\* replies grows or not.
LEMMA CountedFacts ==
  ASSUME replies \in Nat, Counted
  PROVE  replies' \in Nat /\ (~strayed => replies' = replies + 1)
  BY DEF Counted

\* A request refused keeps the cells and the counts.
LEMMA RefuseBase ==
  ASSUME Base, NEW c \in Conn, NEW status \in Int, Refuse(c, status),
         c.buf = conn.buf, c.consumed = conn.consumed, c.requestLen \in -1 .. BufSize,
         pc = "read", strayed' \in BOOLEAN,
         UNCHANGED <<sent, wire, hungUp, need, stop, enabled>>
  PROVE  Base'
<1>1. /\ conn' \in Conn /\ conn'.buf = conn.buf /\ conn'.requestLen = c.requestLen
      /\ conn'.consumed = conn.consumed
      /\ Counted /\ pc' = "finish" /\ late' = late /\ got' = got
  BY RefuseFacts
<1>2. replies' \in Nat
  BY <1>1, BaseFacts, CountedFacts
<1>3. pc' \in {"idle", "read", "handle", "pull", "finish", "aborted"}
  BY <1>1
<1>4. TypeInv'
  BY <1>1, <1>2, <1>3, BaseFacts, TypeFrame
<1>5. CellInv'
  BY <1>1 DEF Base, CellInv
<1>6. CountInv'
  BY <1>1 DEF Base, CountInv
<1> QED BY <1>4, <1>5, <1>6 DEF Base

LEMMA ReadFailsBase ==
  ASSUME Base, ReadFails
  PROVE  Base'
<1>1. PICK r \in {-1, 0} : Refuse([conn EXCEPT !.requestLen = r], 500)
  BY ReadFailsFacts
<1>2. /\ pc = "read" /\ UNCHANGED <<sent, wire, hungUp, need, stop, enabled>>
      /\ strayed' \in BOOLEAN
  BY BaseFacts DEF ReadFails, client
<1> DEFINE c == [conn EXCEPT !.requestLen = r]
<1>3. c \in Conn /\ c.buf = conn.buf /\ c.consumed = conn.consumed /\ c.requestLen = r
  <2>1. conn \in Conn /\ r \in Int
    BY BaseFacts
  <2> QED BY <2>1 DEF Conn
<1>4. r \in -1 .. BufSize
  BY Bounds
<1>5. Refuse(c, 500) /\ 500 \in Int
  BY <1>1
<1> HIDE DEF c
<1>6. c.requestLen \in -1 .. BufSize
  BY <1>3, <1>4
<1> QED BY <1>2, <1>3, <1>5, <1>6, RefuseBase

LEMMA ParseBase ==
  ASSUME Base, Parse
  PROVE  Base'
<1>1. /\ GetRequestLen(conn.buf) \in 1 .. Len(conn.buf)
      /\ \E e \in Conn : Parsed(e) /\ Kept(e) /\ (Refused(e) \/ Accept(e))
  BY ParseFacts DEF Base
<1>2. pc = "read" /\ UNCHANGED <<sent, wire, hungUp, need, stop, enabled>>
  BY DEF Parse, client
<1>3. GetRequestLen(conn.buf) \in -1 .. BufSize
  <2>1. Len(conn.buf) <= BufSize /\ Len(conn.buf) \in Nat
    BY <1>2, BaseFacts DEF Base, CountInv
  <2> QED BY <1>1, <2>1, Bounds
<1>4. ASSUME NEW e \in Conn, Parsed(e), Kept(e), Refused(e)
      PROVE  Base'
  <2>1. /\ e.buf = conn.buf /\ e.consumed = conn.consumed /\ e.requestLen \in -1 .. BufSize
        /\ strayed' \in BOOLEAN
    BY <1>3, <1>4 DEF Parsed, Kept
  <2>2. 500 \in Int /\ 400 \in Int /\ 505 \in Int
    OBVIOUS
  <2> QED BY <1>2, <1>4, <2>1, <2>2, RefuseBase DEF Refused
<1>5. ASSUME NEW e \in Conn, Parsed(e), Kept(e), Accept(e)
      PROVE  Base'
  <2>1. /\ conn' = e /\ e.buf = conn.buf /\ e.consumed = 0
        /\ e.requestLen = GetRequestLen(conn.buf) /\ pc' = "handle" /\ got' = <<>>
        /\ late' = (IF stop THEN late + 1 ELSE late) /\ replies' = replies
        /\ strayed' \in BOOLEAN
    BY <1>2, <1>5 DEF Parsed, Kept, Accept, Base, CountInv
  <2>2. late' \in Nat
    BY <2>1, BaseFacts
  <2>3. got' \in Seq(Cell) /\ Len(got') = 0 /\ 0 \in 0 .. Len(got')
    BY <2>1, EmptySeq
  <2>4. pc' \in {"idle", "read", "handle", "pull", "finish", "aborted"}
    BY <2>1
  <2>5. TypeInv'
    BY <1>2, <1>3, <2>1, <2>2, <2>3, <2>4, BaseFacts, TypeFrame
  <2>6. CellInv'
    BY <1>2, <2>1 DEF Base, CellInv
  <2>7. CountInv'
    BY <1>1, <1>2, <2>1, <2>3 DEF Base, CountInv
  <2> QED BY <2>5, <2>6, <2>7 DEF Base
<1> QED BY <1>1, <1>4, <1>5

\* mg_read took k more cells of the body.
Took(k) ==
  /\ k \in Nat
  /\ conn' \in Conn /\ conn'.buf = conn.buf /\ conn'.info = conn.info
  /\ conn'.requestLen = conn.requestLen /\ conn'.contentLen = conn.contentLen
  /\ conn'.consumed = conn.consumed + k
  /\ got' \in Seq(Cell) /\ Len(got') = Len(got) + k
  /\ \A i \in 1 .. Len(got) : got'[i] = got[i]
  /\ need' \in 0 .. MaxRead
  /\ pc' = "pull" /\ UNCHANGED <<sent, hungUp, stop, enabled, replies, strayed, late>>

\* It took them from the buffer, and all there are before it pulls the rest.
Buffered(k) ==
  /\ \A i \in 1 .. k : got'[Len(got) + i] = conn.buf[conn.requestLen + conn.consumed + i]
  /\ conn.consumed + k + need' <= conn.contentLen
  /\ k > 0 => conn.requestLen + conn.consumed + k <= Len(conn.buf)
  /\ need' > 0 => Len(conn.buf) <= conn.requestLen + conn.consumed + k

\* mg_read counts what it took, and changes nothing else.
LEMMA TookFacts ==
  ASSUME NEW k \in Nat, NEW c \in Conn, NEW d, d = [c EXCEPT !.consumed = @ + k]
  PROVE  /\ d \in Conn /\ d.buf = c.buf /\ d.info = c.info
         /\ d.requestLen = c.requestLen /\ d.contentLen = c.contentLen
         /\ d.consumed = c.consumed + k
<1>1. c.consumed \in Nat
  BY DEF Conn
<1> DEFINE v == c.consumed + k
<1>2. v \in Nat /\ d = [c EXCEPT !.consumed = v]
  BY <1>1
<1> HIDE DEF v
<1>3. d \in Conn /\ d.buf = c.buf /\ d.info = c.info /\ d.consumed = v
  BY <1>2 DEF Conn
<1>4. d.requestLen = c.requestLen /\ d.contentLen = c.contentLen
  BY <1>2 DEF Conn
<1> QED BY <1>3, <1>4 DEF v

\* How much of a read the buffer answers.
LEMMA TakeFacts ==
  ASSUME NEW len \in 1 .. MaxRead, NEW left \in Int, NEW room \in Int, left > 0,
         NEW take, take = Max({0, Min({Min({len, left}), room})})
  PROVE  /\ take \in Nat /\ Min({len, left}) - take \in 0 .. MaxRead
         /\ Min({len, left}) <= left /\ Min({len, left}) \in Nat
         /\ take > 0 => take <= room
         /\ Min({len, left}) - take > 0 => room <= take
<1>1. MaxRead \in Nat /\ len \in Int
  BY Bounds
<1> DEFINE want == Min({len, left})
           part == Min({want, room})
<1>2. want = IF len <= left THEN len ELSE left
  BY <1>1, MinOfTwo
<1>3. want \in Nat /\ want <= left /\ want <= MaxRead
  BY <1>1, <1>2
<1> HIDE DEF want
<1>4. part = IF want <= room THEN want ELSE room
  BY <1>3, MinOfTwo
<1>5. part \in Int
  BY <1>3, <1>4
<1>6. take = Max({0, part})
  BY DEF want
<1> HIDE DEF part
<1>7. take = IF 0 >= part THEN 0 ELSE part
  BY <1>5, <1>6, MaxOfTwo
<1>8. take \in Nat /\ take <= want /\ (take > 0 => take <= room)
      /\ (want - take > 0 => room <= take)
  BY <1>3, <1>4, <1>5, <1>7
<1>9. want - take \in 0 .. MaxRead
  BY <1>1, <1>3, <1>8
<1> QED BY <1>3, <1>8, <1>9 DEF want

\* mg_read first takes what is in the buffer.
LEMMA ReadFacts ==
  ASSUME Base, NEW len \in 1 .. MaxRead, Read(len)
  PROVE  /\ pc = "handle" /\ UNCHANGED wire
         /\ \E k \in Nat : Took(k) /\ Buffered(k)
<1> DEFINE left == conn.contentLen - conn.consumed
           body == conn.requestLen + conn.consumed
           room == Len(conn.buf) - body
           want == Min({len, left})
           take == Max({0, Min({want, room})})
           new == SubSeq(conn.buf, body + 1, body + take)
<1>1. /\ pc = "handle" /\ conn.consumed < conn.contentLen
      /\ got' = got \o new /\ conn' = [conn EXCEPT !.consumed = @ + take]
      /\ need' = want - take
      /\ pc' = "pull" /\ UNCHANGED <<client, stop, enabled, replies, strayed, late>>
  BY DEF Read
<1>2. /\ conn \in Conn /\ conn.buf \in Seq(Cell) /\ Len(conn.buf) \in Nat
      /\ conn.contentLen \in Int /\ conn.consumed \in Nat /\ conn.requestLen \in Int
      /\ got \in Seq(Cell) /\ Len(got) \in Nat
  <2>1. conn \in Conn
    BY BaseFacts
  <2> QED BY <2>1, BaseFacts, Zenon DEF Conn
<1>3. left \in Int /\ left > 0 /\ body \in Int /\ room \in Int
  BY SMTT(30), <1>1, <1>2
<1>4. conn.requestLen >= 1
  BY <1>1, <1>2 DEF Base, CountInv
<1>5. /\ take \in Nat /\ want - take \in 0 .. MaxRead /\ want <= left /\ want \in Nat
      /\ take > 0 => take <= room
      /\ want - take > 0 => room <= take
  <2> DEFINE t == take
  <2>1. t = Max({0, Min({Min({len, left}), room})})
    OBVIOUS
  <2> HIDE DEF t, left, room
  <2>2. /\ t \in Nat /\ Min({len, left}) - t \in 0 .. MaxRead
        /\ Min({len, left}) <= left /\ Min({len, left}) \in Nat
        /\ t > 0 => t <= room
        /\ Min({len, left}) - t > 0 => room <= t
    BY <1>3, <2>1, TakeFacts
  <2> QED BY <2>2 DEF t
<1> HIDE DEF take, want
<1>6. /\ new \in Seq(Cell) /\ Len(new) = take
      /\ \A i \in 1 .. take : new[i] = conn.buf[body + i]
  <2>1. body + 1 \in Int /\ body + take \in Int
    BY <1>3, <1>5
  <2>2. \A i \in body + 1 .. body + take : i \in 1 .. Len(conn.buf)
    BY SMTT(30), <1>2, <1>4, <1>5
  <2>3. \A i \in body + 1 .. body + take : conn.buf[i] \in Cell
    BY <1>2, <2>2, ElementOfSeq
  <2>4. /\ new \in Seq(Cell)
        /\ Len(new) = IF body + 1 <= body + take THEN (body + take) - (body + 1) + 1 ELSE 0
        /\ \A i \in 1 .. (body + take) - (body + 1) + 1 : new[i] = conn.buf[body + 1 + i - 1]
    <3> DEFINE lo == body + 1
               hi == body + take
               b  == conn.buf
    <3>1. lo \in Int /\ hi \in Int /\ \A i \in lo .. hi : b[i] \in Cell
      BY <2>1, <2>3
    <3>2. new = SubSeq(b, lo, hi)
      OBVIOUS
    <3> HIDE DEF lo, hi, b, new
    <3>3. /\ SubSeq(b, lo, hi) \in Seq(Cell)
          /\ Len(SubSeq(b, lo, hi)) = IF lo <= hi THEN hi - lo + 1 ELSE 0
          /\ \A i \in 1 .. hi - lo + 1 : SubSeq(b, lo, hi)[i] = b[lo + i - 1]
      BY <3>1, SubSeqProperties
    <3>4. /\ new \in Seq(Cell) /\ Len(new) = IF lo <= hi THEN hi - lo + 1 ELSE 0
          /\ \A i \in 1 .. hi - lo + 1 : new[i] = b[lo + i - 1]
      BY <3>2, <3>3
    <3> QED BY <3>4 DEF lo, hi, b
  <2>5. (body + take) - (body + 1) + 1 = take /\ \A i \in 1 .. take : body + 1 + i - 1 = body + i
    BY <1>3, <1>5
  <2>6. Len(new) = take
    <3> HIDE DEF new, body
    <3> QED BY <2>4, <2>5, <1>3, <1>5
  <2> HIDE DEF new, body
  <2>7. \A i \in 1 .. take : new[i] = conn.buf[body + i]
    BY <2>4, <2>5, Zenon
  <2> QED BY <2>4, <2>6, <2>7
<1> HIDE DEF new
<1>7. /\ got' \in Seq(Cell) /\ Len(got') = Len(got) + take
      /\ \A i \in 1 .. Len(got) : got'[i] = got[i]
      /\ \A i \in 1 .. take : got'[Len(got) + i] = conn.buf[body + i]
  <2>1. /\ got' \in Seq(Cell) /\ Len(got') = Len(got) + Len(new)
        /\ \A i \in 1 .. Len(got) + Len(new) :
             got'[i] = IF i <= Len(got) THEN got[i] ELSE new[i - Len(got)]
    BY <1>1, <1>2, <1>6, ConcatProperties
  <2>2. \A i \in 1 .. Len(got) : got'[i] = got[i]
    BY SMTT(30), <1>2, <1>5, <1>6, <2>1
  <2>3. ASSUME NEW i \in 1 .. take
        PROVE  got'[Len(got) + i] = conn.buf[body + i]
    <3>1. /\ Len(got) + i \in 1 .. Len(got) + Len(new) /\ ~(Len(got) + i <= Len(got))
          /\ (Len(got) + i) - Len(got) = i
      BY <1>2, <1>5, <1>6
    <3>2. got'[Len(got) + i] = new[i]
      BY <2>1, <3>1
    <3> QED BY <1>6, <3>2
  <2> QED BY <1>6, <2>1, <2>2, <2>3
<1>8. /\ conn' \in Conn /\ conn'.buf = conn.buf /\ conn'.info = conn.info
      /\ conn'.requestLen = conn.requestLen /\ conn'.contentLen = conn.contentLen
      /\ conn'.consumed = conn.consumed + take
  BY <1>1, <1>2, <1>5, TookFacts
<1>9. Took(take)
  BY <1>1, <1>5, <1>7, <1>8 DEF Took, client
<1>10. Buffered(take)
  <2>1. \A i \in 1 .. take : got'[Len(got) + i] = conn.buf[conn.requestLen + conn.consumed + i]
    BY <1>7
  <2>2. conn.consumed + take + need' <= conn.contentLen
    BY <1>1, <1>2, <1>5
  <2>3. take > 0 => conn.requestLen + conn.consumed + take <= Len(conn.buf)
    BY SMTT(30), <1>2, <1>5
  <2>4. need' > 0 => Len(conn.buf) <= conn.requestLen + conn.consumed + take
    <3>1. want - take > 0 => room <= take
      BY <1>5
    <3> QED BY SMTT(30), <1>1, <1>2, <1>5, <3>1
  <2> QED BY <2>1, <2>2, <2>3, <2>4 DEF Buffered
<1> QED BY <1>1, <1>5, <1>9, <1>10 DEF client

\* It pulled them from the socket.
Pulled(k) ==
  /\ k \in 1 .. Len(wire) /\ k <= need /\ need' = need - k
  /\ \A i \in 1 .. k : got'[Len(got) + i] = wire[i]
  /\ wire' = SubSeq(wire, k + 1, Len(wire))

\* Then it pulls from the socket.
LEMMA ReadPullFacts ==
  ASSUME Base, ReadPull
  PROVE  pc = "pull" /\ need > 0 /\ \E k \in Nat : Took(k) /\ Pulled(k)
<1>1. PICK k \in 1 .. Min({Len(wire), need}) :
        /\ got' = got \o SubSeq(wire, 1, k) /\ wire' = SubSeq(wire, k + 1, Len(wire))
        /\ conn' = [conn EXCEPT !.consumed = @ + k] /\ need' = need - k
  BY DEF ReadPull
<1>2. /\ conn \in Conn /\ wire \in Seq(Cell) /\ Len(wire) \in Nat
      /\ got \in Seq(Cell) /\ Len(got) \in Nat /\ need \in 0 .. MaxRead
  BY BaseFacts, Zenon
<1>3. k \in 1 .. Len(wire) /\ k \in Nat /\ k <= need /\ k \in 0 .. Len(wire)
  <2>1. need \in Int /\ Len(wire) \in Int
    BY <1>2, Bounds
  <2>2. Min({Len(wire), need}) = IF Len(wire) <= need THEN Len(wire) ELSE need
    BY <2>1, MinOfTwo
  <2> QED BY <1>2, <2>1, <2>2
<1>4. /\ got' \in Seq(Cell) /\ Len(got') = Len(got) + k
      /\ \A i \in 1 .. Len(got) : got'[i] = got[i]
      /\ \A i \in 1 .. k : got'[Len(got) + i] = wire[i]
  <2> DEFINE u == got \o SubSeq(wire, 1, k)
  <2>1. /\ u \in Seq(Cell) /\ Len(u) = Len(got) + k
        /\ \A i \in 1 .. Len(got) : u[i] = got[i]
        /\ \A i \in 1 .. k : u[Len(got) + i] = wire[i]
    BY <1>2, <1>3, MoveFacts
  <2>2. got' = u
    BY <1>1
  <2> HIDE DEF u
  <2> QED BY <2>1, <2>2
<1>5. /\ conn' \in Conn /\ conn'.buf = conn.buf /\ conn'.info = conn.info
      /\ conn'.requestLen = conn.requestLen /\ conn'.contentLen = conn.contentLen
      /\ conn'.consumed = conn.consumed + k
  BY <1>1, <1>2, <1>3, TookFacts
<1>6. need' \in 0 .. MaxRead
  BY <1>1, <1>2, <1>3, Bounds
<1>7. /\ pc = "pull" /\ need > 0 /\ pc' = "pull"
      /\ UNCHANGED <<sent, hungUp, stop, enabled, replies, strayed, late>>
  BY DEF ReadPull
<1>8. Took(k)
  BY <1>3, <1>4, <1>5, <1>6, <1>7 DEF Took
<1>9. Pulled(k)
  BY <1>1, <1>3, <1>4 DEF Pulled
<1> QED BY <1>3, <1>7, <1>8, <1>9

\* A read keeps the cells and the counts.
LEMMA TookBase ==
  ASSUME Base, NEW k, Took(k), pc \in {"handle", "pull"},
         wire' \in Seq(Cell), \A i \in 1 .. Len(wire') : Sent(sent, wire'[i])
  PROVE  Base'
<1>1. /\ conn' \in Conn /\ conn'.buf = conn.buf /\ conn'.requestLen = conn.requestLen
      /\ conn'.consumed = conn.consumed + k /\ k \in Nat
      /\ got' \in Seq(Cell) /\ Len(got') = Len(got) + k /\ need' \in 0 .. MaxRead
      /\ pc' = "pull" /\ UNCHANGED <<sent, hungUp, stop, enabled, replies, strayed, late>>
  BY DEF Took
<1>2. pc' \in {"idle", "read", "handle", "pull", "finish", "aborted"}
  BY <1>1
<1>3. conn.consumed = Len(got) /\ Len(got) \in Nat
  BY BaseFacts DEF Base, CountInv
<1>4. conn'.consumed \in 0 .. Len(got')
  BY <1>1, <1>3
<1>5. TypeInv'
  BY <1>1, <1>2, <1>4, BaseFacts, TypeFrame
<1>6. CellInv'
  BY <1>1 DEF Base, CellInv
<1>7. CountInv'
  BY <1>1, <1>3 DEF Base, CountInv
<1> QED BY <1>5, <1>6, <1>7 DEF Base

LEMMA ReadBase ==
  ASSUME Base, NEW len \in 1 .. MaxRead, Read(len)
  PROVE  Base'
<1>1. pc = "handle" /\ wire' = wire /\ \E k \in Nat : Took(k)
  BY ReadFacts
<1>2. wire' \in Seq(Cell) /\ \A i \in 1 .. Len(wire') : Sent(sent, wire'[i])
  BY <1>1, BaseFacts DEF Base, CellInv
<1> QED BY <1>1, <1>2, TookBase

LEMMA ReadPullBase ==
  ASSUME Base, ReadPull
  PROVE  Base'
<1>1. pc = "pull"
  BY ReadPullFacts
<1>2. PICK k \in Nat : Took(k) /\ Pulled(k)
  BY ReadPullFacts
<1>3. k \in 1 .. Len(wire) /\ wire' = SubSeq(wire, k + 1, Len(wire))
  BY <1>2 DEF Pulled
<1>4. wire \in Seq(Cell) /\ Len(wire) \in Nat
  BY BaseFacts
<1>5. /\ wire' \in Seq(Cell) /\ Len(wire') = Len(wire) - k
      /\ \A i \in 1 .. Len(wire) - k : wire'[i] = wire[k + i]
  <2>1. k \in 0 .. Len(wire)
    BY <1>3, <1>4
  <2> QED BY <1>3, <1>4, <2>1, CutFacts
<1>6. ASSUME NEW i \in 1 .. Len(wire')
      PROVE  Sent(sent, wire'[i])
  <2>1. k + i \in 1 .. Len(wire) /\ wire'[i] = wire[k + i]
    BY SMTT(30), <1>3, <1>4, <1>5
  <2> QED BY <2>1 DEF Base, CellInv
<1> QED BY <1>1, <1>2, <1>5, <1>6, TookBase

\* A handler leaves the buffer and the request alone.
LEMMA ReplyFacts ==
  ASSUME Base, Reply
  PROVE  /\ conn' \in Conn /\ conn'.buf = conn.buf /\ conn'.info = conn.info
         /\ conn'.requestLen = conn.requestLen /\ conn'.contentLen = conn.contentLen
         /\ conn'.consumed = conn.consumed
         /\ pc = "handle" /\ pc' = "finish" /\ Counted
         /\ UNCHANGED <<client, need, stop, enabled, got, strayed, late>>
<1>1. PICK o \in Outcome :
        LET c == [conn EXCEPT !.status = o.status, !.mustClose = o.mustClose] IN
          conn' = [c EXCEPT !.said = IF o.said = "suggest" THEN Suggested(c) ELSE o.said]
  BY DEF Reply
<1>2. /\ pc = "handle" /\ pc' = "finish" /\ Counted
      /\ UNCHANGED <<client, need, stop, enabled, got, strayed, late>>
  BY Zenon DEF Reply
<1> DEFINE c == [conn EXCEPT !.status = o.status, !.mustClose = o.mustClose]
           t == IF o.said = "suggest" THEN Suggested(c) ELSE o.said
<1>3. conn \in Conn
  BY BaseFacts
<1>4. /\ c \in Conn /\ c.buf = conn.buf /\ c.info = conn.info
      /\ c.requestLen = conn.requestLen /\ c.contentLen = conn.contentLen
      /\ c.consumed = conn.consumed
  <2>1. o.status \in Int /\ (o.mustClose = TRUE \/ o.mustClose = FALSE)
    BY OutcomeFacts
  <2> QED BY <1>3, <2>1 DEF Conn
<1>5. t \in Word
  <2> HIDE DEF c
  <2>1. Suggested(c) \in {"keep-alive", "close"}
    BY DEF Suggested
  <2>2. o.said \in {"none", "suggest", "close", "cgi close", "cgi keep-alive"}
    BY OutcomeFacts
  <2> QED BY <2>1, <2>2 DEF Word
<1>6. conn' = [c EXCEPT !.said = t]
  BY <1>1
<1> HIDE DEF c, t
<1>7. /\ conn' \in Conn /\ conn'.buf = c.buf /\ conn'.info = c.info
      /\ conn'.requestLen = c.requestLen /\ conn'.contentLen = c.contentLen
      /\ conn'.consumed = c.consumed
  BY <1>4, <1>5, <1>6 DEF Conn
<1> QED BY <1>2, <1>4, <1>7

LEMMA ReplyBase ==
  ASSUME Base, Reply
  PROVE  Base'
<1>1. /\ conn' \in Conn /\ conn'.buf = conn.buf
      /\ conn'.requestLen = conn.requestLen /\ conn'.consumed = conn.consumed
      /\ pc = "handle" /\ pc' = "finish" /\ Counted
      /\ UNCHANGED <<sent, wire, hungUp, need, stop, enabled, got, strayed, late>>
  BY ReplyFacts DEF client
<1>2. pc' \in {"idle", "read", "handle", "pull", "finish", "aborted"}
  BY <1>1
<1>3. replies' \in Nat
  BY <1>1, BaseFacts, CountedFacts
<1>4. TypeInv'
  BY <1>1, <1>2, <1>3, BaseFacts, TypeFrame
<1>5. CellInv' /\ CountInv'
  BY <1>1 DEF Base, CellInv, CountInv
<1> QED BY <1>4, <1>5 DEF Base

\* What the memmove leaves in the buffer.
LEMMA MovedFacts ==
  ASSUME Base
  PROVE  LET n == DiscardLen(conn)
             b == Moved(conn.buf, n) IN
           /\ n \in -1 .. Len(conn.buf)
           /\ b \in Seq(Cell) /\ Len(b) = Len(conn.buf) - n
           /\ n = -1 => /\ b[1] = Below
                        /\ \A i \in 1 .. Len(conn.buf) : b[i + 1] = conn.buf[i]
           /\ n # -1 => \A i \in 1 .. Len(conn.buf) - n : b[i] = conn.buf[n + i]
<1> DEFINE s == conn.buf
           n == DiscardLen(conn)
           b == Moved(s, n)
<1>1. /\ s \in Seq(Cell) /\ Len(s) \in Nat /\ conn.contentLen \in Int
      /\ conn.requestLen \in -1 .. BufSize
  BY BaseFacts, Zenon
<1>2. n \in -1 .. Len(s)
  <2>1. conn.requestLen \in Int /\ conn.requestLen >= -1
    BY <1>1, Bounds
  <2>2. CASE conn.contentLen >= 0 /\ conn.requestLen + conn.contentLen < Len(s)
    BY <1>1, <2>1, <2>2 DEF DiscardLen
  <2>3. CASE ~(conn.contentLen >= 0 /\ conn.requestLen + conn.contentLen < Len(s))
    <3>1. n = Len(s)
      BY <2>3 DEF DiscardLen
    <3> QED BY <1>1, <3>1
  <2> QED BY <2>2, <2>3
<1>3. n \in Int /\ (n # -1 => n \in 0 .. Len(s))
  BY <1>1, <1>2
<1> HIDE DEF n, s
<1>4. CASE n = -1
  <2>1. b = <<Below>> \o s /\ Below \in Cell
    BY <1>4 DEF Moved, Below, Cell
  <2>2. /\ <<Below>> \in Seq(Cell) /\ Len(<<Below>>) = 1 /\ <<Below>>[1] = Below
    BY <2>1
  <2>3. /\ b \in Seq(Cell) /\ Len(b) = 1 + Len(s)
        /\ \A i \in 1 .. 1 + Len(s) : b[i] = IF i <= 1 THEN <<Below>>[i] ELSE s[i - 1]
    BY <1>1, <2>1, <2>2, ConcatProperties
  <2> HIDE DEF b
  <2>4. b[1] = Below
    BY <1>1, <2>2, <2>3
  <2>5. ASSUME NEW i \in 1 .. Len(s) PROVE b[i + 1] = s[i]
    <3>1. i + 1 \in 1 .. 1 + Len(s) /\ ~(i + 1 <= 1) /\ (i + 1) - 1 = i
      BY <1>1
    <3> QED BY <2>3, <3>1
  <2>6. Len(b) = Len(s) - n
    BY <1>1, <1>4, <2>3
  <2> QED BY <1>2, <1>4, <2>3, <2>4, <2>5, <2>6 DEF n, s, b
<1>5. CASE n # -1
  <2>1. b = SubSeq(s, n + 1, Len(s))
    BY <1>5 DEF Moved
  <2>2. /\ b \in Seq(Cell) /\ Len(b) = Len(s) - n
        /\ \A i \in 1 .. Len(s) - n : b[i] = s[n + i]
    BY <1>1, <1>3, <1>5, <2>1, CutFacts
  <2> HIDE DEF b
  <2> QED BY <1>2, <1>5, <2>2 DEF n, s, b
<1> QED BY <1>4, <1>5

LEMMA ClosedConn ==
  ASSUME NEW c \in Conn, NEW d, d = [c EXCEPT !.mustClose = TRUE]
  PROVE  /\ d \in Conn /\ d.buf = c.buf /\ d.requestLen = c.requestLen
         /\ d.contentLen = c.contentLen /\ d.consumed = c.consumed
  BY DEF Conn

\* The end of a turn.
LEMMA FinishFacts ==
  ASSUME Base, Finish
  PROVE  /\ pc = "finish" /\ conn' \in Conn
         /\ conn'.buf = Moved(conn.buf, DiscardLen(conn))
         /\ strayed' = (strayed \/ LeavesMidway)
         /\ UNCHANGED <<client, need, stop, enabled, got, replies, late>>
         /\ \/ pc' \in {"aborted", "idle"} /\ conn'.requestLen = conn.requestLen
                 /\ conn'.consumed = conn.consumed
            \/ pc' = "read" /\ Again(conn) /\ conn'.requestLen = 0 /\ conn'.consumed = 0
         /\ pc' # "aborted" => Len(conn'.buf) <= BufSize
<1> DEFINE b == Moved(conn.buf, DiscardLen(conn))
           i == Survives(conn.info, b)
           c == [conn EXCEPT !.buf = b, !.info = i]
<1>1. /\ pc = "finish" /\ strayed' = (strayed \/ LeavesMidway)
      /\ UNCHANGED <<client, need, stop, enabled, got, replies, late>>
  BY DEF Finish
<1>2. conn \in Conn /\ b \in Seq(Cell) /\ conn.info \in Info
  BY BaseFacts, MovedFacts
<1>3. \/ Len(b) > BufSize /\ pc' = "aborted" /\ conn' = c
      \/ ~(Len(b) > BufSize) /\ Again(conn) /\ pc' = "read" /\ conn' = Reset(c)
      \/ ~(Len(b) > BufSize) /\ pc' = "idle" /\ conn' = [c EXCEPT !.mustClose = TRUE]
  BY DEF Finish
<1> HIDE DEF b
<1>4. i \in Info
  BY <1>2, SurvivesFacts
<1> HIDE DEF i
<1>5. c \in Conn /\ c.buf = b /\ c.requestLen = conn.requestLen /\ c.consumed = conn.consumed
  BY <1>2, <1>4 DEF Conn
<1> HIDE DEF c
<1>6. ~(Len(b) > BufSize) => Len(b) <= BufSize
  BY <1>2, LenProperties, Bounds
<1>7. CASE pc' = "aborted" /\ conn' = c
  BY <1>1, <1>5, <1>7 DEF b
<1>8. CASE ~(Len(b) > BufSize) /\ Again(conn) /\ pc' = "read" /\ conn' = Reset(c)
  <2>1. /\ conn' \in Conn /\ conn'.buf = b /\ conn'.requestLen = 0 /\ conn'.consumed = 0
    BY <1>5, <1>8, ResetFacts
  <2> QED BY <1>1, <1>6, <1>8, <2>1 DEF b
<1>9. CASE ~(Len(b) > BufSize) /\ pc' = "idle" /\ conn' = [c EXCEPT !.mustClose = TRUE]
  <2>1. /\ conn' \in Conn /\ conn'.buf = b /\ conn'.requestLen = conn.requestLen
        /\ conn'.consumed = conn.consumed
    BY <1>5, <1>9, ClosedConn
  <2> QED BY <1>1, <1>6, <1>9, <2>1 DEF b
<1> QED BY <1>3, <1>7, <1>8, <1>9

LEMMA FinishBase ==
  ASSUME Base, Finish
  PROVE  Base'
<1> DEFINE n == DiscardLen(conn)
           b == Moved(conn.buf, n)
<1>1. /\ pc = "finish" /\ conn' \in Conn /\ conn'.buf = b
      /\ strayed' = (strayed \/ LeavesMidway)
      /\ UNCHANGED <<sent, wire, hungUp, need, stop, enabled, got, replies, late>>
      /\ \/ pc' \in {"aborted", "idle"} /\ conn'.requestLen = conn.requestLen
              /\ conn'.consumed = conn.consumed
         \/ pc' = "read" /\ conn'.requestLen = 0 /\ conn'.consumed = 0
      /\ pc' # "aborted" => Len(conn'.buf) <= BufSize
  BY FinishFacts DEF client
<1>2. /\ n \in -1 .. Len(conn.buf)
      /\ b \in Seq(Cell) /\ Len(b) = Len(conn.buf) - n
      /\ n = -1 => /\ b[1] = Below
                   /\ \A i \in 1 .. Len(conn.buf) : b[i + 1] = conn.buf[i]
      /\ n # -1 => \A i \in 1 .. Len(conn.buf) - n : b[i] = conn.buf[n + i]
  BY MovedFacts
<1> HIDE DEF b, n
<1>3. Len(conn.buf) <= BufSize /\ Len(conn.buf) \in Nat
  BY <1>1, BaseFacts DEF Base, CountInv
<1>4. TypeInv'
  <2>1. pc' \in {"idle", "read", "handle", "pull", "finish", "aborted"}
    BY <1>1
  <2>2. 0 \in -1 .. BufSize /\ 0 \in 0 .. Len(got)
    BY BaseFacts, Bounds
  <2>3. conn'.requestLen \in -1 .. BufSize /\ conn'.consumed \in 0 .. Len(got')
    BY <1>1, <2>2, BaseFacts
  <2>4. Len(conn'.buf) <= BufSize + 1
    BY <1>1, <1>2, <1>3, Bounds
  <2>5. strayed' \in BOOLEAN
    BY <1>1, BaseFacts
  <2> QED BY <1>1, <2>1, <2>3, <2>4, <2>5, BaseFacts, TypeFrame
<1>5. CellInv'
  <2>1. ASSUME NEW i \in 1 .. Len(b)
        PROVE  b[i] = Below \/ Sent(sent, b[i])
    <3>1. CASE n = -1 /\ i = 1
      BY <1>2, <3>1
    <3>2. CASE n = -1 /\ i # 1
      <4>1. i - 1 \in 1 .. Len(conn.buf) /\ i = (i - 1) + 1
        BY <1>2, <1>3, <3>2
      <4>2. b[i] = conn.buf[i - 1]
        BY <1>2, <3>2, <4>1
      <4> QED BY <4>1, <4>2 DEF Base, CellInv
    <3>3. CASE n # -1
      <4>1. n + i \in 1 .. Len(conn.buf) /\ i \in 1 .. Len(conn.buf) - n
        BY <1>2, <1>3, <3>3
      <4>2. b[i] = conn.buf[n + i]
        BY <1>2, <3>3, <4>1
      <4> QED BY <4>1, <4>2 DEF Base, CellInv
    <3> QED BY <3>1, <3>2, <3>3
  <2> QED BY <1>1, <2>1 DEF Base, CellInv
<1>6. CountInv'
  BY <1>1 DEF CountInv
<1> QED BY <1>4, <1>5, <1>6 DEF Base

\* Every step keeps types, cells and counts.
LEMMA BaseStep ==
  ASSUME Base, [Next]_vars
  PROVE  Base'
  BY SendBase, OutsideBase, ServeBase, ReadMoreBase, ReadFailsBase, ParseBase, ReadBase,
     ReadPullBase, ReplyBase, FinishBase DEF Next, Worker

-----------------------------------------------------------------------------
(* Runs of the client's stream *)

\* Two runs, the second from where the first one stops.
LEMMA RunJoin ==
  ASSUME NEW ms, NEW p, NEW s \in Seq(Cell), NEW t \in Seq(Cell),
         Run(ms, s, p), Run(ms, t, After(ms, s, p))
  PROVE  /\ Run(ms, s \o t, p)
         /\ After(ms, s \o t, p) = After(ms, t, After(ms, s, p))
<1> DEFINE u == s \o t
<1>1. /\ Len(u) = Len(s) + Len(t) /\ Len(s) \in Nat /\ Len(t) \in Nat
      /\ \A i \in 1 .. Len(s) + Len(t) : u[i] = IF i <= Len(s) THEN s[i] ELSE t[i - Len(s)]
  BY ConcatProperties, LenProperties
<1> HIDE DEF u
<1>2. ASSUME NEW i \in 1 .. Len(u)
      PROVE  u[i] = IF i = 1 THEN p ELSE Succ(ms, u[i - 1])
  <2>1. CASE i <= Len(s)
    <3>1. i \in 1 .. Len(s) /\ u[i] = s[i]
      BY <1>1, <2>1
    <3>2. i # 1 => u[i - 1] = s[i - 1]
      BY SMTT(30), <1>1, <2>1
    <3> QED BY <3>1, <3>2 DEF Run
  <2>2. CASE i > Len(s)
    <3> DEFINE j == i - Len(s)
    <3>1. j \in 1 .. Len(t) /\ u[i] = t[j]
      BY <1>1, <2>2
    <3>2. t[j] = IF j = 1 THEN After(ms, s, p) ELSE Succ(ms, t[j - 1])
      BY <3>1 DEF Run
    <3>3. CASE j # 1
      <4>0. i \in Int /\ i <= Len(s) + Len(t)
        BY <1>1
      <4>1. i - 1 \in 1 .. Len(s) + Len(t) /\ ~(i - 1 <= Len(s)) /\ (i - 1) - Len(s) = j - 1
        BY <1>1, <2>2, <3>3, <4>0
      <4>2. u[i - 1] = t[j - 1]
        BY <1>1, <4>1
      <4>3. i # 1
        BY <1>1, <4>1
      <4> QED BY <3>1, <3>2, <3>3, <4>2, <4>3
    <3>4. CASE j = 1 /\ Len(s) = 0
      <4>1. i = 1 /\ After(ms, s, p) = p
        BY <1>1, <3>4 DEF After
      <4> QED BY <3>1, <3>2, <3>4, <4>1
    <3>5. CASE j = 1 /\ Len(s) # 0
      <4>1. i # 1 /\ i - 1 = Len(s) /\ Len(s) \in 1 .. Len(s) + Len(t) /\ Len(s) <= Len(s)
        BY <1>1, <3>5
      <4>2. u[i - 1] = s[Len(s)]
        BY <1>1, <4>1
      <4>3. After(ms, s, p) = Succ(ms, s[Len(s)])
        BY <3>5 DEF After
      <4> QED BY <3>1, <3>2, <3>5, <4>1, <4>2, <4>3
    <3> QED BY <3>3, <3>4, <3>5
  <2> QED BY <2>1, <2>2, <1>1
<1>3. CASE Len(t) = 0
  <2>1. After(ms, t, After(ms, s, p)) = After(ms, s, p) /\ Len(u) = Len(s)
    BY <1>1, <1>3 DEF After
  <2>2. Len(s) # 0 => u[Len(s)] = s[Len(s)]
    BY <1>1
  <2>3. After(ms, u, p) = After(ms, s, p)
    BY <2>1, <2>2 DEF After
  <2> QED BY <1>2, <2>1, <2>3 DEF Run, u
<1>4. CASE Len(t) # 0
  <2>1. /\ Len(u) \in 1 .. Len(s) + Len(t) /\ ~(Len(u) <= Len(s)) /\ Len(u) - Len(s) = Len(t)
        /\ Len(u) # 0
    BY <1>1, <1>4
  <2>2. u[Len(u)] = t[Len(t)]
    BY <1>1, <2>1
  <2>3. After(ms, u, p) = After(ms, t, After(ms, s, p))
    BY <1>4, <2>1, <2>2 DEF After
  <2> QED BY <1>2, <2>3 DEF Run, u
<1> QED BY <1>3, <1>4

\* A run cut in two behind its n-th cell.
LEMMA RunCut ==
  ASSUME NEW ms, NEW p, NEW t \in Seq(Cell), NEW n \in 0 .. Len(t), Run(ms, t, p)
  PROVE  LET h == SubSeq(t, 1, n)
             r == SubSeq(t, n + 1, Len(t))
             q == IF n = 0 THEN p ELSE Succ(ms, t[n]) IN
           /\ Run(ms, h, p) /\ After(ms, h, p) = q
           /\ Run(ms, r, q) /\ After(ms, r, q) = After(ms, t, p)
<1> DEFINE h == SubSeq(t, 1, n)
           r == SubSeq(t, n + 1, Len(t))
           q == IF n = 0 THEN p ELSE Succ(ms, t[n])
<1>1. /\ Len(h) = n /\ Len(t) \in Nat /\ n \in Nat
      /\ \A i \in 1 .. n : h[i] = t[i]
      /\ Len(r) = Len(t) - n
      /\ \A i \in 1 .. Len(t) - n : r[i] = t[n + i]
  BY CutFacts, LenProperties
<1> HIDE DEF h, r
<1>2. Run(ms, h, p)
  <2> SUFFICES ASSUME NEW i \in 1 .. n PROVE h[i] = IF i = 1 THEN p ELSE Succ(ms, h[i - 1])
    BY <1>1 DEF Run
  <2>1. i \in 1 .. Len(t) /\ h[i] = t[i]
    BY <1>1
  <2>2. i # 1 => h[i - 1] = t[i - 1]
    BY <1>1
  <2> QED BY <2>1, <2>2 DEF Run
<1>3. After(ms, h, p) = q
  BY <1>1 DEF After
<1>4. Run(ms, r, q)
  <2> SUFFICES ASSUME NEW i \in 1 .. Len(t) - n
               PROVE r[i] = IF i = 1 THEN q ELSE Succ(ms, r[i - 1])
    BY <1>1 DEF Run
  <2>1. n + i \in 1 .. Len(t) /\ r[i] = t[n + i]
    BY <1>1
  <2>2. t[n + i] = IF n + i = 1 THEN p ELSE Succ(ms, t[(n + i) - 1])
    BY <2>1 DEF Run
  <2>3. CASE i = 1
    <3>1. n + i = 1 <=> n = 0
      BY <1>1, <2>3
    <3>2. (n + i) - 1 = n
      BY <1>1, <2>3
    <3> QED BY <2>1, <2>2, <2>3, <3>1, <3>2
  <2>4. CASE i # 1
    <3>1. n + i # 1 /\ i - 1 \in 1 .. Len(t) - n /\ n + (i - 1) = (n + i) - 1
      BY <1>1, <2>4
    <3>2. r[i - 1] = t[(n + i) - 1]
      BY <1>1, <3>1
    <3> QED BY <2>1, <2>2, <2>4, <3>1, <3>2
  <2> QED BY <2>3, <2>4
<1>5. After(ms, r, q) = After(ms, t, p)
  <2>1. CASE n = Len(t)
    BY <1>1, <2>1 DEF After
  <2>2. CASE n # Len(t)
    <3>1. Len(t) - n \in 1 .. Len(t) - n /\ n + (Len(t) - n) = Len(t) /\ Len(r) # 0 /\ Len(t) # 0
      BY <1>1, <2>2
    <3>2. r[Len(r)] = t[Len(t)]
      BY <1>1, <3>1
    <3> QED BY <3>1, <3>2 DEF After
  <2> QED BY <2>1, <2>2
<1> QED BY <1>2, <1>3, <1>4, <1>5 DEF h, r

\* Cells moved from the front of one run to the end of the one before it.
LEMMA RunMove ==
  ASSUME NEW ms, NEW p, NEW s \in Seq(Cell), NEW t \in Seq(Cell), NEW n \in 0 .. Len(t),
         Run(ms, s, p), Run(ms, t, After(ms, s, p))
  PROVE  LET u == s \o SubSeq(t, 1, n)
             r == SubSeq(t, n + 1, Len(t)) IN
           /\ Run(ms, u, p) /\ Run(ms, r, After(ms, u, p))
           /\ After(ms, r, After(ms, u, p)) = After(ms, t, After(ms, s, p))
<1> DEFINE h == SubSeq(t, 1, n)
           r == SubSeq(t, n + 1, Len(t))
           a == After(ms, s, p)
           q == IF n = 0 THEN a ELSE Succ(ms, t[n])
<1>1. /\ Run(ms, h, a) /\ After(ms, h, a) = q
      /\ Run(ms, r, q) /\ After(ms, r, q) = After(ms, t, a)
  <2> HIDE DEF a
  <2>1. Run(ms, t, a)
    BY DEF a
  <2> QED BY <2>1, RunCut
<1>2. h \in Seq(Cell)
  BY CutFacts
<1> HIDE DEF h, r, q
<1>3. Run(ms, s \o h, p) /\ After(ms, s \o h, p) = q
  BY <1>1, <1>2, RunJoin
<1> QED BY <1>1, <1>3 DEF h, r

\* Within a message the cells of a run follow one another.
LEMMA RunInside ==
  ASSUME NEW ms, NEW k \in Nat, NEW a \in Nat \ {0}, Size(ms, k) \in Nat,
         NEW s \in Seq(Cell), Run(ms, s, <<k, a>>),
         NEW j \in 1 .. Len(s), a + j - 1 <= Size(ms, k)
  PROVE  s[j] = <<k, a + j - 1>>
<1> DEFINE bad == {i \in 1 .. Len(s) : a + i - 1 <= Size(ms, k) /\ s[i] # <<k, a + i - 1>>}
<1>1. Len(s) \in Nat
  BY LenProperties
<1> SUFFICES ASSUME bad # {} PROVE FALSE
  OBVIOUS
<1>2. bad \subseteq Nat
  BY <1>1
<1> DEFINE x == Min(bad)
<1>3. x \in bad /\ \A y \in bad : x <= y
  <2> HIDE DEF bad
  <2> QED BY <1>2, MinFacts
<1> HIDE DEF x
<1>4. x \in 1 .. Len(s) /\ a + x - 1 <= Size(ms, k) /\ s[x] # <<k, a + x - 1>>
  BY <1>3
<1>5. s[x] = IF x = 1 THEN <<k, a>> ELSE Succ(ms, s[x - 1])
  BY <1>4 DEF Run
<1>6. CASE x = 1
  BY <1>4, <1>5, <1>6
<1>7. CASE x # 1
  <2>1. x - 1 \in 1 .. Len(s) /\ a + (x - 1) - 1 < Size(ms, k) /\ ~(x <= x - 1)
    <3>1. x \in Int
      BY <1>1, <1>4
    <3>2. x - 1 \in 1 .. Len(s) /\ ~(x <= x - 1)
      BY <1>1, <1>4, <1>7, <3>1
    <3> DEFINE z == Size(ms, k)
    <3>3. z \in Int /\ a + x - 1 <= z
      BY <1>4
    <3> HIDE DEF z
    <3>4. a + (x - 1) - 1 < z
      BY <3>1, <3>3
    <3> QED BY <3>2, <3>4 DEF z
  <2>2. x - 1 \notin bad
    BY <1>3, <2>1
  <2>3. s[x - 1] = <<k, a + (x - 1) - 1>>
    BY SMTT(30), <2>1, <2>2
  <2> DEFINE c == <<k, a + (x - 1) - 1>>
  <2>4. c[1] = k /\ c[2] = a + (x - 1) - 1
    OBVIOUS
  <2> HIDE DEF c
  <2>5. Succ(ms, c) = <<k, a + (x - 1) - 1 + 1>>
    BY <2>1, <2>4 DEF Succ
  <2>6. a + (x - 1) - 1 + 1 = a + x - 1
    BY SMTT(30), <1>1, <1>4
  <2> QED BY <1>4, <1>5, <1>7, <2>3, <2>5, <2>6 DEF c
<1> QED BY <1>6, <1>7

\* A run of cells of messages sent stays one when one more is sent.
LEMMA RunGrows ==
  ASSUME NEW ms \in Seq(Message), NEW m \in Message, NEW p, NEW s \in Seq(Cell),
         \A i \in 1 .. Len(s) : Sent(ms, s[i]), Run(ms, s, p)
  PROVE  /\ Run(Append(ms, m), s, p)
         /\ After(Append(ms, m), s, p) = After(ms, s, p)
<1>1. \A i \in 1 .. Len(s) : Succ(Append(ms, m), s[i]) = Succ(ms, s[i])
  BY SentGrows
<1>2. Len(s) \in Nat
  BY LenProperties
<1>3. \A i \in 1 .. Len(s) : i # 1 => i - 1 \in 1 .. Len(s)
  BY <1>2
<1>4. Run(Append(ms, m), s, p)
  BY <1>1, <1>3 DEF Run
<1>5. Len(s) # 0 => Len(s) \in 1 .. Len(s)
  BY <1>2
<1>6. After(Append(ms, m), s, p) = After(ms, s, p)
  BY <1>1, <1>5 DEF After
<1> QED BY <1>4, <1>6

\* The byte below the buffer is in no run.
LEMMA RunSent ==
  ASSUME NEW ms, NEW k, NEW s \in Seq(Cell), Run(ms, s, <<k, 1>>),
         \A i \in 1 .. Len(s) : s[i] = Below \/ Sent(ms, s[i])
  PROVE  \A i \in 1 .. Len(s) : Sent(ms, s[i])
<1> SUFFICES ASSUME NEW i \in 1 .. Len(s) PROVE s[i] # Below
  OBVIOUS
<1>1. Len(s) \in Nat
  BY LenProperties
<1>2. Below[2] = 0
  BY DEF Below
<1>3. CASE i = 1
  <2>1. s[i] = <<k, 1>>
    BY <1>3 DEF Run
  <2> QED BY <1>2, <2>1
<1>4. CASE i # 1
  <2>1. i - 1 \in 1 .. Len(s)
    BY <1>1, <1>4
  <2>2. s[i] = Succ(ms, s[i - 1]) /\ s[i - 1] \in Cell
    BY <1>4, <2>1, ElementOfSeq DEF Run
  <2>3. s[i - 1][2] \in Nat
    BY <2>2 DEF Cell
  <2>4. s[i][2] = s[i - 1][2] + 1 \/ s[i][2] = 1
    BY <2>2 DEF Succ
  <2>5. s[i][2] # 0
    BY <2>3, <2>4
  <2> QED BY <1>2, <2>5
<1> QED BY <1>3, <1>4

-----------------------------------------------------------------------------
(* The buffer and the wire are the client's stream *)

\* Sizes and heads of the messages sent.
LEMMA SizeFacts ==
  ASSUME Base, NEW k \in 1 .. Len(sent)
  PROVE  /\ sent[k] \in Message /\ k \in Nat
         /\ sent[k].head \in Nat \ {0} /\ sent[k].body \in Nat
         /\ sent[k].length \in {-1, sent[k].body}
         /\ Size(sent, k) \in Nat \ {0} /\ Size(sent, k) = sent[k].head + sent[k].body
<1>1. sent[k] \in Message /\ k \in Nat
  BY BaseFacts, ElementOfSeq
<1>2. /\ sent[k].head \in Nat \ {0} /\ sent[k].body \in Nat
      /\ sent[k].length \in {-1, sent[k].body}
  BY <1>1, MessageFacts
<1> QED BY SMTT(30), <1>1, <1>2 DEF Size

\* What the client adds goes to the end of the wire.
LEMMA OnWireGrows ==
  ASSUME Base, NEW m \in Message, NEW p,
         sent' = Append(sent, m), wire' = wire \o Cells(Len(sent) + 1, m),
         OnWire(sent, wire, p)
  PROVE  OnWire(sent', wire', p)
<1> DEFINE n == Len(sent) + 1
           new == Cells(n, m)
<1>1. /\ sent \in Seq(Message) /\ wire \in Seq(Cell) /\ Len(sent) \in Nat
      /\ \A i \in 1 .. Len(wire) : Sent(sent, wire[i])
  BY BaseFacts DEF Base, CellInv
<1>2. /\ new \in Seq(Cell) /\ Len(new) = m.head + m.body /\ Len(new) \in Nat \ {0}
      /\ \A j \in 1 .. Len(new) : new[j] = <<n, j>>
  BY <1>1, CellsFacts
<1>3. Len(sent') = n /\ sent'[n] = m /\ n \in Nat
  BY <1>1, AppendProperties
<1>4. Size(sent', n) = Len(new)
  BY <1>2, <1>3 DEF Size
<1> HIDE DEF n, new
<1>5. Run(sent', wire, p) /\ After(sent', wire, p) = <<n, 1>>
  BY <1>1, RunGrows DEF OnWire, n
<1>6. Run(sent', new, <<n, 1>>)
  <2> SUFFICES ASSUME NEW i \in 1 .. Len(new)
               PROVE new[i] = IF i = 1 THEN <<n, 1>> ELSE Succ(sent', new[i - 1])
    BY DEF Run
  <2>1. new[i] = <<n, i>>
    BY <1>2
  <2>2. CASE i # 1
    <3>1. i - 1 \in 1 .. Len(new) /\ i - 1 < Len(new) /\ (i - 1) + 1 = i
      BY <1>2, <2>2
    <3>2. new[i - 1] = <<n, i - 1>>
      BY <1>2, <3>1
    <3> DEFINE c == <<n, i - 1>>
    <3>3. c[1] = n /\ c[2] = i - 1
      OBVIOUS
    <3> HIDE DEF c
    <3>4. Succ(sent', c) = <<n, (i - 1) + 1>>
      BY <1>4, <3>1, <3>3 DEF Succ
    <3> QED BY <2>1, <2>2, <3>1, <3>2, <3>4 DEF c
  <2> QED BY <2>1, <2>2
<1>7. After(sent', new, <<n, 1>>) = <<n + 1, 1>>
  <2>1. Len(new) \in 1 .. Len(new) /\ Len(new) # 0
    BY <1>2
  <2>2. new[Len(new)] = <<n, Len(new)>>
    BY <1>2, <2>1
  <2> DEFINE c == <<n, Len(new)>>
  <2>3. c[1] = n /\ c[2] = Len(new)
    OBVIOUS
  <2> HIDE DEF c
  <2>4. Succ(sent', c) = <<n + 1, 1>>
    BY <1>2, <1>4, <2>3 DEF Succ
  <2> QED BY <2>1, <2>2, <2>4 DEF After, c
<1>8. Run(sent', wire \o new, p) /\ After(sent', wire \o new, p) = <<n + 1, 1>>
  <2>1. Run(sent', new, After(sent', wire, p))
    BY <1>5, <1>6
  <2>2. /\ Run(sent', wire \o new, p)
        /\ After(sent', wire \o new, p) = After(sent', new, After(sent', wire, p))
    BY ZenonT(60), <1>1, <1>2, <1>5, <2>1, RunJoin
  <2> QED BY <1>5, <1>7, <2>2
<1>9. wire' = wire \o new
  BY DEF new, n
<1> QED BY <1>3, <1>8, <1>9, Zenon DEF OnWire

\* The client adds a message at the end of the stream.
LEMMA SendTrack ==
  ASSUME Base, TrackInv, Send
  PROVE  TrackInv'
<1>1. PICK m \in Message :
        sent' = Append(sent, m) /\ wire' = wire \o Cells(Len(sent) + 1, m)
  BY DEF Send
<1>2. UNCHANGED <<pc, conn, enabled, got, replies, strayed>>
  BY DEF Send, history
<1>3. /\ sent \in Seq(Message) /\ Len(sent) \in Nat /\ conn.buf \in Seq(Cell)
      /\ Len(sent') = Len(sent) + 1
      /\ \A i \in 1 .. Len(sent) : sent'[i] = sent[i]
      /\ replies \in Nat /\ conn.requestLen \in Int /\ conn.consumed \in Nat
  BY <1>1, BaseFacts, AppendProperties
<1>4. ASSUME NEW k \in Nat, Run(sent, conn.buf, <<k, 1>>)
      PROVE  /\ Run(sent', conn.buf, <<k, 1>>)
             /\ After(sent', conn.buf, <<k, 1>>) = After(sent, conn.buf, <<k, 1>>)
  <2>1. \A i \in 1 .. Len(conn.buf) : Sent(sent, conn.buf[i])
    BY <1>3, <1>4, RunSent DEF Base, CellInv
  <2> QED BY <1>1, <1>3, <1>4, <2>1, RunGrows
<1>5. ASSUME NEW k \in Nat, Between(k)
      PROVE  Between(k)'
  <2>1. Run(sent, conn.buf, <<k, 1>>) /\ OnWire(sent, wire, After(sent, conn.buf, <<k, 1>>))
    BY <1>5 DEF Between
  <2>2. OnWire(sent', wire', After(sent, conn.buf, <<k, 1>>))
    BY <1>1, <2>1, OnWireGrows
  <2> QED BY <1>2, <1>4, <2>1, <2>2 DEF Between
<1>6. ASSUME NEW k \in Nat, Within(k)
      PROVE  Within(k)'
  <2>1. /\ k \in 1 .. Len(sent) /\ conn.requestLen = sent[k].head
        /\ conn.contentLen = sent[k].length /\ conn.requestLen <= Len(conn.buf)
        /\ conn.consumed > 0 => conn.consumed <= conn.contentLen
        /\ Run(sent, conn.buf, <<k, 1>>) /\ OnWire(sent, wire, NextOnWire(k))
    BY <1>6 DEF Within
  <2>2. /\ k \in 1 .. Len(sent') /\ sent'[k] = sent[k]
    BY <1>3, <2>1
  <2>3. Run(sent', conn.buf, <<k, 1>>)
    BY <1>4, <2>1
  <2>4. NextOnWire(k)' = NextOnWire(k)
    <3>1. After(sent', conn.buf, <<k, 1>>) = After(sent, conn.buf, <<k, 1>>)
      BY <1>4, <2>1
    <3> DEFINE c == <<k, conn.requestLen + conn.consumed>>
    <3>2. c[1] = k
      OBVIOUS
    <3> HIDE DEF c
    <3>3. Size(sent', k) = Size(sent, k)
      BY <2>2 DEF Size
    <3>4. Succ(sent', c) = Succ(sent, c)
      BY <3>2, <3>3 DEF Succ
    <3> QED BY <1>2, <3>1, <3>4 DEF NextOnWire, c
  <2>5. OnWire(sent', wire', NextOnWire(k))
    BY <1>1, <2>1, OnWireGrows
  <2> QED BY <1>2, <2>1, <2>2, <2>3, <2>4, <2>5 DEF Within
<1>7. ShouldKeepAlive(conn)' = ShouldKeepAlive(conn)
  BY <1>2 DEF ShouldKeepAlive
<1>8. replies + 1 \in Nat
  BY <1>3
<1> QED BY <1>2, <1>3, <1>5, <1>6, <1>7, <1>8 DEF TrackInv

\* Steps that leave the stream, the buffer and the request alone.
LEMMA StillTrack ==
  ASSUME TrackInv, HangUp \/ Stop \/ ReadReturns \/ UNCHANGED vars
  PROVE  TrackInv'
<1>1. /\ UNCHANGED <<sent, wire, conn, enabled, got, replies, strayed>>
      /\ pc' = pc \/ (pc = "pull" /\ pc' = "handle")
  BY DEF HangUp, Stop, ReadReturns, vars, client, history
<1>2. \A k : /\ Between(k)' = Between(k) /\ Within(k)' = Within(k)
  BY <1>1 DEF Between, Within, NextOnWire
<1>3. ShouldKeepAlive(conn)' = ShouldKeepAlive(conn)
  BY <1>1 DEF ShouldKeepAlive
<1> QED BY <1>1, <1>2, <1>3 DEF TrackInv

\* A new connection is a new stream.
LEMMA ServeTrack ==
  ASSUME Base, Serve
  PROVE  TrackInv'
<1>1. /\ sent' = <<>> /\ wire' = <<>> /\ pc' = "read" /\ replies' = 0
      /\ conn' = Reset([conn EXCEPT !.buf = <<>>])
  BY DEF Serve
<1>2. conn'.buf = <<>>
  <2>1. [conn EXCEPT !.buf = <<>>] \in Conn /\ [conn EXCEPT !.buf = <<>>].buf = <<>>
    BY BaseFacts, EmptySeq DEF Conn
  <2> QED BY <1>1, <2>1, ResetFacts
<1>3. Len(<<>>) = 0
  BY EmptySeq
<1>4. /\ Run(sent', conn'.buf, <<1, 1>>) /\ After(sent', conn'.buf, <<1, 1>>) = <<1, 1>>
  BY <1>2, <1>3 DEF Run, After
<1>5. OnWire(sent', wire', <<1, 1>>)
  BY <1>1, <1>3 DEF OnWire, Run, After
<1>6. Between(1)'
  BY <1>4, <1>5 DEF Between
<1> QED BY <1>1, <1>6 DEF TrackInv

\* recv moves cells from the wire to the buffer.
LEMMA ReadMoreTrack ==
  ASSUME Base, TrackInv, ReadMore
  PROVE  TrackInv'
<1>1. PICK n \in 1 .. Len(wire) :
        /\ conn'.buf = conn.buf \o SubSeq(wire, 1, n)
        /\ wire' = SubSeq(wire, n + 1, Len(wire))
  BY ReadMoreFacts
<1>2. pc = "read" /\ UNCHANGED <<sent, pc, replies, strayed>>
  BY DEF ReadMore, history
<1>3. conn.buf \in Seq(Cell) /\ wire \in Seq(Cell) /\ n \in 0 .. Len(wire)
  BY BaseFacts
<1>4. ASSUME NEW k, Between(k)
      PROVE  Between(k)'
  <2> DEFINE p == <<k, 1>>
  <2>1. /\ Run(sent, conn.buf, p) /\ Run(sent, wire, After(sent, conn.buf, p))
        /\ After(sent, wire, After(sent, conn.buf, p)) = <<Len(sent) + 1, 1>>
    BY <1>4 DEF Between, OnWire
  <2> HIDE DEF p
  <2>2. /\ Run(sent, conn'.buf, p) /\ Run(sent, wire', After(sent, conn'.buf, p))
        /\ After(sent, wire', After(sent, conn'.buf, p)) = <<Len(sent) + 1, 1>>
    BY <1>1, <1>3, <2>1, RunMove
  <2> QED BY <1>2, <2>2 DEF Between, OnWire, p
<1> QED BY <1>2, <1>4 DEF TrackInv

\* A request that could not be read has no length.
LEMMA ReadFailsTrack ==
  ASSUME Base, ReadFails
  PROVE  TrackInv'
<1>1. PICK r \in {-1, 0} : Refuse([conn EXCEPT !.requestLen = r], 500)
  BY ReadFailsFacts
<1> DEFINE c == [conn EXCEPT !.requestLen = r]
<1>2. c \in Conn /\ c.requestLen = r
  <2>1. conn \in Conn /\ r \in Int
    BY BaseFacts
  <2> QED BY <2>1 DEF Conn
<1>3. Refuse(c, 500) /\ 500 \in Int
  BY <1>1
<1> HIDE DEF c
<1>4. conn'.requestLen = r /\ pc' = "finish"
  BY <1>2, <1>3, RefuseFacts
<1> QED BY <1>4 DEF TrackInv

\* The head of a request that starts in the buffer ends where its message's does.
LEMMA HeadEnds ==
  ASSUME Base, NEW k \in 1 .. Len(sent), Run(sent, conn.buf, <<k, 1>>),
         GetRequestLen(conn.buf) \in 1 .. Len(conn.buf)
  PROVE  GetRequestLen(conn.buf) = sent[k].head
<1> DEFINE b == conn.buf
           h == sent[k].head
           ends == {i \in DOMAIN b : Ends(b[i])}
           controls == {i \in 1 .. Len(b) - 1 : IsControl(b[i])}
<1>1. /\ b \in Seq(Cell) /\ Len(b) \in Nat /\ DOMAIN b = 1 .. Len(b)
      /\ k \in Nat \ {0} /\ h \in Nat \ {0} /\ Size(sent, k) \in Nat /\ h <= Size(sent, k)
  <2>1. h \in Nat \ {0} /\ sent[k].body \in Nat
        /\ Size(sent, k) = h + sent[k].body /\ Size(sent, k) \in Nat
    BY SizeFacts
  <2>2. h <= Size(sent, k)
    BY SMTT(30), <2>1
  <2> QED BY SMTT(30), <2>1, <2>2, BaseFacts, LenProperties
<1>2. ASSUME NEW j \in 1 .. Len(b), j <= h
      PROVE  b[j] = <<k, j>>
  <2>1. j \in Int /\ 1 + j - 1 = j /\ 1 + j - 1 <= Size(sent, k) /\ 1 \in Nat \ {0}
    BY <1>1, <1>2
  <2> HIDE DEF b
  <2>2. Run(sent, b, <<k, 1>>)
    BY DEF b
  <2>3. b[j] = <<k, 1 + j - 1>>
    BY <1>1, <2>1, <2>2, RunInside
  <2> QED BY <2>1, <2>3
<1>3. ASSUME NEW j \in 1 .. Len(b), j <= h
      PROVE  Ends(b[j]) <=> j = h
  <2> DEFINE c == <<k, j>>
  <2>1. c[1] = k /\ c[2] = j /\ b[j] = c
    BY <1>2, <1>3
  <2>2. c # Below
    <3>1. Below[1] = 0
      BY DEF Below
    <3> QED BY <3>1, <2>1, <1>1
  <2> HIDE DEF c, b
  <2> QED BY <2>1, <2>2 DEF Ends
<1>4. ends \subseteq 1 .. Len(b)
  BY <1>1
<1>5. GetRequestLen(b) = Min(ends) /\ ends # {}
  <2>1. CASE ends = {}
    BY <2>1, <1>1 DEF GetRequestLen
  <2>2. CASE ends # {}
    <3>1. GetRequestLen(b) \in {-1, Min(ends)}
      <4> HIDE DEF ends, controls
      <4> QED BY <2>2 DEF GetRequestLen, ends, controls
    <3>2. GetRequestLen(b) # -1
      BY <1>1
    <3> QED BY <2>2, <3>1, <3>2
  <2> QED BY <2>1, <2>2
<1>6. Min(ends) \in ends /\ \A y \in ends : Min(ends) <= y
  <2> HIDE DEF ends
  <2>1. ends \subseteq Nat
    BY <1>1, <1>4
  <2> QED BY <1>5, <2>1, MinFacts
<1> DEFINE x == Min(ends)
<1>7. x \in 1 .. Len(b) /\ Ends(b[x])
  BY <1>6, <1>1
<1>8. h <= Len(b) => h \in ends
  BY <1>1, <1>3
<1>9. x <= h
  <2>1. CASE h <= Len(b)
    BY <2>1, <1>6, <1>8
  <2>2. CASE h > Len(b)
    <3> HIDE DEF x
    <3> QED BY <2>2, <1>1, <1>7
  <2> HIDE DEF x
  <2> QED BY <2>1, <2>2, <1>1
<1> HIDE DEF x
<1>10. x = h
  BY <1>3, <1>7, <1>9
<1> QED BY <1>5, <1>10 DEF x

\* The request that is parsed is the next message of the client.
LEMMA ParseWithin ==
  ASSUME Base, pc = "read", Between(replies + 1), NEW e \in Conn, Parsed(e),
         Meant(e, sent[conn.buf[1][1]]), GetRequestLen(conn.buf) \in 1 .. Len(conn.buf)
  PROVE  LET k == replies + 1 IN
           /\ k \in 1 .. Len(sent) /\ e.requestLen = sent[k].head
           /\ e.contentLen = sent[k].length /\ e.requestLen <= Len(conn.buf)
           /\ e.consumed = 0 /\ e.buf = conn.buf
           /\ Run(sent, conn.buf, <<k, 1>>)
           /\ OnWire(sent, wire, After(sent, conn.buf, <<k, 1>>))
<1> DEFINE k == replies + 1
           b == conn.buf
<1>1. Run(sent, b, <<k, 1>>) /\ OnWire(sent, wire, After(sent, b, <<k, 1>>))
  BY DEF Between
<1>2. b \in Seq(Cell) /\ Len(b) \in Nat /\ 1 \in 1 .. Len(b)
  <2>1. Len(b) \in Nat
    BY BaseFacts
  <2> QED BY SMTT(30), <2>1, BaseFacts
<1> DEFINE p == <<k, 1>>
<1>3. b[1] = p /\ p[1] = k
  BY <1>1, <1>2 DEF Run
<1> HIDE DEF b, k
<1>4. Sent(sent, b[1])
  <2>1. \A i \in 1 .. Len(b) : b[i] = Below \/ Sent(sent, b[i])
    BY DEF b, Base, CellInv
  <2> QED BY <1>1, <1>2, <2>1, RunSent
<1> HIDE DEF p
<1>5. k \in 1 .. Len(sent)
  BY <1>3, <1>4 DEF Sent
<1>6. sent[b[1][1]] = sent[k]
  BY <1>3
<1>7. e.requestLen = sent[k].head /\ e.requestLen <= Len(b)
  <2>1. GetRequestLen(conn.buf) = sent[k].head
    BY <1>1, <1>5, HeadEnds DEF b
  <2>2. e.requestLen = GetRequestLen(conn.buf)
    BY DEF Parsed
  <2> QED BY <1>2, <2>1, <2>2 DEF b
<1>8. e.contentLen = sent[k].length
  BY <1>6 DEF Meant, b
<1>9. e.consumed = 0 /\ e.buf = conn.buf
  BY DEF Parsed, Base, CountInv
<1> QED BY <1>1, <1>5, <1>7, <1>8, <1>9 DEF b, k

\* The request parsed is the next message.
LEMMA ParseTrack ==
  ASSUME Base, TrackInv, Parse
  PROVE  TrackInv'
<1>1. /\ GetRequestLen(conn.buf) \in 1 .. Len(conn.buf)
      /\ \E e \in Conn : Parsed(e) /\ Kept(e) /\ (Refused(e) \/ Accept(e))
  BY ParseFacts DEF Base
<1>2. pc = "read" /\ UNCHANGED <<sent, wire, enabled>>
  BY DEF Parse, client
<1> SUFFICES ASSUME ~strayed' PROVE TrackInv'
  BY DEF TrackInv
<1>3. PICK e \in Conn : /\ Parsed(e) /\ (Refused(e) \/ Accept(e))
                        /\ ~strayed /\ Meant(e, sent[conn.buf[1][1]])
  BY <1>1, Zenon DEF Kept
<1>4. Between(replies + 1) /\ replies \in Nat
  BY <1>2, <1>3, BaseFacts DEF TrackInv
<1>5. ASSUME conn'.buf = e.buf, conn'.requestLen = e.requestLen,
             conn'.contentLen = e.contentLen, conn'.consumed = e.consumed,
             NEW k \in Nat, k = replies + 1
      PROVE  Within(k)'
  <2>1. /\ k \in 1 .. Len(sent) /\ e.requestLen = sent[k].head
        /\ e.contentLen = sent[k].length /\ e.requestLen <= Len(conn.buf)
        /\ e.consumed = 0 /\ e.buf = conn.buf
        /\ Run(sent, conn.buf, <<k, 1>>)
        /\ OnWire(sent, wire, After(sent, conn.buf, <<k, 1>>))
    BY <1>1, <1>2, <1>3, <1>4, <1>5, ParseWithin
  <2>2. /\ conn'.requestLen = sent'[k].head /\ conn'.contentLen = sent'[k].length
        /\ conn'.requestLen <= Len(conn'.buf) /\ conn'.consumed = 0
        /\ Run(sent', conn'.buf, <<k, 1>>) /\ k \in 1 .. Len(sent')
    BY <1>2, <1>5, <2>1
  <2>3. NextOnWire(k)' = After(sent, conn.buf, <<k, 1>>)
    <3>1. conn'.requestLen + conn'.consumed <= Len(conn'.buf)
      <4>1. sent[k].head \in Nat
        BY <2>1, SizeFacts
      <4> QED BY <1>2, <2>2, <4>1
    <3>2. conn'.buf = conn.buf
      BY <1>5, <2>1
    <3> QED BY <1>2, <3>1, <3>2 DEF NextOnWire
  <2>4. OnWire(sent', wire', NextOnWire(k)')
    BY <1>2, <2>1, <2>3
  <2>5. Within(k)'
    BY <2>2, <2>4 DEF Within
  <2> QED BY <2>5
<1>6. PICK k \in Nat : k = replies + 1
  BY <1>4
<1>7. ASSUME NEW status \in Int, Refuse(e, status)
      PROVE  TrackInv'
  <2>1. /\ conn'.buf = e.buf /\ conn'.requestLen = e.requestLen
        /\ conn'.contentLen = e.contentLen /\ conn'.consumed = e.consumed
        /\ Counted /\ pc' = "finish"
    BY <1>7, RefuseFacts
  <2>2. replies' = k
    BY <1>3, <1>4, <1>6, <2>1, CountedFacts
  <2>3. Within(k)'
    BY <1>5, <1>6, <1>7, <2>1
  <2> QED BY <2>1, <2>2, <2>3 DEF TrackInv
<1>8. ASSUME Accept(e)
      PROVE  TrackInv'
  <2>1. conn' = e /\ pc' = "handle" /\ got' = <<>> /\ replies' + 1 = k
    BY <1>6, <1>8 DEF Accept
  <2>2. Within(k)'
    BY <1>5, <1>6, <1>8, <2>1
  <2>3. Len(got') = 0
    BY <2>1, EmptySeq
  <2> QED BY <2>1, <2>2, <2>3 DEF TrackInv
<1>9. 500 \in Int /\ 400 \in Int /\ 505 \in Int
  OBVIOUS
<1> QED BY <1>3, <1>7, <1>8, <1>9 DEF Refused

\* A request whose body is being read: where its cells are.
LEMMA WithinFacts ==
  ASSUME Base, NEW k, Within(k)
  PROVE  /\ k \in 1 .. Len(sent) /\ k \in Nat
         /\ conn.requestLen = sent[k].head /\ conn.requestLen \in Nat \ {0}
         /\ conn.requestLen <= Len(conn.buf)
         /\ conn.contentLen \in {-1, sent[k].body} /\ sent[k].body \in Nat
         /\ conn.contentLen >= 0 => Size(sent, k) = conn.requestLen + conn.contentLen
         /\ Size(sent, k) \in Nat \ {0}
         /\ conn.consumed \in Nat /\ conn.contentLen \in Int
         /\ conn.consumed > 0 => conn.consumed <= conn.contentLen
         /\ Run(sent, conn.buf, <<k, 1>>) /\ Len(conn.buf) \in Nat
         /\ OnWire(sent, wire, NextOnWire(k))
         /\ \A j \in 1 .. Len(conn.buf) : j <= Size(sent, k) => conn.buf[j] = <<k, j>>
<1>1. /\ k \in 1 .. Len(sent) /\ conn.requestLen = sent[k].head
      /\ conn.contentLen = sent[k].length /\ conn.requestLen <= Len(conn.buf)
      /\ conn.consumed > 0 => conn.consumed <= conn.contentLen
      /\ Run(sent, conn.buf, <<k, 1>>) /\ OnWire(sent, wire, NextOnWire(k))
  BY DEF Within
<1>2. /\ k \in Nat /\ sent[k].head \in Nat \ {0} /\ sent[k].body \in Nat
      /\ sent[k].length \in {-1, sent[k].body}
      /\ Size(sent, k) \in Nat \ {0} /\ Size(sent, k) = sent[k].head + sent[k].body
  BY <1>1, SizeFacts
<1>3. conn.consumed \in Nat /\ Len(conn.buf) \in Nat /\ conn.buf \in Seq(Cell)
      /\ conn.contentLen \in Int
  BY BaseFacts, Zenon
<1>4. conn.contentLen >= 0 => Size(sent, k) = conn.requestLen + conn.contentLen
  BY <1>1, <1>2
<1>5. ASSUME NEW j \in 1 .. Len(conn.buf), j <= Size(sent, k)
      PROVE  conn.buf[j] = <<k, j>>
  <2>1. j \in Int /\ 1 + j - 1 = j /\ 1 + j - 1 <= Size(sent, k) /\ 1 \in Nat \ {0}
    BY <1>3, <1>5
  <2>2. conn.buf[j] = <<k, 1 + j - 1>>
    BY <1>1, <1>2, <1>3, <2>1, RunInside
  <2> QED BY <2>1, <2>2
<1> QED BY <1>1, <1>2, <1>3, <1>4, <1>5

\* What mg_read takes from the buffer is the next part of the body.
LEMMA ReadTrack ==
  ASSUME Base, TrackInv, NEW len \in 1 .. MaxRead, Read(len)
  PROVE  TrackInv'
<1>1. PICK n \in Nat : Took(n) /\ Buffered(n)
  BY ReadFacts
<1>2. pc = "handle" /\ wire' = wire /\ conn.consumed < conn.contentLen
  BY ReadFacts DEF Read
<1>3. /\ conn'.buf = conn.buf /\ conn'.requestLen = conn.requestLen
      /\ conn'.contentLen = conn.contentLen /\ conn'.consumed = conn.consumed + n
      /\ Len(got') = Len(got) + n /\ \A i \in 1 .. Len(got) : got'[i] = got[i]
      /\ pc' = "pull" /\ UNCHANGED <<sent, replies, strayed>> /\ need' \in 0 .. MaxRead
  BY <1>1 DEF Took
<1>4. /\ \A i \in 1 .. n : got'[Len(got) + i] = conn.buf[conn.requestLen + conn.consumed + i]
      /\ conn.consumed + n + need' <= conn.contentLen
      /\ n > 0 => conn.requestLen + conn.consumed + n <= Len(conn.buf)
  BY <1>1 DEF Buffered
<1> SUFFICES ASSUME ~strayed PROVE TrackInv'
  BY <1>3 DEF TrackInv
<1>5. PICK k \in Nat : k = replies + 1
  BY BaseFacts
<1>6. /\ Within(k) /\ \A j \in 1 .. Len(got) : got[j] = <<k, conn.requestLen + j>>
  BY <1>2, <1>5 DEF TrackInv
<1>7. /\ k \in 1 .. Len(sent)
      /\ conn.requestLen = sent[k].head /\ conn.requestLen \in Nat \ {0}
      /\ conn.requestLen <= Len(conn.buf)
      /\ Size(sent, k) = conn.requestLen + conn.contentLen
      /\ conn.consumed \in Nat /\ conn.contentLen \in Int
      /\ Run(sent, conn.buf, <<k, 1>>) /\ Len(conn.buf) \in Nat
      /\ OnWire(sent, wire, NextOnWire(k))
      /\ \A j \in 1 .. Len(conn.buf) : j <= Size(sent, k) => conn.buf[j] = <<k, j>>
  <2>1. conn.contentLen >= 0
    BY SMTT(30), <1>2, BaseFacts
  <2> QED BY <2>1, <1>6, WithinFacts
<1>8. conn.consumed + n <= conn.contentLen
  BY SMTT(30), <1>3, <1>4, <1>7, Bounds
<1>9. NextOnWire(k)' = NextOnWire(k)
  <2>1. CASE n = 0
    <3>1. conn'.consumed = conn.consumed
      BY <1>3, <1>7, <2>1
    <3> QED BY <1>3, <3>1 DEF NextOnWire
  <2>2. CASE n > 0
    <3>1. /\ conn'.requestLen + conn'.consumed <= Len(conn'.buf)
          /\ conn.requestLen + conn.consumed <= Len(conn.buf)
      BY SMTT(30), <1>3, <1>4, <1>7, <2>2
    <3> QED BY <1>3, <3>1 DEF NextOnWire
  <2> QED BY <2>1, <2>2
<1>10. Within(k)'
  <2>1. /\ k \in 1 .. Len(sent') /\ conn'.requestLen = sent'[k].head
        /\ conn'.contentLen = sent'[k].length /\ conn'.requestLen <= Len(conn'.buf)
        /\ Run(sent', conn'.buf, <<k, 1>>)
    BY <1>3, <1>6, <1>7 DEF Within
  <2>2. conn'.consumed <= conn'.contentLen
    BY <1>3, <1>8
  <2>3. OnWire(sent', wire', NextOnWire(k)')
    BY <1>2, <1>3, <1>7, <1>9
  <2> QED BY <2>1, <2>2, <2>3 DEF Within
<1>11. ASSUME NEW j \in 1 .. Len(got')
       PROVE  got'[j] = <<k, conn'.requestLen + j>>
  <2>1. Len(got) \in Nat /\ conn.consumed = Len(got)
    BY <1>2, BaseFacts DEF Base, CountInv
  <2>2. CASE j <= Len(got)
    <3>1. j \in 1 .. Len(got)
      BY <2>1, <2>2
    <3> QED BY <1>3, <1>6, <3>1
  <2>3. CASE j > Len(got)
    <3> DEFINE i == j - Len(got)
    <3>1. i \in 1 .. n /\ j = Len(got) + i
      BY <1>3, <2>1, <2>3
    <3>2. conn.requestLen + conn.consumed + i = conn.requestLen + j
      BY SMTT(30), <1>7, <2>1
    <3>3. got'[j] = conn.buf[conn.requestLen + j]
      BY <1>4, <3>1, <3>2
    <3>4. /\ conn.requestLen + j \in 1 .. Len(conn.buf)
          /\ conn.requestLen + j <= Size(sent, k)
      <4> HIDE DEF i
      <4>1. n > 0 /\ i <= n /\ i \in Nat
        BY <3>1
      <4>2. conn.requestLen + conn.consumed + i <= Len(conn.buf)
        <5>1. /\ conn.requestLen + conn.consumed + n <= Len(conn.buf)
              /\ conn.requestLen \in Nat /\ conn.consumed \in Nat /\ Len(conn.buf) \in Nat
          BY <1>4, <1>7, <4>1
        <5> QED BY SMTT(30), <4>1, <5>1
      <4>3. conn.requestLen + j <= Len(conn.buf)
        BY <3>2, <4>2
      <4>4. j <= conn.contentLen
        BY <1>7, <1>8, <2>1, <3>1, <4>1
      <4> QED BY SMTT(30), <1>7, <2>1, <2>3, <4>3, <4>4
    <3>5. conn.buf[conn.requestLen + j] = <<k, conn.requestLen + j>>
      BY <1>7, <3>4
    <3> QED BY <1>3, <3>3, <3>5
  <2> QED BY <2>1, <2>2, <2>3
<1> QED BY <1>3, <1>5, <1>10, <1>11 DEF TrackInv

\* What mg_read pulls is the part of the body behind the buffer.
LEMMA ReadPullTrack ==
  ASSUME Base, TrackInv, PullInv, ReadPull
  PROVE  TrackInv'
<1>1. PICK n \in Nat : Took(n) /\ Pulled(n)
  BY ReadPullFacts
<1>2. pc = "pull" /\ need > 0
  BY ReadPullFacts
<1>3. /\ conn'.buf = conn.buf /\ conn'.requestLen = conn.requestLen
      /\ conn'.contentLen = conn.contentLen /\ conn'.consumed = conn.consumed + n
      /\ Len(got') = Len(got) + n /\ \A i \in 1 .. Len(got) : got'[i] = got[i]
      /\ pc' = "pull" /\ UNCHANGED <<sent, replies, strayed>>
  BY <1>1 DEF Took
<1>4. /\ n \in 1 .. Len(wire) /\ n <= need
      /\ \A i \in 1 .. n : got'[Len(got) + i] = wire[i]
      /\ wire' = SubSeq(wire, n + 1, Len(wire))
  BY <1>1 DEF Pulled
<1>5. need <= conn.contentLen - conn.consumed /\ Len(conn.buf) <= conn.requestLen + conn.consumed
  BY <1>2 DEF PullInv
<1> SUFFICES ASSUME ~strayed PROVE TrackInv'
  BY <1>3 DEF TrackInv
<1>6. PICK k \in Nat : k = replies + 1
  BY BaseFacts
<1>7. /\ Within(k) /\ \A j \in 1 .. Len(got) : got[j] = <<k, conn.requestLen + j>>
  BY <1>2, <1>6 DEF TrackInv
<1>8. /\ need \in Nat /\ Len(wire) \in Nat /\ wire \in Seq(Cell) /\ conn.buf \in Seq(Cell)
      /\ conn.contentLen \in Int /\ conn.consumed \in Nat
  <2>1. need \in Nat
    BY BaseFacts, Bounds
  <2> QED BY <2>1, BaseFacts, Zenon
<1>9. /\ k \in 1 .. Len(sent)
      /\ conn.requestLen = sent[k].head /\ conn.requestLen \in Nat \ {0}
      /\ conn.requestLen <= Len(conn.buf)
      /\ Size(sent, k) = conn.requestLen + conn.contentLen
      /\ Size(sent, k) \in Nat
      /\ Run(sent, conn.buf, <<k, 1>>) /\ Len(conn.buf) \in Nat
      /\ OnWire(sent, wire, NextOnWire(k))
      /\ \A j \in 1 .. Len(conn.buf) : j <= Size(sent, k) => conn.buf[j] = <<k, j>>
  <2>1. conn.contentLen >= 0
    BY <1>2, <1>5, <1>8
  <2> QED BY <2>1, <1>7, WithinFacts
<1> DEFINE a == conn.requestLen + conn.consumed
<1>10. a \in Nat /\ a < Size(sent, k) /\ a + need <= Size(sent, k)
  BY SMTT(30), <1>2, <1>5, <1>8, <1>9
<1>11. NextOnWire(k) = Succ(sent, <<k, a>>)
  <2>1. CASE a <= Len(conn.buf)
    <3>1. Len(conn.buf) = a /\ Len(conn.buf) \in 1 .. Len(conn.buf)
      <4>1. /\ Len(conn.buf) <= a /\ conn.requestLen \in Nat \ {0} /\ Len(conn.buf) \in Nat
            /\ conn.requestLen <= Len(conn.buf)
        BY <1>5, <1>9
      <4> HIDE DEF a
      <4> QED BY <1>10, <2>1, <4>1
    <3>2. conn.buf[Len(conn.buf)] = <<k, a>>
      BY <1>9, <1>10, <3>1
    <3>3. After(sent, conn.buf, <<k, 1>>) = Succ(sent, <<k, a>>)
      BY <3>1, <3>2 DEF After
    <3> QED BY <2>1, <3>3 DEF NextOnWire
  <2>2. CASE ~(a <= Len(conn.buf))
    BY <2>2 DEF NextOnWire
  <2> QED BY <2>1, <2>2
<1>12. Succ(sent, <<k, a>>) = <<k, a + 1>>
  <2> HIDE DEF a
  <2> DEFINE c == <<k, a>>
  <2>1. c[1] = k /\ c[2] = a
    OBVIOUS
  <2> HIDE DEF c
  <2>2. Succ(sent, c) = <<k, a + 1>>
    BY <1>10, <2>1 DEF Succ
  <2> QED BY <2>2 DEF c
<1> HIDE DEF a
<1>13. Run(sent, wire, <<k, a + 1>>) /\ After(sent, wire, <<k, a + 1>>) = <<Len(sent) + 1, 1>>
  BY <1>9, <1>11, <1>12 DEF OnWire
<1>14. ASSUME NEW i \in 1 .. n
       PROVE  wire[i] = <<k, a + i>>
  <2>1. i \in 1 .. Len(wire) /\ i \in Nat /\ i <= need
    BY <1>4, <1>8
  <2>2. a + 1 \in Nat \ {0} /\ a + 1 + i - 1 = a + i /\ a + 1 + i - 1 <= Size(sent, k)
    BY SMTT(30), <1>8, <1>9, <1>10, <2>1
  <2>3. wire[i] = <<k, a + 1 + i - 1>>
    BY SMTT(30), <1>8, <1>9, <1>13, <2>1, <2>2, RunInside
  <2> QED BY <2>2, <2>3
<1>15. NextOnWire(k)' = Succ(sent, <<k, a + n>>)
  <2>1. conn'.requestLen + conn'.consumed = a + n
    BY SMTT(30), <1>3, <1>8, <1>9 DEF a
  <2>2. ~(conn'.requestLen + conn'.consumed <= Len(conn'.buf))
    BY SMTT(30), <1>3, <1>4, <1>5, <1>8, <1>9, <1>10, <2>1 DEF a
  <2> QED BY <1>3, <2>1, <2>2 DEF NextOnWire
<1>16. OnWire(sent', wire', NextOnWire(k)')
  <2> DEFINE p == <<k, a + 1>>
             r == SubSeq(wire, n + 1, Len(wire))
             q == IF n = 0 THEN p ELSE Succ(sent, wire[n])
  <2>1. Run(sent, r, q) /\ After(sent, r, q) = After(sent, wire, p)
    <3>1. n \in 0 .. Len(wire) /\ Run(sent, wire, p)
      BY <1>4, <1>8, <1>13
    <3> HIDE DEF p
    <3> QED BY <1>8, <3>1, RunCut
  <2>2. n # 0 /\ n \in 1 .. n
    BY <1>4, <1>8
  <2>3. q = Succ(sent, <<k, a + n>>)
    BY <1>14, <2>2
  <2> HIDE DEF q, r
  <2>4. Run(sent, r, NextOnWire(k)') /\ After(sent, r, NextOnWire(k)') = <<Len(sent) + 1, 1>>
    BY <1>13, <1>15, <2>1, <2>3
  <2> QED BY <1>3, <1>4, <2>4 DEF OnWire, r
<1>17. Within(k)'
  <2>1. /\ k \in 1 .. Len(sent') /\ conn'.requestLen = sent'[k].head
        /\ conn'.contentLen = sent'[k].length /\ conn'.requestLen <= Len(conn'.buf)
        /\ Run(sent', conn'.buf, <<k, 1>>)
    BY <1>3, <1>7, <1>9 DEF Within
  <2>2. conn'.consumed <= conn'.contentLen
    BY <1>3, <1>4, <1>5, <1>8
  <2> QED BY <2>1, <2>2, <1>16 DEF Within
<1>18. ASSUME NEW j \in 1 .. Len(got')
       PROVE  got'[j] = <<k, conn'.requestLen + j>>
  <2>1. Len(got) \in Nat /\ conn.consumed = Len(got)
    BY <1>2, BaseFacts DEF Base, CountInv
  <2>2. CASE j <= Len(got)
    <3>1. j \in 1 .. Len(got)
      BY <2>1, <2>2
    <3> QED BY <1>3, <1>7, <3>1
  <2>3. CASE j > Len(got)
    <3> DEFINE i == j - Len(got)
    <3>1. i \in 1 .. n /\ j = Len(got) + i
      BY <1>3, <2>1, <2>3
    <3>2. a + i = conn.requestLen + j
      <4>1. conn.requestLen \in Nat /\ Len(got) \in Nat /\ a = conn.requestLen + Len(got)
        BY <1>9, <2>1 DEF a
      <4> HIDE DEF i
      <4>2. i \in Int
        BY <3>1
      <4> QED BY <3>1, <4>1, <4>2
    <3>3. got'[j] = wire[i] /\ wire[i] = <<k, a + i>>
      BY <1>4, <1>14, <3>1
    <3> QED BY <1>3, <3>2, <3>3
  <2> QED BY <2>1, <2>2, <2>3
<1> QED BY <1>3, <1>6, <1>17, <1>18 DEF TrackInv

\* The reply counts the message as answered.
LEMMA ReplyTrack ==
  ASSUME Base, TrackInv, Reply
  PROVE  TrackInv'
<1>1. /\ conn'.buf = conn.buf
      /\ conn'.requestLen = conn.requestLen /\ conn'.contentLen = conn.contentLen
      /\ conn'.consumed = conn.consumed
      /\ pc = "handle" /\ pc' = "finish" /\ Counted
      /\ UNCHANGED <<sent, wire, strayed>>
  BY ReplyFacts DEF client
<1> SUFFICES ASSUME ~strayed PROVE TrackInv'
  BY <1>1 DEF TrackInv
<1>2. PICK k \in Nat : k = replies + 1
  BY BaseFacts
<1>3. Within(k)
  BY <1>1, <1>2 DEF TrackInv
<1>4. Within(k)'
  <2>1. NextOnWire(k)' = NextOnWire(k)
    BY <1>1 DEF NextOnWire
  <2> QED BY <1>1, <1>3, <2>1 DEF Within
<1>5. replies' = k
  BY <1>1, <1>2, BaseFacts, CountedFacts
<1> QED BY <1>1, <1>4, <1>5 DEF TrackInv

\* The turn that is not the last one of a connection that has not strayed leaves
\* the stream at the start of the next message.
LEMMA NextMessage ==
  ASSUME Base, NEW k, Within(k), conn.contentLen >= 0, ~LeavesMidway,
         NEW b, b = Moved(conn.buf, DiscardLen(conn))
  PROVE  Run(sent, b, <<k + 1, 1>>) /\ OnWire(sent, wire, After(sent, b, <<k + 1, 1>>))
<1> DEFINE z == Size(sent, k)
           s == conn.buf
           p == <<k + 1, 1>>
<1>1. /\ k \in Nat /\ conn.requestLen \in Nat \ {0} /\ conn.requestLen <= Len(s)
      /\ z = conn.requestLen + conn.contentLen /\ z \in Nat \ {0}
      /\ conn.consumed \in Nat /\ conn.contentLen \in Int
      /\ conn.consumed > 0 => conn.consumed <= conn.contentLen
      /\ Run(sent, s, <<k, 1>>) /\ Len(s) \in Nat
      /\ OnWire(sent, wire, NextOnWire(k))
      /\ \A j \in 1 .. Len(s) : j <= z => s[j] = <<k, j>>
  BY WithinFacts
<1>2. s \in Seq(Cell)
  BY BaseFacts
<1>3. Succ(sent, <<k, z>>) = p
  <2> DEFINE c == <<k, z>>
  <2>1. c[1] = k /\ c[2] = z /\ ~(z < z)
    BY <1>1
  <2> HIDE DEF c
  <2>2. Succ(sent, c) = <<k + 1, 1>>
    BY <2>1 DEF Succ
  <2> QED BY <2>2 DEF c
<1>4. conn.contentLen > conn.consumed => z <= Len(s)
  <2>1. ~(conn.contentLen > conn.consumed /\ conn.requestLen + conn.contentLen > Len(s))
    BY DEF LeavesMidway
  <2> QED BY <1>1, <2>1
<1>5. NextOnWire(k) = IF conn.requestLen + conn.consumed <= Len(s)
                      THEN After(sent, s, <<k, 1>>)
                      ELSE Succ(sent, <<k, conn.requestLen + conn.consumed>>)
  BY DEF NextOnWire
<1>6. DiscardLen(conn) = IF z < Len(s) THEN z ELSE Len(s)
  BY <1>1 DEF DiscardLen
<1> DEFINE n == DiscardLen(conn)
<1>7. n \in 0 .. Len(s) /\ n # -1 /\ n # 0
  <2> HIDE DEF z, s
  <2> QED BY <1>1, <1>6
<1>8. b = SubSeq(s, n + 1, Len(s))
  BY <1>7 DEF Moved
<1> HIDE DEF n, z, s
<1>9. CASE z < Len(s)
  <2>1. n = z /\ z \in 1 .. Len(s) /\ s[z] = <<k, z>>
    BY <1>1, <1>6, <1>9 DEF n
  <2>2. Run(sent, b, p) /\ After(sent, b, p) = After(sent, s, <<k, 1>>)
    <3> DEFINE q == <<k, 1>>
               r == SubSeq(s, n + 1, Len(s))
               x == IF n = 0 THEN q ELSE Succ(sent, s[n])
    <3>1. Run(sent, r, x) /\ After(sent, r, x) = After(sent, s, q)
      <4> HIDE DEF q
      <4>1. Run(sent, s, q)
        BY <1>1 DEF q
      <4> QED BY <1>2, <1>7, <4>1, RunCut
    <3>2. x = p
      BY <1>3, <1>7, <2>1
    <3>3. b = r
      BY <1>8
    <3> HIDE DEF x, r, p
    <3> QED BY <3>1, <3>2, <3>3 DEF q
  <2>3. NextOnWire(k) = After(sent, s, <<k, 1>>)
    <3>1. conn.requestLen + conn.consumed <= Len(s)
      BY <1>1, <1>9
    <3> QED BY <1>5, <3>1
  <2> QED BY <1>1, <2>2, <2>3
<1>10. CASE ~(z < Len(s))
  <2>1. n = Len(s)
    BY <1>6, <1>10 DEF n
  <2>2. Len(b) = 0
    <3>1. Len(b) = Len(s) - n
      BY <1>2, <1>7, <1>8, CutFacts
    <3> QED BY <1>1, <2>1, <3>1
  <2>3. Run(sent, b, p) /\ After(sent, b, p) = p
    BY <2>2 DEF Run, After
  <2>4. NextOnWire(k) = p
    <3>1. CASE z = Len(s)
      <4>1. conn.requestLen + conn.consumed <= Len(s)
        BY <1>1, <3>1
      <4>2. Len(s) # 0 /\ s[Len(s)] = <<k, z>>
        BY <1>1, <3>1
      <4>3. After(sent, s, <<k, 1>>) = p
        BY <1>3, <4>2 DEF After
      <4> QED BY <1>5, <4>1, <4>3
    <3>2. CASE z > Len(s)
      <4>1. conn.contentLen = conn.consumed
        BY <1>1, <1>4, <3>2
      <4>2. conn.requestLen + conn.consumed = z /\ ~(conn.requestLen + conn.consumed <= Len(s))
        BY <1>1, <3>2, <4>1
      <4> QED BY <1>3, <1>5, <4>2
    <3> QED BY <1>1, <1>10, <3>1, <3>2
  <2> QED BY <1>1, <2>3, <2>4
<1> QED BY <1>9, <1>10

\* The memmove leaves the start of the next message.
LEMMA FinishTrack ==
  ASSUME Base, TrackInv, Finish
  PROVE  TrackInv'
<1>1. /\ pc = "finish" /\ conn'.buf = Moved(conn.buf, DiscardLen(conn))
      /\ strayed' = (strayed \/ LeavesMidway)
      /\ UNCHANGED <<sent, wire, replies>>
      /\ \/ pc' \in {"aborted", "idle"}
         \/ pc' = "read" /\ Again(conn)
  BY FinishFacts DEF client
<1> SUFFICES ASSUME ~strayed', pc' = "read" PROVE TrackInv'
  BY <1>1 DEF TrackInv
<1>2. ~strayed /\ ~LeavesMidway /\ Again(conn)
  BY <1>1
<1>3. conn.requestLen > 0 /\ conn.contentLen >= 0 /\ ShouldKeepAlive(conn)
  <2>1. ~(conn.requestLen <= 0)
    BY <1>2 DEF LeavesMidway
  <2>2. conn.requestLen \in Int
    BY SMTT(30), BaseFacts, Bounds
  <2>3. conn.requestLen > 0
    BY <2>1, <2>2
  <2> QED BY <1>2, <2>3, Zenon DEF Again
<1>4. PICK k \in Nat : k = replies
  BY BaseFacts
<1>5. Within(k)
  BY <1>1, <1>2, <1>3, <1>4 DEF TrackInv
<1>6. /\ Run(sent, conn'.buf, <<k + 1, 1>>)
      /\ OnWire(sent, wire, After(sent, conn'.buf, <<k + 1, 1>>))
  BY <1>1, <1>2, <1>3, <1>5, NextMessage
<1>7. Between(k + 1)'
  BY <1>1, <1>6 DEF Between
<1> QED BY <1>1, <1>4, <1>7 DEF TrackInv

\* Every step keeps the buffer and the wire on the client's stream.
LEMMA TrackStep ==
  ASSUME Base, TrackInv, PullInv, [Next]_vars
  PROVE  TrackInv'
  BY SendTrack, StillTrack, ServeTrack, ReadMoreTrack, ReadFailsTrack, ParseTrack, ReadTrack,
     ReadPullTrack, ReplyTrack, FinishTrack DEF Next, Worker

\* A read pulls only once the buffer is used up.
LEMMA PullStep ==
  ASSUME Base, PullInv, [Next]_vars
  PROVE  PullInv'
<1>1. CASE pc' # "pull"
  BY <1>1 DEF PullInv
<1>2. CASE UNCHANGED <<pc, need, conn>>
  BY <1>2 DEF PullInv
<1>3. ASSUME NEW len \in 1 .. MaxRead, Read(len)
      PROVE  PullInv'
  <2>1. PICK n \in Nat : Took(n) /\ Buffered(n)
    BY <1>3, ReadFacts
  <2>2. /\ conn'.buf = conn.buf /\ conn'.requestLen = conn.requestLen
        /\ conn'.contentLen = conn.contentLen /\ conn'.consumed = conn.consumed + n
        /\ need' \in 0 .. MaxRead
        /\ conn.consumed + n + need' <= conn.contentLen
        /\ need' > 0 => Len(conn.buf) <= conn.requestLen + conn.consumed + n
    BY <2>1 DEF Took, Buffered
  <2>3. /\ conn.consumed \in Nat /\ conn.contentLen \in Int /\ conn.requestLen \in Int
        /\ need' \in Int
    BY SMTT(30), <2>2, BaseFacts, Bounds
  <2>4. need' <= conn'.contentLen - conn'.consumed
    BY <2>2, <2>3
  <2>5. need' > 0 => Len(conn'.buf) <= conn'.requestLen + conn'.consumed
    BY <2>2, <2>3
  <2> QED BY <2>4, <2>5 DEF PullInv
<1>4. CASE ReadPull
  <2>1. PICK n \in Nat : Took(n) /\ Pulled(n)
    BY <1>4, ReadPullFacts
  <2>2. pc = "pull" /\ need > 0
    BY <1>4, ReadPullFacts
  <2>3. /\ conn'.buf = conn.buf /\ conn'.requestLen = conn.requestLen
        /\ conn'.contentLen = conn.contentLen /\ conn'.consumed = conn.consumed + n
        /\ need' = need - n
    BY <2>1 DEF Took, Pulled
  <2>4. /\ conn.consumed \in Nat /\ conn.contentLen \in Int /\ conn.requestLen \in Int
        /\ need \in Int /\ Len(conn.buf) \in Nat
    BY SMTT(30), BaseFacts, Bounds
  <2>5. need <= conn.contentLen - conn.consumed /\ Len(conn.buf) <= conn.requestLen + conn.consumed
    BY <2>2 DEF PullInv
  <2>6. need' <= conn'.contentLen - conn'.consumed
    BY <2>3, <2>4, <2>5
  <2>7. Len(conn'.buf) <= conn'.requestLen + conn'.consumed
    BY SMTT(30), <2>3, <2>4, <2>5
  <2> QED BY <2>6, <2>7 DEF PullInv
<1>5. CASE Send \/ HangUp \/ Stop \/ UNCHANGED vars
  BY <1>2, <1>5 DEF Send, HangUp, Stop, vars
<1>6. CASE Serve \/ ReadMore \/ ReadFails \/ Parse \/ ReadReturns \/ Reply \/ Finish
  BY ZenonT(60), <1>1, <1>6 DEF Serve, ReadMore, ReadFails, Refuse, Parse, ReadReturns, Reply, Finish
<1> QED BY <1>3, <1>4, <1>5, <1>6 DEF Next, Worker

-----------------------------------------------------------------------------
(* The theorems *)

\* A worker that has not been given a connection.
LEMMA InitInv == Init => IInv
<1> SUFFICES ASSUME Init PROVE IInv
  OBVIOUS
<1>1. <<>> \in Seq(Cell) /\ Len(<<>>) = 0 /\ <<>> \in Seq(Message)
  BY EmptySeq
<1>2. /\ sent = <<>> /\ wire = <<>> /\ hungUp = FALSE /\ pc = "idle" /\ need = 0
      /\ stop = FALSE /\ enabled \in BOOLEAN /\ got = <<>> /\ replies = 0
      /\ strayed = FALSE /\ late = 0
  BY Bounds DEF Init
<1>3. NoInfo \in Info
  BY Bounds DEF NoInfo, Info
<1>4. /\ conn \in Conn /\ conn.requestLen = 0 /\ conn.consumed = 0 /\ conn.buf = <<>>
  <2> DEFINE none == NoInfo
             empty == <<>>
  <2>1. conn = [buf |-> empty, info |-> none, requestLen |-> 0, contentLen |-> 0,
                consumed |-> 0, status |-> 0, mustClose |-> FALSE,
                error |-> FALSE, said |-> "", n |-> 0]
    BY DEF Init
  <2>2. none \in Info /\ empty \in Seq(Cell)
    BY <1>1, <1>3
  <2> HIDE DEF none, empty
  <2>3. conn \in Conn
    <3>1. 0 \in Int /\ 0 \in Nat /\ FALSE \in BOOLEAN /\ "" \in Word
      BY DEF Word
    <3> QED BY <2>1, <2>2, <3>1, Zenon DEF Conn
  <2>4. conn.requestLen = 0 /\ conn.consumed = 0 /\ conn.buf = empty
    BY <2>1
  <2> QED BY <2>3, <2>4 DEF empty
<1>5. TypeInv
  <2>1. /\ 0 \in -1 .. BufSize /\ 0 \in 0 .. Len(got) /\ 0 <= BufSize + 1
        /\ 0 \in 0 .. MaxRead /\ 0 <= MaxMessages /\ 0 \in Nat
    BY <1>1, <1>2, Bounds
  <2> QED BY <1>1, <1>2, <1>4, <2>1 DEF TypeInv, TypeOK
<1>6. CellInv
  BY <1>1, <1>2, <1>4 DEF CellInv
<1>7. CountInv
  BY <1>1, <1>2, <1>4, Bounds DEF CountInv
<1>8. LateInv /\ SaidInv /\ TrackInv /\ PullInv
  BY <1>2 DEF LateInv, SaidInv, TrackInv, PullInv
<1> QED BY <1>5, <1>6, <1>7, <1>8 DEF IInv

\* The invariant is inductive.
LEMMA StepInv == IInv /\ [Next]_vars => IInv'
<1> SUFFICES ASSUME IInv, [Next]_vars PROVE IInv'
  OBVIOUS
<1>1. Base /\ TrackInv /\ PullInv
  BY DEF IInv, Base
<1>2. Base'
  BY <1>1, BaseStep
<1>3. LateInv' /\ SaidInv'
  BY LateStep, SaidStep
<1>4. TrackInv' /\ PullInv'
  BY <1>1, TrackStep, PullStep
<1> QED BY <1>2, <1>3, <1>4 DEF IInv, Base

\* All of it holds in every state.
LEMMA Inductive == Spec => []IInv
  BY InitInv, StepInv, PTL DEF Spec

\* Type correctness: what the worker keeps of a connection stays within its
\* bounds, conn->buf within conn->buf_size and the byte below it, whatever is
\* sent, pipelined, cut short or stopped.
THEOREM TypeCorrect == Spec => []TypeOK
<1>1. IInv => TypeOK
  BY DEF IInv, TypeInv
<1> QED BY <1>1, Inductive, PTL

\* The handler has read the start of the body, in order.
LEMMA BodyIsRead ==
  ASSUME IInv
  PROVE  BodyExact
<1> SUFFICES ASSUME pc \in {"handle", "pull"}, ~strayed
             PROVE  LET k == replies + 1
                        m == sent[k] IN
                      got = SubSeq(Cells(k, m), m.head + 1, m.head + Len(got))
  BY DEF BodyExact
<1> DEFINE k == replies + 1
           m == sent[k]
           c == Cells(k, m)
           t == SubSeq(c, m.head + 1, m.head + Len(got))
<1>1. Base /\ Within(k) /\ \A j \in 1 .. Len(got) : got[j] = <<k, conn.requestLen + j>>
  BY DEF IInv, Base, TrackInv
<1> HIDE DEF k
<1>2. /\ k \in 1 .. Len(sent) /\ k \in Nat
      /\ conn.requestLen = m.head /\ conn.requestLen \in Nat \ {0}
      /\ conn.contentLen \in {-1, m.body} /\ m.body \in Nat
      /\ conn.consumed \in Nat
      /\ conn.consumed > 0 => conn.consumed <= conn.contentLen
  BY <1>1, WithinFacts
<1>3. conn.consumed = Len(got) /\ Len(got) \in Nat /\ got \in Seq(Cell)
  BY <1>1, BaseFacts DEF Base, CountInv
<1>4. m \in Message
  BY <1>1, <1>2, SizeFacts
<1> HIDE DEF m
<1>5. /\ c \in Seq(Cell) /\ Len(c) = m.head + m.body
      /\ \A j \in 1 .. m.head + m.body : c[j] = <<k, j>>
  BY <1>2, <1>4, CellsFacts
<1>6. Len(got) <= m.body
  BY <1>2, <1>3
<1> HIDE DEF c
<1> DEFINE lo == m.head + 1
           hi == m.head + Len(got)
<1>7. /\ lo \in Int /\ hi \in Int
      /\ \A i \in lo .. hi : i \in 1 .. m.head + m.body
      /\ hi - lo + 1 = Len(got)
      /\ \A i \in 1 .. Len(got) : lo + i - 1 = m.head + i /\ m.head + i \in 1 .. m.head + m.body
      /\ lo <= hi \/ Len(got) = 0
  <2> DEFINE h == m.head
             l == Len(got)
             d == m.body
  <2>1. h \in Nat \ {0} /\ l \in Nat /\ d \in Nat /\ l <= d
    BY <1>2, <1>3, <1>6
  <2> HIDE DEF h, l, d
  <2>2. /\ h + 1 \in Int /\ h + l \in Int
        /\ \A i \in h + 1 .. h + l : i \in 1 .. h + d
        /\ (h + l) - (h + 1) + 1 = l
        /\ \A i \in 1 .. l : (h + 1) + i - 1 = h + i /\ h + i \in 1 .. h + d
        /\ h + 1 <= h + l \/ l = 0
    BY <2>1
  <2> QED BY <2>2 DEF h, l, d
<1>8. \A i \in lo .. hi : c[i] \in Cell
  <2> SUFFICES ASSUME NEW i \in lo .. hi PROVE c[i] \in Cell
    OBVIOUS
  <2>1. i \in 1 .. Len(c)
    BY <1>5, <1>7
  <2> QED BY <1>5, <2>1, ElementOfSeq
<1> HIDE DEF lo, hi
<1>9. /\ SubSeq(c, lo, hi) \in Seq(Cell)
      /\ Len(SubSeq(c, lo, hi)) = IF lo <= hi THEN hi - lo + 1 ELSE 0
      /\ \A i \in 1 .. hi - lo + 1 : SubSeq(c, lo, hi)[i] = c[lo + i - 1]
  BY <1>7, <1>8, SubSeqProperties
<1> DEFINE u == SubSeq(c, lo, hi)
<1>10. u \in Seq(Cell) /\ Len(u) = Len(got) /\ \A i \in 1 .. Len(got) : u[i] = c[lo + i - 1]
  <2> HIDE DEF u
  <2>1. Len(u) = IF lo <= hi THEN hi - lo + 1 ELSE 0
    BY <1>9 DEF u
  <2> QED BY <1>7, <1>9, <2>1 DEF u
<1> HIDE DEF u
<1>11. \A i \in 1 .. Len(got) : u[i] = got[i]
  <2> SUFFICES ASSUME NEW i \in 1 .. Len(got) PROVE u[i] = got[i]
    OBVIOUS
  <2>1. u[i] = c[lo + i - 1]
    BY Zenon, <1>10
  <2>2. lo + i - 1 = m.head + i /\ m.head + i \in 1 .. m.head + m.body
    BY Zenon, <1>7
  <2>3. c[m.head + i] = <<k, m.head + i>>
    BY Zenon, <1>5, <2>2
  <2>4. got[i] = <<k, conn.requestLen + i>>
    BY Zenon, <1>1
  <2> QED BY Zenon, <1>2, <2>1, <2>2, <2>3, <2>4
<1>12. u = got
  BY <1>3, <1>10, <1>11, SeqEqual
<1> QED BY <1>12 DEF u, lo, hi, c, k, m

\* mg_read and the discarding of process_new_connection give every cell of a
\* client's stream to the request it belongs to: for any messages, buffer and
\* chunks, until a request is left before its last cell has arrived.
THEOREM BytesAreExact == Spec => []BytesExact
<1>1. ASSUME IInv PROVE Framing
  <2> SUFFICES ASSUME pc = "read", ~strayed, conn.buf # <<>>
               PROVE  conn.buf[1] = <<replies + 1, 1>>
    BY DEF Framing
  <2>1. Run(sent, conn.buf, <<replies + 1, 1>>) /\ Base
    BY <1>1 DEF IInv, Base, TrackInv, Between
  <2>2. 1 \in 1 .. Len(conn.buf)
    BY <2>1, BaseFacts, EmptySeq
  <2> QED BY <2>1, <2>2 DEF Run
<1>2. IInv => BytesExact
  BY <1>1, BodyIsRead DEF BytesExact
<1> QED BY <1>2, Inductive, PTL

\* Once mg_stop has set stop_flag a worker handles at most one more request.
THEOREM StopServesOne == Spec => []StopServesOneMore
<1>1. IInv => StopServesOneMore
  BY DEF IInv, LateInv, StopServesOneMore
<1> QED BY <1>1, Inductive, PTL

\* Every turn ends as the Connection header of its reply has said.
THEOREM HeaderIsKept == Spec => HeaderKept
<1>1. IInv /\ [Next]_vars =>
        [pc = "finish" =>
           /\ conn.said = "close" => pc' # "read"
           /\ conn.said = "keep-alive" /\ pc' = "idle"
                => stop \/ conn.contentLen < 0]_vars
  BY HeaderStep
<1> QED BY <1>1, Inductive, PTL DEF Spec, HeaderKept
=============================================================================
