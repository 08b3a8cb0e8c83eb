--------------------------- MODULE HttpConnection ---------------------------
(***************************************************************************)
(* One mongoose worker and the connections it is given, one after the      *)
(* other: process_new_connection reads requests into conn->buf, lets a     *)
(* handler answer each of them, discards what it has used, and goes on     *)
(* while the connection is kept alive.                                     *)
(*                                                                         *)
(* A byte is a cell <<i, j>>: the j-th of message number i, so that what   *)
(* the parser takes for the start of a request can be compared with what   *)
(* the client meant.  A message is a head, whose last cell ends it (the    *)
(* empty line), and a body.  The wire is a byte stream: every recv takes   *)
(* any number of the cells that have arrived.                              *)
(***************************************************************************)
EXTENDS Integers, Sequences, FiniteSets, FiniteSetsExt

CONSTANTS
  Message,      \* what a client may send; see MessageType
  MaxMessages,  \* bound on the messages of one connection
  MaxConn,      \* bound on the connections the worker is given
  BufSize,      \* conn->buf_size
  MaxRead,      \* the longest mg_read a handler asks for
  KeepAlive     \* the values ENABLE_KEEP_ALIVE may have, a set of BOOLEANs

\* head, body: cells of each; length: what Content-Length leaves in
\* content_len, -1 without the header; form: "good", "control" (a character
\* get_request_len refuses), "line" (a request line parse_http_message
\* refuses), "uri" or "version" (what process_new_connection refuses);
\* connection: the header, "" without it.
MessageType ==
  [head : Nat \ {0}, body : Nat, length : Int,
   form : {"good", "control", "line", "uri", "version"},
   connection : {"", "close", "keep-alive"}, http11 : BOOLEAN]

ASSUME ConnectionAssumption ==
  /\ Message \subseteq MessageType
  /\ \A m \in Message : m.length \in {-1, m.body}
  /\ MaxMessages \in Nat /\ MaxConn \in Nat
  /\ BufSize \in Nat \ {0} /\ MaxRead \in Nat \ {0}
  /\ KeepAlive \subseteq BOOLEAN

VARIABLES
  sent,    \* the messages the client has sent on this connection
  wire,    \* cells sent and not yet received
  hungUp,  \* has the client closed its side?
  pc,      \* where the worker is
  conn,    \* struct mg_connection
  need,    \* what is left of the mg_read in progress
  stop,    \* ctx->stop_flag
  enabled, \* config[ENABLE_KEEP_ALIVE] is "yes"
  link,    \* connections the worker has been given
  got,     \* history: the body cells the handler of this request has read
  replies, \* history: replies sent on this connection before it strayed
  strayed, \* history: has a request been left before its last cell arrived,
           \* or refused unparsed, content_len not being its own?
  late     \* history: requests handled after stop_flag was set

client  == <<sent, wire, hungUp>>
history == <<got, replies, strayed, late>>
vars    == <<client, pc, conn, need, stop, enabled, link, history>>

Cells(i, m) == [j \in 1 .. m.head + m.body |-> <<i, j>>]

\* The byte below conn->buf, the last of last_throttle_bytes: a NUL.
Below == <<0, 0>>

Ends(c)      == c # Below /\ c[2] = sent[c[1]].head
IsControl(c) == c = Below \/ (c[2] = 1 /\ sent[c[1]].form = "control")

\* get_request_len: the last character is looked at only as the end of an
\* empty line, never as a control character.
GetRequestLen(b) ==
  LET ends     == {k \in DOMAIN b : Ends(b[k])}
      controls == {k \in 1 .. Len(b) - 1 : IsControl(b[k])}
  IN  CASE ends = {} /\ controls = {} -> 0
        [] ends = {} /\ controls # {} -> -1
        [] OTHER -> IF \E k \in controls : k < Min(ends) THEN -1 ELSE Min(ends)

\* What request_info says of Connection and of the version.  It points into
\* conn->buf, at cell "at": NoInfo before the first request, Wiped once
\* other bytes have been written there.
NoInfo == [connection |-> "", http11 |-> TRUE, at |-> BufSize + 2]
Wiped  == [connection |-> "", http11 |-> FALSE, at |-> BufSize + 2]

\* After a request line it refuses parse_http_message has read no headers, and
\* http_version is the third word as it stands: "1.1" in "GET / 1.1".
Unparsed(len) == {Wiped, [connection |-> "", http11 |-> TRUE, at |-> len]}
InfoOf(m) == [connection |-> m.connection, http11 |-> m.http11, at |-> m.head]

Survives(info, b) == IF Len(b) >= info.at THEN Wiped ELSE info

\* Mutant: must_close is not looked at.
ShouldKeepAliveOnceClosed(c) ==
  c.status # 401 /\ enabled /\ c.info.connection # "close"
  /\ (c.info.connection = "" => c.info.http11)

ShouldKeepAlive(c) ==
  /\ ~c.mustClose
  /\ c.status # 401
  /\ enabled
  /\ c.info.connection # "close"
  /\ c.info.connection = "" => c.info.http11

\* suggest_connection_header
Suggested(c) == IF ShouldKeepAlive(c) THEN "keep-alive" ELSE "close"

\* reset_per_request_attributes; n is read_request's last count.
Reset(c) ==
  [c EXCEPT !.consumed = 0, !.status = -1, !.mustClose = FALSE,
            !.requestLen = 0, !.error = FALSE, !.said = "", !.n = 0]

\* A worker's connection is calloc'ed.
Init ==
  /\ sent = <<>> /\ wire = <<>> /\ hungUp = FALSE
  /\ pc = "idle"
  /\ conn = [buf |-> <<>>, info |-> NoInfo, requestLen |-> 0, contentLen |-> 0,
             consumed |-> 0, status |-> 0, mustClose |-> FALSE,
             error |-> FALSE, said |-> "", n |-> 0]
  /\ need = 0
  /\ stop = FALSE
  /\ enabled \in KeepAlive
  /\ link = 0
  /\ got = <<>> /\ replies = 0
  /\ strayed = FALSE /\ late = 0

----------------------------------------------------------------------------
\* The client and the application.

Send ==
  /\ pc # "idle" /\ ~hungUp /\ Len(sent) < MaxMessages
  /\ \E m \in Message :
       /\ sent' = Append(sent, m)
       /\ wire' = wire \o Cells(Len(sent) + 1, m)
  /\ UNCHANGED <<hungUp, pc, conn, need, stop, enabled, link, history>>

HangUp ==
  /\ pc # "idle" /\ ~hungUp
  /\ hungUp' = TRUE
  /\ UNCHANGED <<sent, wire, pc, conn, need, stop, enabled, link, history>>

Stop ==
  /\ ~stop
  /\ stop' = TRUE
  /\ UNCHANGED <<client, pc, conn, need, enabled, link, history>>

----------------------------------------------------------------------------
\* getreq

\* worker_thread calls process_new_connection: data_len is reset, the other
\* members of conn keep what the last connection left in them.
Serve ==
  /\ pc = "idle" /\ link < MaxConn /\ ~stop
  /\ link' = link + 1
  /\ sent' = <<>> /\ wire' = <<>> /\ hungUp' = FALSE
  /\ conn' = Reset([conn EXCEPT !.buf = <<>>])
  /\ pc' = "read"
  /\ got' = <<>> /\ replies' = 0 /\ strayed' = FALSE
  /\ UNCHANGED <<need, stop, enabled, late>>

Incomplete == GetRequestLen(conn.buf) = 0 /\ Len(conn.buf) < BufSize

\* Mutant: recv is given the size of the buffer, not of the room in it.
ReadMoreWholeBuffer ==
  /\ pc = "read" /\ Incomplete /\ ~stop
  /\ \E n \in 1 .. Min({Len(wire), BufSize}) :
       /\ conn' = [conn EXCEPT !.buf = @ \o SubSeq(wire, 1, n)]
       /\ wire' = SubSeq(wire, n + 1, Len(wire))
  /\ UNCHANGED <<sent, hungUp, pc, need, stop, enabled, link, history>>

\* One turn of read_request's loop.
ReadMore ==
  /\ pc = "read" /\ Incomplete /\ ~stop
  /\ \E n \in 1 .. Min({Len(wire), BufSize - Len(conn.buf)}) :
       LET b == conn.buf \o SubSeq(wire, 1, n) IN
       /\ conn' = [conn EXCEPT !.buf = b, !.n = n,
                               !.info = Survives(conn.info, b)]
       /\ wire' = SubSeq(wire, n + 1, Len(wire))
  /\ UNCHANGED <<sent, hungUp, pc, need, stop, enabled, link, history>>

\* Mutant: nothing received is tried again.
PullFailsOnStop == stop

\* recv returned 0 or timed out, or pull saw stop_flag.
PullFails == wire = <<>> \/ stop

Counted == replies' = IF strayed THEN replies ELSE replies + 1

\* send_http_error
Refuse(c, status) ==
  LET d == [c EXCEPT !.status = status, !.error = TRUE] IN
  /\ conn' = [d EXCEPT !.said = Suggested(d)]
  /\ Counted
  /\ pc' = "finish"
  /\ UNCHANGED <<late, got>>

\* read_request gives up: what getreq knows of the last request stays.
ReadFails ==
  /\ pc = "read"
  /\ \/ Incomplete /\ PullFails
        /\ Refuse([conn EXCEPT !.requestLen = -1], 500)
     \/ GetRequestLen(conn.buf) = -1
        /\ Refuse([conn EXCEPT !.requestLen = -1], 500)
     \/ GetRequestLen(conn.buf) = 0 /\ Len(conn.buf) = BufSize
        /\ Refuse([conn EXCEPT !.requestLen = IF conn.n > 0 THEN 0 ELSE -1], 500)
  /\ UNCHANGED <<client, need, stop, enabled, link, strayed>>

\* The message a request in the buffer is taken for: the one whose first
\* cell it starts with, otherwise bytes that start with no method.
Starts(b) == b[1] # Below /\ b[1][2] = 1

\* parse_http_message, Content-Length, and the checks of
\* process_new_connection.  A request line it cannot parse leaves content_len
\* as the last request, maybe of another connection, has set it.
Parse ==
  /\ pc = "read" /\ GetRequestLen(conn.buf) > 0
  /\ LET len == GetRequestLen(conn.buf)
         m   == sent[conn.buf[1][1]]
         c   == [conn EXCEPT !.requestLen = len]
         d   == [c EXCEPT !.info = InfoOf(m), !.contentLen = m.length]
     IN  IF ~Starts(conn.buf) \/ m.form = "line"
         THEN /\ \E i \in Unparsed(len) : Refuse([c EXCEPT !.info = i], 500)
              /\ strayed' = (strayed \/ (Starts(conn.buf) => conn.contentLen # m.length))
         ELSE /\ CASE m.form = "uri"     -> Refuse(d, 400)
                   [] m.form = "version" -> Refuse([d EXCEPT !.info.http11 = FALSE], 505)
                   [] OTHER -> /\ conn' = d
                               /\ pc' = "handle"
                               /\ got' = <<>>
                               /\ late' = IF stop THEN late + 1 ELSE late
                               /\ UNCHANGED replies
              /\ UNCHANGED strayed
  /\ UNCHANGED <<client, need, stop, enabled, link>>

----------------------------------------------------------------------------
\* handle_request, as far as the connection is concerned.

\* Mutant: a second mg_read starts at the first buffered cell again.
ReadFromStart(len) ==
  /\ pc = "handle" /\ conn.consumed < conn.contentLen
  /\ LET take == Max({0, Min({len, conn.contentLen, Len(conn.buf) - conn.requestLen})})
     IN  /\ got' = got \o SubSeq(conn.buf, conn.requestLen + 1, conn.requestLen + take)
         /\ conn' = [conn EXCEPT !.consumed = @ + take]
         /\ need' = Min({len, conn.contentLen - conn.consumed}) - take
  /\ pc' = "pull"
  /\ UNCHANGED <<client, stop, enabled, link, replies, strayed, late>>

\* mg_read: the part of the body that is in the buffer.
Read(len) ==
  /\ pc = "handle" /\ conn.consumed < conn.contentLen
  /\ LET want == Min({len, conn.contentLen - conn.consumed})
         body == conn.requestLen + conn.consumed
         take == Max({0, Min({want, Len(conn.buf) - body})})
     IN  /\ got' = got \o SubSeq(conn.buf, body + 1, body + take)
         /\ conn' = [conn EXCEPT !.consumed = @ + take]
         /\ need' = want - take
  /\ pc' = "pull"
  /\ UNCHANGED <<client, stop, enabled, link, replies, strayed, late>>

\* mg_read: one pull from the socket.
ReadPull ==
  /\ pc = "pull" /\ need > 0 /\ ~stop
  /\ \E n \in 1 .. Min({Len(wire), need}) :
       /\ got' = got \o SubSeq(wire, 1, n)
       /\ wire' = SubSeq(wire, n + 1, Len(wire))
       /\ conn' = [conn EXCEPT !.consumed = @ + n]
       /\ need' = need - n
  /\ UNCHANGED <<sent, hungUp, pc, stop, enabled, link, replies, strayed, late>>

ReadReturns ==
  /\ pc = "pull" /\ (need = 0 \/ PullFails)
  /\ pc' = "handle"
  /\ need' = 0
  /\ UNCHANGED <<client, conn, stop, enabled, link, history>>

\* The handlers, by what they do to the connection: a begin_request callback
\* that writes its own reply (cudamond's), a file or an error, a listing,
\* and send_authorization_request.
Served ==
  {[status |-> -1,  mustClose |-> FALSE, said |-> "none"],
   [status |-> 200, mustClose |-> FALSE, said |-> "suggest"],
   [status |-> 200, mustClose |-> TRUE,  said |-> "close"],
   [status |-> 401, mustClose |-> FALSE, said |-> "none"]}

\* handle_cgi_request sends the program's headers on, its Connection header
\* among them ("cgi ..."), and sets must_close if that says keep-alive.
Forwarded ==
  {o \in [status : {200, 401}, mustClose : BOOLEAN,
          said : {"none", "cgi close", "cgi keep-alive"}] :
     o.mustClose = (o.said = "cgi keep-alive")}

Outcome == Served \union Forwarded

\* The handler replies and returns.
Reply ==
  /\ pc = "handle"
  /\ \E o \in Outcome :
       LET c == [conn EXCEPT !.status = o.status, !.mustClose = o.mustClose] IN
       /\ conn' = [c EXCEPT !.said = IF o.said = "suggest" THEN Suggested(c) ELSE o.said]
       /\ Counted
  /\ pc' = "finish"
  /\ UNCHANGED <<client, need, stop, enabled, link, got, strayed, late>>

----------------------------------------------------------------------------
\* The end of a turn of process_new_connection's loop.

\* Mutant: the body is not discarded with the head.
DiscardHead(c) ==
  IF c.contentLen >= 0 /\ c.requestLen < Len(c.buf) THEN c.requestLen ELSE Len(c.buf)

\* How many cells the turn has used: all of them, unless more than the
\* request and its body is buffered.  requestLen + contentLen is -1 when
\* the read failed and content_len is 0.
DiscardLen(c) ==
  IF c.contentLen >= 0 /\ c.requestLen + c.contentLen < Len(c.buf)
  THEN c.requestLen + c.contentLen
  ELSE Len(c.buf)

\* memmove(conn->buf, conn->buf + n, data_len - n)
Moved(b, n) == IF n = -1 THEN <<Below>> \o b ELSE SubSeq(b, n + 1, Len(b))

\* Mutant: the loop does not look at stop_flag.
AgainOnceStopped(c) == enabled /\ c.contentLen >= 0 /\ ShouldKeepAlive(c)

\* The condition of the loop.
Again(c) == ~stop /\ enabled /\ c.contentLen >= 0 /\ ShouldKeepAlive(c)

\* The handled request is left with some of its body on the wire, or the
\* read failed.
LeavesMidway ==
  \/ conn.requestLen <= 0
  \/ /\ conn.contentLen > conn.consumed
     /\ conn.requestLen + conn.contentLen > Len(conn.buf) 

\* keep_alive is worked out before the memmove; the assertion on data_len
\* comes after it.
Finish ==
  /\ pc = "finish"
  /\ LET b == Moved(conn.buf, DiscardLen(conn))
         c == [conn EXCEPT !.buf = b, !.info = Survives(conn.info, b)]
     IN  IF Len(b) > BufSize
         THEN /\ pc' = "aborted"
              /\ conn' = c
         ELSE IF Again(conn)
         THEN /\ pc' = "read"
              /\ conn' = Reset(c)
         ELSE /\ pc' = "idle"
              /\ conn' = [c EXCEPT !.mustClose = TRUE]
  /\ strayed' = (strayed \/ LeavesMidway)
  /\ UNCHANGED <<client, need, stop, enabled, link, got, replies, late>>

Worker ==
  \/ ReadMore \/ ReadFails \/ Parse
  \/ \E len \in 1 .. MaxRead : Read(len)
  \/ ReadPull \/ ReadReturns \/ Reply \/ Finish

Next == Send \/ HangUp \/ Stop \/ Serve \/ Worker

Spec == Init /\ [][Next]_vars

\* The worker thread runs, recv returns within the socket's 30 s timeout,
\* and a handler replies sooner or later.
FairSpec == Spec /\ WF_vars(Worker) /\ SF_vars(Reply)

----------------------------------------------------------------------------

TypeOK ==
  /\ sent \in Seq(Message) /\ Len(sent) <= MaxMessages
  /\ pc \in {"idle", "read", "handle", "pull", "finish", "aborted"}
  /\ conn.requestLen \in -1 .. BufSize /\ conn.consumed \in 0 .. Len(got)
  /\ Len(conn.buf) <= BufSize + 1
  /\ need \in 0 .. MaxRead

\* Framing, for process_new_connection's discarding: as long as every request
\* so far was read to its last cell, what the worker takes for the start of
\* the next request is the first cell of the next message of the client,
\* whatever the chunks it arrived in and however much was pipelined.
Framing ==
  pc = "read" /\ ~strayed /\ conn.buf # <<>>
    => conn.buf[1] = <<replies + 1, 1>>

\* mg_read gives the handler the body of the request it is answering, from
\* its first cell on, without a gap between what was buffered with the head
\* and what comes from the socket, and never a cell of the next request.
BodyExact ==
  pc \in {"handle", "pull"} /\ ~strayed
    => LET k == replies + 1
           m == sent[k]
       IN  got = SubSeq(Cells(k, m), m.head + 1, m.head + Len(got))

\* process_new_connection and mg_read give every cell of the stream to the
\* request it belongs to.
BytesExact == Framing /\ BodyExact

\* After mg_stop has set stop_flag the worker handles at most the one request
\* that was complete in its buffer, however many are pipelined behind it.
StopServesOneMore == late <= 1

\* What the Connection header promises in a reply the server composes is what
\* the loop then does: "close" is never followed by another read, and after
\* "keep-alive" the server closes only if it stops or the body has no known
\* length.  It is not so of the header of a CGI program, which
\* handle_cgi_request sends on ("cgi close", "cgi keep-alive").
HeaderKept ==
  [][pc = "finish" =>
       /\ conn.said = "close" => pc' # "read"
       /\ conn.said = "keep-alive" /\ pc' = "idle"
            => stop \/ conn.contentLen < 0]_vars

\* A worker gets rid of every connection, of a client that stays silent, hangs
\* up or never stops sending, because getreq's failure ends the loop.  With
\* keep-alive enabled that is not so: the loop's condition then looks at what
\* the last request has left in conn.
ConnectionEnds ==
  pc = "read" ~> (pc \in {"idle", "aborted"} \/ (enabled /\ conn.error))

=============================================================================
