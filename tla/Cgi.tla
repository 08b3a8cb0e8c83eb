-------------------------------- MODULE Cgi --------------------------------
(***************************************************************************)
(* handle_cgi_request: a worker runs a CGI program for a request, feeds it *)
(* the request's body through one pipe and relays what it prints through   *)
(* another.  Several workers do this in one process, and fork() gives a    *)
(* child every descriptor the server has open at that moment, the pipes of *)
(* the other workers included: nothing marks them close-on-exec.           *)
(*                                                                         *)
(* A child is named by the worker that forked it.  A pipe is a sequence of *)
(* at most Cap cells and, for each of its ends, the processes that hold it *)
(* open: a read sees the end of file, and a write fails, once nobody holds *)
(* the other end.                                                          *)
(***************************************************************************)
EXTENDS Integers, Sequences, FiniteSets, SequencesExt, FiniteSetsExt

CONSTANTS
  Worker,   \* worker threads
  Request,  \* the requests each worker may be given; see RequestType
  Cap,      \* what a pipe holds
  Buf,      \* the buffer the CGI headers must fit
  Chunk     \* MG_BUF_LEN: the most that one pull of the body or one fread takes

\* What a program does with its input before it prints: "length" reads
\* CONTENT_LENGTH cells, "eof" reads up to the end of file, "echo" prints its
\* headers and then a cell for each it reads, "no" reads nothing.
ProgramType == [reads : {"length", "eof", "echo", "no"}, head : Nat, rest : Nat]

\* length: conn->content_len; buffered: cells of the body already in
\* conn->buf; expect: the Expect header.
RequestType ==
  [post : BOOLEAN, length : Int, buffered : Nat,
   expect : {"", "100-continue", "other"}, program : ProgramType]

ASSUME CgiAssumption ==
  /\ Request \in [Worker -> SUBSET RequestType]
  /\ \A w \in Worker : \A r \in Request[w] :
       r.length >= -1 /\ (r.length >= 0 => r.buffered <= r.length)
  /\ Cap \in Nat \ {0} /\ Buf \in Nat \ {0} /\ Chunk \in Nat \ {0}
  /\ "server" \notin Worker

VARIABLES
  req,   \* the request each worker has
  job,   \* where the worker is, with handle_cgi_request's variables
  kid,   \* the worker's child
  hold,  \* who holds each end of the worker's two pipes
  input, \* what is in the pipe to the child
  output,\* what is in the pipe from the child
  gone,  \* clients that have left
  stop   \* ctx->stop_flag

vars == <<req, job, kid, hold, input, output, gone, stop>>

End     == {"inR", "inW", "outR", "outW"}
Process == Worker \cup {"server"}
NoFds   == [e \in End |-> {}]

\* What a program prints: cells 1 .. head are its headers.
Printed(r)  == [j \in 1 .. r.program.head + r.program.rest |-> j]
Expected(r) == IF r.length = -1 THEN 0 ELSE r.length

Drop(p, h) == [w \in Worker |-> [e \in End |-> h[w][e] \ {p}]]

\* Descriptors process p alone closes: es, of the pipes of worker w.
Close(w, es) == [hold EXCEPT ![w] = [e \in End |-> IF e \in es THEN @[e] \ {"server"}
                                                             ELSE @[e]]]

Init ==
  /\ req \in [Worker -> UNION {Request[w] : w \in Worker}]
  /\ \A w \in Worker : req[w] \in Request[w]
  /\ job = [w \in Worker |-> [pc |-> "idle", pend |-> <<>>, consumed |-> 0,
                              buf |-> <<>>, sent |-> <<>>, replies |-> <<>>]]
  /\ kid = [w \in Worker |-> [state |-> "none", eaten |-> <<>>, sawEof |-> FALSE,
                              written |-> 0]]
  /\ hold = [w \in Worker |-> NoFds]
  /\ input = [w \in Worker |-> <<>>] /\ output = [w \in Worker |-> <<>>]
  /\ gone = {} /\ stop = FALSE

\* send_http_error, and the jump to "done".
Fail(w, codes) ==
  job' = [job EXCEPT ![w].pc = "done", ![w].replies = @ \o codes]

Goto(w, l) == job' = [job EXCEPT ![w].pc = l]

----------------------------------------------------------------------------
\* The worker.

\* pipe(fd_stdin), pipe(fd_stdout): either may fail.
Pipes(w) ==
  /\ job[w].pc = "idle"
  /\ \E opened \in {{}, {"inR", "inW"}, End} :
       /\ hold' = [hold EXCEPT ![w] = [e \in End |-> IF e \in opened THEN {"server"} ELSE {}]]
       /\ IF opened = End THEN Goto(w, "fork") ELSE Fail(w, <<500>>)
  /\ UNCHANGED <<req, kid, input, output, gone, stop>>

\* The child has what the server holds.  dup2 and the two close() of the
\* child leave it holding every end of its own pipes as well.
Fork(w) ==
  /\ job[w].pc = "fork"
  /\ \/ /\ hold' = [v \in Worker |-> [e \in End |-> IF "server" \in hold[v][e]
                                         THEN hold[v][e] \cup {w} ELSE hold[v][e]]]
        /\ kid' = [kid EXCEPT ![w].state = "forked"]
        /\ Goto(w, "parent")
     \/ /\ job' = [job EXCEPT ![w].pc = "parent", ![w].replies = <<500>>]
        /\ UNCHANGED <<hold, kid>>
  /\ UNCHANGED <<req, input, output, gone, stop>>

\* Mutant: a request refused for its headers is not answered.
StartForwardSilently(w) ==
  LET r == req[w] IN
  CASE r.length = -1 \/ r.expect = "other" -> Fail(w, <<>>)
    [] OTHER -> job' = [job EXCEPT ![w].pc = "pushBuffered",
                                   ![w].pend = [j \in 1 .. r.buffered |-> j]]

\* forward_body_data refuses the request, or starts with what is buffered.
StartForward(w) ==
  LET r == req[w] IN
  CASE r.length = -1     -> Fail(w, <<411>>)
    [] r.length # -1 /\ r.expect = "other" -> Fail(w, <<417>>)
    [] OTHER -> job' = [job EXCEPT ![w].pc = "pushBuffered",
                                   ![w].pend = [j \in 1 .. r.buffered |-> j]]

\* Mutant: the parent keeps the end the child prints to.
ParentKeepsOut(w) ==
  /\ job[w].pc = "parent"
  /\ hold' = Close(w, {"inR"})
  /\ \/ kid[w].state = "none" /\ Fail(w, <<500>>)
     \/ kid[w].state # "none" /\ Fail(w, <<500>>)
     \/ kid[w].state # "none" /\ req[w].post /\ StartForward(w)
     \/ kid[w].state # "none" /\ ~req[w].post /\ Goto(w, "closeIn")
  /\ UNCHANGED <<req, kid, input, output, gone, stop>>

\* The parent closes the child's ends; without a child it has already sent
\* an error and sends another.  fdopen may fail.
Parent(w) ==
  /\ job[w].pc = "parent"
  /\ hold' = Close(w, {"inR", "outW"})
  /\ \/ kid[w].state = "none" /\ Fail(w, <<500>>)
     \/ kid[w].state # "none" /\ Fail(w, <<500>>)
     \/ kid[w].state # "none" /\ req[w].post /\ StartForward(w)
     \/ kid[w].state # "none" /\ ~req[w].post /\ Goto(w, "closeIn")
  /\ UNCHANGED <<req, kid, input, output, gone, stop>>

\* push(): one cell of what is pending enters the pipe when it has room; the
\* loop ends when all is written or, with EPIPE, when nobody reads.
Push(w) ==
  /\ job[w].pc \in {"pushBuffered", "push"}
  /\ job[w].pend # <<>> /\ hold[w].inR # {} /\ Len(input[w]) < Cap
  /\ input' = [input EXCEPT ![w] = Append(@, Head(job[w].pend))]
  /\ job' = [job EXCEPT ![w].pend = Tail(@)]
  /\ UNCHANGED <<req, kid, hold, output, gone, stop>>

\* What became of the buffered part is not looked at.
PushedBuffered(w) ==
  /\ job[w].pc = "pushBuffered"
  /\ job[w].pend = <<>> \/ hold[w].inR = {}
  /\ job' = [job EXCEPT ![w].pend = <<>>, ![w].pc = "pull", ![w].consumed = req[w].buffered]
  /\ UNCHANGED <<req, kid, hold, input, output, gone, stop>>

Pushed(w) ==
  /\ job[w].pc = "push"
  /\ \/ job[w].pend = <<>> /\ Goto(w, "pull")
     \/ job[w].pend # <<>> /\ hold[w].inR = {} /\ Fail(w, <<577>>)
  /\ UNCHANGED <<req, kid, hold, input, output, gone, stop>>

\* Mutant: a full buffer is asked for, whatever is left of the body.
PullTooMuch(w) ==
  LET left == req[w].length - job[w].consumed IN
  /\ job[w].pc = "pull"
  /\ \/ left = 0 /\ Goto(w, "closeIn")
     \/ left > 0 /\ (stop \/ w \in gone) /\ Fail(w, <<577>>)
     \/ /\ left > 0 /\ ~stop
        /\ \E n \in 1 .. Chunk :
             job' = [job EXCEPT ![w].pc = "push", ![w].consumed = @ + n,
                                ![w].pend = [j \in 1 .. n |-> job[w].consumed + j]]
  /\ UNCHANGED <<req, kid, hold, input, output, gone, stop>>

\* Mutant: a pull that failed ends the body like one that completed it.
PullUnchecked(w) ==
  LET left == req[w].length - job[w].consumed IN
  /\ job[w].pc = "pull"
  /\ \/ left = 0 /\ Goto(w, "closeIn")
     \/ left > 0 /\ (stop \/ w \in gone) /\ Goto(w, "closeIn")
     \/ /\ left > 0 /\ ~stop
        /\ \E n \in 1 .. left : n <= Chunk /\
             job' = [job EXCEPT ![w].pc = "push", ![w].consumed = @ + n,
                                ![w].pend = [j \in 1 .. n |-> job[w].consumed + j]]
  /\ UNCHANGED <<req, kid, hold, input, output, gone, stop>>

\* The rest of the body comes from the client, in any pieces, until it has
\* left or the server stops.  (consumed_content grows once a piece is pushed;
\* nothing looks at it before that.)
Pull(w) ==
  LET left == req[w].length - job[w].consumed IN
  /\ job[w].pc = "pull"
  /\ \/ left = 0 /\ Goto(w, "closeIn")
     \/ left > 0 /\ (stop \/ w \in gone) /\ Fail(w, <<577>>)
     \/ /\ left > 0 /\ ~stop
        /\ \E n \in 1 .. left : n <= Chunk /\
             job' = [job EXCEPT ![w].pc = "push", ![w].consumed = @ + n,
                                ![w].pend = [j \in 1 .. n |-> job[w].consumed + j]]
  /\ UNCHANGED <<req, kid, hold, input, output, gone, stop>>

\* fclose(in)
CloseIn(w) ==
  /\ job[w].pc = "closeIn"
  /\ hold' = Close(w, {"inW"})
  /\ Goto(w, "head")
  /\ UNCHANGED <<req, kid, input, output, gone, stop>>

HeadRead(w) == req[w].program.head > 0 /\ Len(job[w].buf) >= req[w].program.head

\* read_request on the pipe: until the headers are complete, the buffer is
\* full, the program has closed its end, or the server stops.
ReadHead(w) ==
  /\ job[w].pc = "head" /\ ~HeadRead(w) /\ Len(job[w].buf) < Buf
  /\ \/ /\ output[w] # <<>> /\ ~stop
        /\ LET n == Min({Len(output[w]), Buf - Len(job[w].buf)}) IN
             /\ job' = [job EXCEPT ![w].buf = @ \o SubSeq(output[w], 1, n)]
             /\ output' = [output EXCEPT ![w] = SubSeq(@, n + 1, Len(@))]
     \/ /\ \/ output[w] = <<>> /\ hold[w].outW = {}
           \/ output[w] # <<>> /\ stop
        /\ Fail(w, <<500>>) /\ UNCHANGED output
  /\ UNCHANGED <<req, kid, hold, input, gone, stop>>

TooBig(w) ==
  /\ job[w].pc = "head" /\ ~HeadRead(w) /\ Len(job[w].buf) >= Buf
  /\ Fail(w, <<500>>)
  /\ UNCHANGED <<req, kid, hold, input, output, gone, stop>>

\* Mutant: what was read after the headers is not sent.
ReplyHeadOnly(w) ==
  /\ job[w].pc = "head" /\ HeadRead(w)
  /\ job' = [job EXCEPT ![w].pc = "relay", ![w].buf = <<>>,
                        ![w].replies = Append(@, 200),
                        ![w].sent = SubSeq(job[w].buf, 1, req[w].program.head)]
  /\ UNCHANGED <<req, kid, hold, input, output, gone, stop>>

\* The status line, the headers, and what was read after them.
Reply(w) ==
  /\ job[w].pc = "head" /\ HeadRead(w)
  /\ job' = [job EXCEPT ![w].pc = "relay", ![w].buf = <<>>,
                        ![w].replies = Append(@, 200), ![w].sent = job[w].buf]
  /\ UNCHANGED <<req, kid, hold, input, output, gone, stop>>

\* send_file_data: fread gathers a chunk, ended early only by the end of the
\* program's output, and mg_write sends it unless the client has left.
Gather(w) ==
  /\ job[w].pc = "relay" /\ output[w] # <<>> /\ Len(job[w].buf) < Chunk
  /\ job' = [job EXCEPT ![w].buf = Append(@, Head(output[w]))]
  /\ output' = [output EXCEPT ![w] = Tail(@)]
  /\ UNCHANGED <<req, kid, hold, input, gone, stop>>

Relay(w) ==
  LET eof == output[w] = <<>> /\ hold[w].outW = {} IN
  /\ job[w].pc = "relay" /\ (Len(job[w].buf) = Chunk \/ eof)
  /\ job' = [job EXCEPT
       ![w].pc = IF job[w].buf = <<>> \/ w \in gone THEN "done" ELSE @,
       ![w].sent = IF w \in gone THEN @ ELSE @ \o job[w].buf, ![w].buf = <<>>]
  /\ UNCHANGED <<req, kid, hold, input, output, gone, stop>>

\* Mutant: the child is left to end by itself.
DoneWithoutKill(w) ==
  /\ job[w].pc = "done"
  /\ hold' = Close(w, End) /\ kid' = kid
  /\ Goto(w, "end")
  /\ UNCHANGED <<req, input, output, gone, stop>>

\* done: SIGKILL, and every descriptor still open.
Done(w) ==
  /\ job[w].pc = "done"
  /\ LET h == Close(w, End) IN hold' = IF kid[w].state = "none" THEN h ELSE Drop(w, h)
  /\ kid' = [kid EXCEPT ![w].state = IF @ = "none" THEN @ ELSE "dead"]
  /\ Goto(w, "end")
  /\ UNCHANGED <<req, input, output, gone, stop>>

Serve(w) ==
  \/ Pipes(w) \/ Fork(w) \/ Parent(w)
  \/ Push(w) \/ PushedBuffered(w) \/ Pushed(w) \/ Pull(w) \/ CloseIn(w)
  \/ ReadHead(w) \/ TooBig(w) \/ Reply(w) \/ Gather(w) \/ Relay(w) \/ Done(w)

----------------------------------------------------------------------------
\* The child, the clients, the application.

Dies(w) ==
  /\ kid' = [kid EXCEPT ![w].state = "dead"]
  /\ hold' = Drop(w, hold)
  /\ UNCHANGED <<req, job, input, output, gone, stop>>

\* chdir, dup2 and execle: one that fails ends the child.
Exec(w) ==
  /\ kid[w].state = "forked"
  /\ \/ /\ kid' = [kid EXCEPT ![w].state = "running"]
        /\ UNCHANGED <<req, job, hold, input, output, gone, stop>>
     \/ Dies(w)

\* Does the program want to read, and how much may it have printed by now?
Wants(w) ==
  LET k == kid[w] IN
  CASE req[w].program.reads = "length" -> Len(k.eaten) < Expected(req[w])
    [] req[w].program.reads = "eof"    -> ~k.sawEof
    [] req[w].program.reads = "echo"   ->
         /\ Len(k.eaten) < Expected(req[w])
         /\ k.written >= req[w].program.head + Len(k.eaten)
    [] OTHER -> FALSE

May(w) == kid[w].written < Len(Printed(req[w])) /\ ~Wants(w)

\* A read of standard input: a cell, or the end of file once nobody holds
\* the other end.  Only a program that reads to the end expects that.
Eat(w) ==
  /\ kid[w].state = "running" /\ Wants(w)
  /\ \/ /\ input[w] # <<>>
        /\ kid' = [kid EXCEPT ![w].eaten = Append(@, Head(input[w]))]
        /\ input' = [input EXCEPT ![w] = Tail(@)]
        /\ UNCHANGED <<req, job, hold, output, gone, stop>>
     \/ /\ input[w] = <<>> /\ hold[w].inW = {}
        /\ IF req[w].program.reads = "eof"
           THEN /\ kid' = [kid EXCEPT ![w].sawEof = TRUE]
                /\ UNCHANGED <<req, job, hold, input, output, gone, stop>>
           ELSE Dies(w)

Prints(w) ==
  /\ kid[w].state = "running" /\ May(w) /\ Len(output[w]) < Cap
  /\ output' = [output EXCEPT ![w] = Append(@, Printed(req[w])[kid[w].written + 1])]
  /\ kid' = [kid EXCEPT ![w].written = @ + 1]
  /\ UNCHANGED <<req, job, hold, input, gone, stop>>

Exit(w) == kid[w].state = "running" /\ ~Wants(w) /\ ~May(w) /\ Dies(w)

Crash(w) == kid[w].state = "running" /\ Dies(w)

Child(w) == Exec(w) \/ Eat(w) \/ Prints(w) \/ Exit(w)

\* A client that leaves is only noticed by a recv or a send.
Leave(w) ==
  /\ w \notin gone /\ job[w].pc \in {"pull", "relay"}
  /\ gone' = gone \cup {w}
  /\ UNCHANGED <<req, job, kid, hold, input, output, stop>>

\* pull() looks at stop_flag, and nothing else here does.
Stop ==
  /\ ~stop /\ \E w \in Worker : job[w].pc \in {"pull", "head"}
  /\ stop' = TRUE
  /\ UNCHANGED <<req, job, kid, hold, input, output, gone>>

Next ==
  \/ \E w \in Worker : Serve(w) \/ Child(w) \/ Crash(w) \/ Leave(w)
  \/ Stop

Spec == Init /\ [][Next]_vars

\* The threads and the programs are scheduled; clients need not leave,
\* programs need not crash and the application need not stop.
FairSpec == Spec /\ \A w \in Worker : WF_vars(Serve(w)) /\ WF_vars(Child(w))

----------------------------------------------------------------------------
Place == {"idle", "fork", "parent", "pushBuffered", "push", "pull", "closeIn",
          "head", "relay", "done", "end"}

\* Every variable has its type; a pipe never holds more than it can.
TypeOK ==
  /\ \A w \in Worker :
       /\ req[w] \in Request[w]
       /\ job[w].pc \in Place
       /\ job[w].consumed \in 0 .. Expected(req[w])
       /\ Len(job[w].buf) <= Max({Buf, Chunk})
       /\ job[w].replies \in Seq({200, 411, 417, 500, 577})
       /\ kid[w].state \in {"none", "forked", "running", "dead"}
       /\ Len(input[w]) <= Cap /\ Len(output[w]) <= Cap
  /\ hold \in [Worker -> [End -> SUBSET Process]]
  /\ gone \subseteq Worker /\ stop \in BOOLEAN

\* The client gets what the program printed, from its first byte and in
\* order, whatever the pieces it came in: all that was printed when the
\* request ends with the client still there.
OutputExact ==
  \A w \in Worker :
    /\ IsPrefix(job[w].sent, Printed(req[w]))
    /\ job[w].pc = "end" /\ 200 \in ToSet(job[w].replies) /\ w \notin gone
         => Len(job[w].sent) = kid[w].written

\* The program reads the body from its first byte and in order, and its
\* answer is only passed on when the whole body has been taken from the
\* client: a program that was fed a part of it never answers for the whole.
BodyWhole ==
  \A w \in Worker :
    /\ \A k \in DOMAIN kid[w].eaten : kid[w].eaten[k] = k
    /\ req[w].post /\ 200 \in ToSet(job[w].replies) => job[w].consumed = req[w].length

\* A request that is over has left nothing behind, whichever step failed:
\* the server holds no end of its pipes and its child is gone.
Released ==
  \A w \in Worker : job[w].pc = "end" =>
    /\ \A e \in End : "server" \notin hold[w][e]
    /\ kid[w].state \in {"none", "dead"}

\* "Each error code path in this function must send an error": a request
\* that is over has been answered, and once.  The exception is a fork that
\* fails: spawn_process and its caller each send a 500.
AnsweredOnce ==
  \A w \in Worker : job[w].pc \in {"done", "end"} =>
    \/ Len(job[w].replies) = 1
    \/ job[w].replies = <<500, 500>> /\ kid[w].state = "none"

\* What handle_cgi_request passes on, in both directions, is whole and in order.
RelayExact == OutputExact /\ BodyWhole

\* A request is settled: answered once, and nothing of it left behind.
Settled == Released /\ AnsweredOnce

\* A program that reads its input before it prints, or prints no more than a
\* pipe holds.  The server writes the whole body before it reads, so any
\* other may wait for the server while the server waits for it.
Patient(w) ==
  LET p == req[w].program IN
  p.reads = "length" \/ (p.reads \in {"no", "echo"} /\ p.head + p.rest <= Cap)

\* With such programs every request ends.  A worker whose program is done
\* still waits for the programs that hold its pipes because they were forked
\* meanwhile: one that never ends holds them all.
Finishes ==
  \A w \in Worker :
    (\A v \in Worker : Patient(v)) /\ job[w].pc # "idle" ~> job[w].pc = "end"

=============================================================================
