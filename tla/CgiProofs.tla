------------------------------ MODULE CgiProofs ------------------------------
(***************************************************************************)
(* Proofs about Cgi for any workers, requests, programs and pipes.         *)
(***************************************************************************)
EXTENDS Cgi, StreamLemmas

-----------------------------------------------------------------------------
(* The inductive invariant *)

Codes == {200, 411, 417, 500, 577}

Job ==
  [pc : Place, pend : Seq(Nat), consumed : Nat, buf : Seq(Nat), sent : Seq(Nat),
   replies : Seq(Codes)]

Kid ==
  [state : {"none", "forked", "running", "dead"}, eaten : Seq(Nat), sawEof : BOOLEAN,
   written : Nat]

\* What the types add to TypeOK.
TypeInv ==
  /\ job \in [Worker -> Job] /\ kid \in [Worker -> Kid]
  /\ input \in [Worker -> Seq(Nat)] /\ output \in [Worker -> Seq(Nat)]
  /\ hold \in [Worker -> [End -> SUBSET Process]]
  /\ gone \subseteq Worker /\ stop \in BOOLEAN

\* s holds the cells behind the a-th, in order.
Up(s, a) == \A i \in 1 .. Len(s) : s[i] = a + i

Alive(w) == kid[w].state \in {"forked", "running"}

\* The worker has reached none of these before its child is fed.
Before  == {"idle", "fork", "parent"}
Feeding == {"pushBuffered", "push", "pull"}
Over    == {"done", "end"}

\* What has been answered so far, and whether there is a child.
ReplyInv(w) ==
  LET j == job[w]
      k == kid[w].state IN
  /\ j.pc \in {"idle", "fork"} => j.replies = <<>> /\ k = "none"
  /\ j.pc = "parent" => \/ j.replies = <<>> /\ k # "none"
                        \/ j.replies = <<500>> /\ k = "none"
  /\ j.pc \in Feeding \cup {"closeIn", "head"} => j.replies = <<>>
  /\ j.pc = "relay" => j.replies = <<200>>
  /\ j.pc \in Over => \/ \E c \in Codes : j.replies = <<c>>
                      \/ j.replies = <<500, 500>> /\ k = "none"

\* Who holds which descriptor.
HoldInv(w) ==
  /\ job[w].pc = "fork" => "server" \in hold[w].outW
  /\ job[w].pc \in Feeding => "server" \notin hold[w].inR
  /\ job[w].pc = "end" =>
       /\ \A e \in End : "server" \notin hold[w][e]
       /\ ~Alive(w)
  /\ Alive(w) => w \in hold[w].outW

\* How much of the body has been taken from the client.
BodyInv(w) ==
  LET j == job[w]
      r == req[w] IN
  /\ j.consumed <= Expected(r)
  /\ j.pc \in Before => j.consumed = 0
  /\ j.pc \in Feeding => r.length >= 0
  /\ j.pc = "pushBuffered" => j.consumed = 0
  /\ r.post /\ (j.pc \in {"closeIn", "head"} \/ j.replies = <<200>>) => j.consumed = r.length

\* The cells of the body: read by the program, in the pipe, still to be pushed.
\* A pipe nobody reads any more gets no further cells.
InputInv(w) ==
  LET j == job[w]
      k == kid[w]
      fed == Len(k.eaten) + Len(input[w]) IN
  /\ Up(k.eaten, 0) /\ Up(input[w], Len(k.eaten))
  /\ j.pc \in Before => fed = 0
  /\ j.pc \in Feeding /\ hold[w].inR # {} =>
       /\ Up(j.pend, fed)
       /\ fed + Len(j.pend) = IF j.pc = "pushBuffered" THEN req[w].buffered ELSE j.consumed
       /\ j.pc = "pull" => j.pend = <<>>

\* The cells the program has printed: sent, in the buffer, in the pipe.
OutputInv(w) ==
  LET j == job[w]
      k == kid[w]
      p == req[w].program IN
  /\ Up(j.sent, 0) /\ k.written <= p.head + p.rest
  /\ j.pc \notin Over =>
       /\ Up(j.buf, Len(j.sent)) /\ Up(output[w], Len(j.sent) + Len(j.buf))
       /\ Len(j.sent) + Len(j.buf) + Len(output[w]) = k.written
  /\ j.pc \notin Over \cup {"relay"} => j.sent = <<>>
  /\ j.pc \notin Over \cup {"relay", "head"} => j.buf = <<>>
  /\ j.pc \in Over =>
       /\ Len(j.sent) <= k.written
       /\ j.replies = <<200>> /\ w \notin gone => ~Alive(w) /\ Len(j.sent) = k.written

\* What the buffers and the pipes hold.
RoomInv(w) ==
  /\ Len(job[w].buf) <= Max({Buf, Chunk})
  /\ Len(input[w]) <= Cap /\ Len(output[w]) <= Cap

WorkerInv(w) ==
  /\ req[w] \in Request[w]
  /\ ReplyInv(w) /\ HoldInv(w) /\ BodyInv(w) /\ InputInv(w) /\ OutputInv(w) /\ RoomInv(w)

IInv == TypeInv /\ \A w \in Worker : WorkerInv(w)

-----------------------------------------------------------------------------
(* Types, field by field *)

\* The sizes are positive, and the server is not one of its workers.
LEMMA Bounds ==
  /\ Cap \in Nat \ {0} /\ Buf \in Nat \ {0} /\ Chunk \in Nat \ {0}
  /\ "server" \notin Worker
  BY CgiAssumption DEF CgiAssumption

\* What a request may be: at most its body is buffered when it has one.
LEMMA RequestFacts ==
  ASSUME NEW w \in Worker, NEW r \in Request[w]
  PROVE  /\ r.length \in Int /\ r.length >= -1 /\ r.buffered \in Nat
         /\ r.length >= 0 => r.buffered <= r.length
         /\ r.post \in BOOLEAN
         /\ r.program.head \in Nat /\ r.program.rest \in Nat
<1>1. /\ r \in RequestType /\ r.length >= -1
      /\ r.length >= 0 => r.buffered <= r.length
  BY CgiAssumption DEF CgiAssumption
<1>2. r.length \in Int /\ r.buffered \in Nat /\ r.program \in ProgramType
  BY <1>1 DEF RequestType
<1>3. r.post \in BOOLEAN
  BY <1>1, Zenon DEF RequestType
<1>4. r.program.head \in Nat /\ r.program.rest \in Nat
  BY <1>2 DEF ProgramType
<1> QED BY <1>1, <1>2, <1>3, <1>4

\* The fields of a worker's job.
LEMMA JobFacts ==
  ASSUME TypeInv, NEW w \in Worker
  PROVE  /\ job[w] \in Job /\ job[w].pc \in Place /\ job[w].consumed \in Nat
         /\ job[w].pend \in Seq(Nat) /\ Len(job[w].pend) \in Nat
         /\ job[w].buf \in Seq(Nat) /\ Len(job[w].buf) \in Nat
         /\ job[w].sent \in Seq(Nat) /\ Len(job[w].sent) \in Nat
         /\ job[w].replies \in Seq(Codes)
<1>1. job[w] \in Job
  BY DEF TypeInv
<1>2. /\ job[w].consumed \in Nat /\ job[w].pend \in Seq(Nat) /\ job[w].buf \in Seq(Nat)
      /\ job[w].sent \in Seq(Nat) /\ job[w].replies \in Seq(Codes) /\ job[w].pc \in Place
  BY <1>1, Zenon DEF Job
<1> QED BY <1>1, <1>2, LenProperties

\* The child of a worker, with its pipes.
LEMMA KidFacts ==
  ASSUME TypeInv, NEW w \in Worker
  PROVE  /\ kid[w] \in Kid /\ kid[w].state \in {"none", "forked", "running", "dead"}
         /\ kid[w].eaten \in Seq(Nat) /\ Len(kid[w].eaten) \in Nat
         /\ kid[w].written \in Nat
         /\ input[w] \in Seq(Nat) /\ Len(input[w]) \in Nat
         /\ output[w] \in Seq(Nat) /\ Len(output[w]) \in Nat
<1>1. kid[w] \in Kid /\ input[w] \in Seq(Nat) /\ output[w] \in Seq(Nat)
  BY DEF TypeInv
<1>2. /\ kid[w].state \in {"none", "forked", "running", "dead"}
      /\ kid[w].eaten \in Seq(Nat) /\ kid[w].written \in Nat
  BY <1>1, Zenon DEF Kid
<1> QED BY <1>1, <1>2, LenProperties

\* The cells of the body that have left the worker.
LEMMA FedFacts ==
  ASSUME TypeInv, NEW w \in Worker
  PROVE  Len(kid[w].eaten) + Len(input[w]) \in Nat
<1> DEFINE e == Len(kid[w].eaten)
           i == Len(input[w])
<1>1. e \in Nat /\ i \in Nat
  BY KidFacts
<1> HIDE DEF e, i
<1>2. e + i \in Nat
  BY <1>1
<1> QED BY <1>2 DEF e, i

\* What a step makes of the job of worker w.
JobIs(w, pc, pend, consumed, buf, sent, replies) ==
  /\ job' \in [Worker -> Job]
  /\ job'[w].pc = pc /\ job'[w].pend = pend /\ job'[w].consumed = consumed
  /\ job'[w].buf = buf /\ job'[w].sent = sent /\ job'[w].replies = replies
  /\ \A v \in Worker \ {w} : job'[v] = job[v]

\* One lemma for each of the sets of fields that steps write.
LEMMA SetPc ==
  ASSUME TypeInv, NEW w \in Worker, NEW a \in Place, job' = [job EXCEPT ![w].pc = a]
  PROVE  JobIs(w, a, job[w].pend, job[w].consumed, job[w].buf, job[w].sent, job[w].replies)
  BY ZenonT(60) DEF JobIs, TypeInv, Job

\* An assignment to some fields of a job leaves the others alone; one lemma for
\* each set of fields the actions assign to.
LEMMA SetReplies ==
  ASSUME TypeInv, NEW w \in Worker, NEW a \in Place, NEW c \in Seq(Codes),
         job' = [job EXCEPT ![w].pc = a, ![w].replies = c]
  PROVE  JobIs(w, a, job[w].pend, job[w].consumed, job[w].buf, job[w].sent, c)
  BY ZenonT(60) DEF JobIs, TypeInv, Job

LEMMA SetPend ==
  ASSUME TypeInv, NEW w \in Worker, NEW a \in Place, NEW b \in Seq(Nat),
         job' = [job EXCEPT ![w].pc = a, ![w].pend = b]
  PROVE  JobIs(w, a, b, job[w].consumed, job[w].buf, job[w].sent, job[w].replies)
  BY ZenonT(60) DEF JobIs, TypeInv, Job

LEMMA SetOnlyPend ==
  ASSUME TypeInv, NEW w \in Worker, NEW b \in Seq(Nat), job' = [job EXCEPT ![w].pend = b]
  PROVE  JobIs(w, job[w].pc, b, job[w].consumed, job[w].buf, job[w].sent, job[w].replies)
  BY ZenonT(60) DEF JobIs, TypeInv, Job

LEMMA SetConsumed ==
  ASSUME TypeInv, NEW w \in Worker, NEW a \in Place, NEW b \in Seq(Nat), NEW c \in Nat,
         job' = [job EXCEPT ![w].pend = b, ![w].pc = a, ![w].consumed = c]
  PROVE  JobIs(w, a, b, c, job[w].buf, job[w].sent, job[w].replies)
  BY ZenonT(60) DEF JobIs, TypeInv, Job

LEMMA SetPulled ==
  ASSUME TypeInv, NEW w \in Worker, NEW a \in Place, NEW b \in Seq(Nat), NEW c \in Nat,
         job' = [job EXCEPT ![w].pc = a, ![w].consumed = c, ![w].pend = b]
  PROVE  JobIs(w, a, b, c, job[w].buf, job[w].sent, job[w].replies)
  BY ZenonT(60) DEF JobIs, TypeInv, Job

LEMMA SetBuf ==
  ASSUME TypeInv, NEW w \in Worker, NEW b \in Seq(Nat), job' = [job EXCEPT ![w].buf = b]
  PROVE  JobIs(w, job[w].pc, job[w].pend, job[w].consumed, b, job[w].sent, job[w].replies)
  BY ZenonT(60) DEF JobIs, TypeInv, Job

LEMMA SetSent ==
  ASSUME TypeInv, NEW w \in Worker, NEW a \in Place, NEW b \in Seq(Nat), NEW d \in Seq(Nat),
         job' = [job EXCEPT ![w].pc = a, ![w].sent = d, ![w].buf = b]
  PROVE  JobIs(w, a, job[w].pend, job[w].consumed, b, d, job[w].replies)
  BY ZenonT(60) DEF JobIs, TypeInv, Job

LEMMA SetReply ==
  ASSUME TypeInv, NEW w \in Worker, NEW a \in Place, NEW b \in Seq(Nat), NEW d \in Seq(Nat),
         NEW c \in Seq(Codes),
         job' = [job EXCEPT ![w].pc = a, ![w].buf = b, ![w].replies = c, ![w].sent = d]
  PROVE  JobIs(w, a, job[w].pend, job[w].consumed, b, d, c)
  BY ZenonT(60) DEF JobIs, TypeInv, Job

\* Goto and Fail, likewise.
LEMMA GotoFacts ==
  ASSUME TypeInv, NEW w \in Worker, NEW a \in Place, Goto(w, a)
  PROVE  JobIs(w, a, job[w].pend, job[w].consumed, job[w].buf, job[w].sent, job[w].replies)
  BY SetPc DEF Goto

LEMMA FailFacts ==
  ASSUME TypeInv, NEW w \in Worker, NEW c \in Codes, Fail(w, <<c>>)
  PROVE  JobIs(w, "done", job[w].pend, job[w].consumed, job[w].buf, job[w].sent,
               Append(job[w].replies, c))
<1> DEFINE r == job[w].replies \o <<c>>
<1>1. r \in Seq(Codes) /\ r = Append(job[w].replies, c)
  BY JobFacts
<1>2. job' = [job EXCEPT ![w].pc = "done", ![w].replies = r]
  BY DEF Fail, TypeInv, Job
<1>3. "done" \in Place
  BY DEF Place
<1> HIDE DEF r
<1> QED BY <1>1, <1>2, <1>3, SetReplies

-----------------------------------------------------------------------------
(* What a step of one worker leaves the others *)

\* Nothing of worker w has changed, except who else holds its pipes.
Untouched(w) ==
  /\ job'[w] = job[w] /\ kid'[w] = kid[w] /\ req'[w] = req[w]
  /\ input'[w] = input[w] /\ output'[w] = output[w] /\ (w \in gone' <=> w \in gone)
  /\ \A e \in End : /\ "server" \in hold'[w][e] <=> "server" \in hold[w][e]
                    /\ hold[w][e] = {} => hold'[w][e] = {}
                    /\ w \in hold[w][e] => w \in hold'[w][e]

\* A step of another worker that leaves all of w's alone keeps its invariant.
LEMMA UntouchedInv ==
  ASSUME NEW w \in Worker, WorkerInv(w), Untouched(w)
  PROVE  WorkerInv(w)'
<1>1. /\ job'[w] = job[w] /\ kid'[w] = kid[w] /\ req'[w] = req[w]
      /\ input'[w] = input[w] /\ output'[w] = output[w] /\ (w \in gone' <=> w \in gone)
  BY DEF Untouched
<1>2. /\ "inR" \in End /\ "outW" \in End
      /\ \A e \in End : "server" \in hold'[w][e] <=> "server" \in hold[w][e]
      /\ hold[w]["inR"] = {} => hold'[w]["inR"] = {}
      /\ w \in hold[w]["outW"] => w \in hold'[w]["outW"]
  BY DEF Untouched, End
<1>3. ReplyInv(w)'
  BY <1>1 DEF WorkerInv, ReplyInv
<1>4. HoldInv(w)'
  BY <1>1, <1>2 DEF WorkerInv, HoldInv, Alive
<1>5. BodyInv(w)'
  BY <1>1 DEF WorkerInv, BodyInv
<1>6. InputInv(w)'
  BY <1>1, <1>2 DEF WorkerInv, InputInv
<1>7. OutputInv(w)'
  BY ZenonT(60), <1>1 DEF WorkerInv, OutputInv, Alive
<1>8. RoomInv(w)'
  BY <1>1 DEF WorkerInv, RoomInv
<1> QED BY <1>1, <1>3, <1>4, <1>5, <1>6, <1>7, <1>8 DEF WorkerInv

\* It is enough to look at the worker that moves.
LEMMA Assemble ==
  ASSUME IInv, NEW v \in Worker, TypeInv', WorkerInv(v)',
         \A w \in Worker \ {v} : Untouched(w)
  PROVE  IInv'
<1>1. ASSUME NEW w \in Worker PROVE WorkerInv(w)'
  <2>1. CASE w = v
    BY <2>1
  <2>2. CASE w # v
    <3>1. WorkerInv(w) /\ Untouched(w)
      BY <2>2 DEF IInv
    <3> QED BY <3>1, UntouchedInv
  <2> QED BY <2>1, <2>2
<1> QED BY <1>1 DEF IInv

\* A step that writes the worker's own variables and nothing else.
LEMMA JobOnly ==
  ASSUME IInv, NEW v \in Worker, job' \in [Worker -> Job],
         \A w \in Worker \ {v} : job'[w] = job[w],
         UNCHANGED <<req, kid, hold, input, output, gone, stop>>, WorkerInv(v)'
  PROVE  IInv'
<1>1. TypeInv'
  BY DEF IInv, TypeInv
<1>2. \A w \in Worker \ {v} : Untouched(w)
  BY DEF Untouched
<1> QED BY <1>1, <1>2, Assemble

\* The worker closes descriptors of its own pipes: whoever else held them still does.
LEMMA CloseFacts ==
  ASSUME TypeInv, NEW v \in Worker, NEW es, es \subseteq End, hold' = Close(v, es)
  PROVE  /\ hold' \in [Worker -> [End -> SUBSET Process]]
         /\ \A w \in Worker \ {v} : hold'[w] = hold[w]
         /\ \A e \in End : hold'[v][e] = IF e \in es THEN hold[v][e] \ {"server"}
                                                    ELSE hold[v][e]
         /\ v \in hold[v].outW => v \in hold'[v].outW
<1>1. hold \in [Worker -> [End -> SUBSET Process]]
  BY DEF TypeInv
<1> DEFINE f == [e \in End |-> IF e \in es THEN hold[v][e] \ {"server"} ELSE hold[v][e]]
<1>2. hold' = [hold EXCEPT ![v] = f]
  BY <1>1 DEF Close
<1>3. f \in [End -> SUBSET Process]
  BY <1>1
<1> HIDE DEF f
<1>4. /\ hold' \in [Worker -> [End -> SUBSET Process]] /\ hold'[v] = f
      /\ \A w \in Worker \ {v} : hold'[w] = hold[w]
  BY <1>1, <1>2, <1>3
<1>5. \A e \in End : f[e] = IF e \in es THEN hold[v][e] \ {"server"} ELSE hold[v][e]
  BY DEF f
<1>6. v \in hold[v].outW => v \in f["outW"]
  <2>1. "outW" \in End /\ v # "server"
    BY Bounds DEF End
  <2>2. f["outW"] = hold[v]["outW"] \/ f["outW"] = hold[v]["outW"] \ {"server"}
    BY <1>5, <2>1
  <2> QED BY <2>1, <2>2
<1> QED BY <1>4, <1>5, <1>6

\* The child is gone, and with it the descriptors it held.
LEMMA DropFacts ==
  ASSUME NEW v \in Worker, NEW h, h \in [Worker -> [End -> SUBSET Process]],
         NEW d, d = Drop(v, h)
  PROVE  /\ d \in [Worker -> [End -> SUBSET Process]]
         /\ \A w \in Worker, e \in End : d[w][e] = h[w][e] \ {v}
  BY DEF Drop

LEMMA AppendTwo ==
  ASSUME NEW a, NEW b
  PROVE  Append(<<>>, a) = <<a>> /\ Append(<<a>>, b) = <<a, b>>
<1> DEFINE s == Append(<<a>>, b)
           t == <<a, b>>
<1>1. /\ s \in Seq({a, b}) /\ Len(s) = 2 /\ s[1] = a /\ s[2] = b
  <2>1. <<a>> \in Seq({a, b}) /\ Len(<<a>>) = 1 /\ <<a>>[1] = a /\ b \in {a, b}
    OBVIOUS
  <2> QED BY <2>1, AppendProperties
<1>2. t \in Seq({a, b}) /\ Len(t) = 2 /\ t[1] = a /\ t[2] = b
  OBVIOUS
<1> HIDE DEF s, t
<1>3. \A i \in 1 .. 2 : s[i] = t[i]
  BY <1>1, <1>2
<1>4. s = t
  BY <1>1, <1>2, <1>3, SeqEqual
<1> QED BY <1>4 DEF s, t

\* The client never has more than the program has printed.
LEMMA SentSoFar ==
  ASSUME TypeInv, NEW w \in Worker, OutputInv(w), job[w].pc \notin Over
  PROVE  /\ Len(job[w].sent) <= kid[w].written
         /\ Len(job[w].sent) + Len(job[w].buf) + Len(output[w]) = kid[w].written
<1> DEFINE a == Len(job[w].sent)
           b == Len(job[w].buf)
           c == Len(output[w])
           d == kid[w].written
<1>1. a + b + c = d
  BY DEF OutputInv
<1>2. a \in Nat /\ b \in Nat /\ c \in Nat /\ d \in Nat
  BY JobFacts, KidFacts
<1> HIDE DEF a, b, c, d
<1>3. a <= d
  BY <1>1, <1>2
<1> QED BY <1>1, <1>3 DEF a, b, c, d

\* A request that is given up keeps what had been sent.
LEMMA OverOutput ==
  ASSUME TypeInv, NEW w \in Worker, OutputInv(w), job[w].pc \notin Over,
         job'[w].pc = "done", job'[w].sent = job[w].sent, job'[w].replies # << 200 >>,
         UNCHANGED <<req, kid, input, output, gone>>
  PROVE  OutputInv(w)'
<1>1. Len(job[w].sent) <= kid[w].written
  BY SentSoFar
<1>2. /\ Up(job[w].sent, 0)
      /\ kid[w].written <= req[w].program.head + req[w].program.rest
  BY DEF OutputInv
<1> QED BY <1>1, <1>2 DEF OutputInv, Over

\* A request that fails, wherever it does.
LEMMA FailInv ==
  ASSUME IInv, NEW v \in Worker, NEW c \in Codes \ {200}, Fail(v, <<c>>),
         job[v].pc \notin Over, job[v].pc # "relay",
         \/ job[v].replies = <<>>
         \/ job[v].replies = << 500 >> /\ kid[v].state = "none" /\ c = 500,
         UNCHANGED <<req, kid, input, output, gone>>,
         Alive(v) => v \in hold'[v].outW
  PROVE  /\ job' \in [Worker -> Job] /\ \A w \in Worker \ {v} : job'[w] = job[w]
         /\ WorkerInv(v)'
<1>1. TypeInv /\ WorkerInv(v)
  BY DEF IInv
<1>2. JobIs(v, "done", job[v].pend, job[v].consumed, job[v].buf, job[v].sent,
            Append(job[v].replies, c))
  BY <1>1, FailFacts
<1>3. /\ job' \in [Worker -> Job] /\ \A w \in Worker \ {v} : job'[w] = job[w]
      /\ job'[v].pc = "done" /\ job'[v].consumed = job[v].consumed
      /\ job'[v].buf = job[v].buf /\ job'[v].sent = job[v].sent
      /\ job'[v].replies = Append(job[v].replies, c)
  BY <1>2 DEF JobIs
<1>4. \/ job'[v].replies = <<c>>
      \/ job'[v].replies = <<500, 500>> /\ kid[v].state = "none"
  <2>1. CASE job[v].replies = <<>>
    BY <1>3, <2>1, AppendTwo
  <2>2. CASE job[v].replies = <<500>> /\ kid[v].state = "none" /\ c = 500
    BY <1>3, <2>2, AppendTwo
  <2> QED BY <2>1, <2>2
<1>5. job'[v].replies # <<200>>
  BY <1>4
<1>6. ReplyInv(v)'
  BY <1>3, <1>4 DEF ReplyInv, Over, Feeding
<1>7. HoldInv(v)'
  BY <1>3 DEF HoldInv, Alive, Feeding
<1>8. BodyInv(v)'
  BY <1>1, <1>3, <1>5 DEF WorkerInv, BodyInv, Before, Feeding
<1>9. InputInv(v)'
  BY <1>1, <1>3 DEF WorkerInv, InputInv, Before, Feeding
<1>10. OutputInv(v)'
  <2>1. OutputInv(v)
    BY <1>1 DEF WorkerInv
  <2> QED BY <1>1, <1>3, <1>5, <2>1, OverOutput
<1>11. RoomInv(v)'
  BY <1>1, <1>3 DEF WorkerInv, RoomInv
<1> QED BY <1>1, <1>3, <1>6, <1>7, <1>8, <1>9, <1>10, <1>11 DEF WorkerInv

-----------------------------------------------------------------------------
(* Cells in order *)

\* Cells in order stay so when one is added, taken away, or two parts are joined.
LEMMA UpAppend ==
  ASSUME NEW s \in Seq(Nat), NEW a \in Nat, Up(s, a), NEW x, x = a + Len(s) + 1
  PROVE  Append(s, x) \in Seq(Nat) /\ Len(Append(s, x)) = Len(s) + 1 /\ Up(Append(s, x), a)
<1>1. Len(s) \in Nat /\ x \in Nat
  BY LenProperties
<1>2. /\ Append(s, x) \in Seq(Nat) /\ Len(Append(s, x)) = Len(s) + 1
      /\ \A i \in 1 .. Len(s) : Append(s, x)[i] = s[i]
      /\ Append(s, x)[Len(s) + 1] = x
  BY <1>1, AppendProperties
<1>3. ASSUME NEW i \in 1 .. Len(s) + 1 PROVE Append(s, x)[i] = a + i
  <2>1. CASE i = Len(s) + 1
    BY <1>1, <1>2, <2>1
  <2>2. CASE i # Len(s) + 1
    <3>1. i \in 1 .. Len(s)
      BY <1>1, <2>2
    <3> QED BY <1>2, <3>1 DEF Up
  <2> QED BY <2>1, <2>2
<1> QED BY <1>2, <1>3 DEF Up

LEMMA UpTail ==
  ASSUME NEW s \in Seq(Nat), NEW a \in Nat, Up(s, a), s # <<>>
  PROVE  /\ Head(s) = a + 1 /\ Tail(s) \in Seq(Nat) /\ Len(Tail(s)) = Len(s) - 1
         /\ Len(s) >= 1 /\ Up(Tail(s), a + 1)
<1>1. Len(s) \in Nat /\ Len(s) >= 1 /\ Head(s) = s[1]
  BY LenProperties, EmptySeq
<1>2. /\ Tail(s) \in Seq(Nat) /\ Len(Tail(s)) = Len(s) - 1
      /\ \A i \in 1 .. Len(Tail(s)) : Tail(s)[i] = s[i + 1]
  BY HeadTailProperties
<1>3. ASSUME NEW i \in 1 .. Len(Tail(s)) PROVE Tail(s)[i] = (a + 1) + i
  <2>1. i + 1 \in 1 .. Len(s) /\ i \in Int
    BY <1>1, <1>2
  <2>2. s[i + 1] = a + (i + 1)
    BY <2>1 DEF Up
  <2> QED BY <1>2, <2>1, <2>2
<1>4. s[1] = a + 1
  BY <1>1 DEF Up
<1> QED BY <1>1, <1>2, <1>3, <1>4 DEF Up

LEMMA UpFrom ==
  ASSUME NEW n \in Nat, NEW a \in Nat
  PROVE  LET s == [j \in 1 .. n |-> a + j] IN
           s \in Seq(Nat) /\ Len(s) = n /\ Up(s, a)
<1> DEFINE s == [j \in 1 .. n |-> a + j]
<1>1. \A j \in 1 .. n : a + j \in Nat
  OBVIOUS
<1>2. s \in Seq(Nat) /\ Len(s) = n
  <2>1. s \in [1 .. n -> Nat]
    BY <1>1
  <2> QED BY <2>1
<1> QED BY <1>2 DEF Up

LEMMA UpEmpty ==
  ASSUME NEW a
  PROVE  Up(<<>>, a) /\ Len(<<>>) = 0 /\ <<>> \in Seq(Nat)
<1>1. Len(<<>>) = 0 /\ <<>> \in Seq(Nat)
  OBVIOUS
<1>2. \A i \in 1 .. 0 : <<>>[i] = a + i
  OBVIOUS
<1> QED BY <1>1, <1>2 DEF Up

\* The first n cells of t moved behind s.
LEMMA UpMove ==
  ASSUME NEW s \in Seq(Nat), NEW t \in Seq(Nat), NEW a \in Nat, NEW n \in 0 .. Len(t),
         Up(s, a), Up(t, a + Len(s))
  PROVE  LET u == s \o SubSeq(t, 1, n)
             r == SubSeq(t, n + 1, Len(t)) IN
           /\ u \in Seq(Nat) /\ Len(u) = Len(s) + n /\ Up(u, a)
           /\ r \in Seq(Nat) /\ Len(r) = Len(t) - n /\ Up(r, a + Len(s) + n)
<1> DEFINE u == s \o SubSeq(t, 1, n)
           r == SubSeq(t, n + 1, Len(t))
<1>1. /\ u \in Seq(Nat) /\ Len(u) = Len(s) + n /\ r \in Seq(Nat) /\ Len(r) = Len(t) - n
      /\ \A i \in 1 .. Len(s) : u[i] = s[i]
      /\ \A i \in 1 .. n : u[Len(s) + i] = t[i]
      /\ \A i \in 1 .. Len(t) - n : r[i] = t[n + i]
  <2>1. u \in Seq(Nat) /\ Len(u) = Len(s) + n
    BY SMTT(30), MoveFacts
  <2>2. r \in Seq(Nat) /\ Len(r) = Len(t) - n
    BY MoveFacts
  <2>3. \A i \in 1 .. Len(s) : u[i] = s[i]
    BY MoveFacts
  <2>4. \A i \in 1 .. n : u[Len(s) + i] = t[i]
    BY MoveFacts
  <2>5. \A i \in 1 .. Len(t) - n : r[i] = t[n + i]
    BY MoveFacts
  <2> QED BY <2>1, <2>2, <2>3, <2>4, <2>5
<1>2. Len(s) \in Nat /\ Len(t) \in Nat /\ n \in Nat /\ n <= Len(t)
  BY LenProperties
<1> HIDE DEF u, r
<1>3. ASSUME NEW i \in 1 .. Len(u) PROVE u[i] = a + i
  <2>1. CASE i <= Len(s)
    BY <1>1, <1>2, <2>1 DEF Up
  <2>2. CASE ~(i <= Len(s))
    <3>1. PICK j \in 1 .. n : i = Len(s) + j
      <4>1. i - Len(s) \in 1 .. n /\ i = Len(s) + (i - Len(s))
        BY <1>1, <1>2, <2>2
      <4> QED BY <4>1
    <3>2. u[i] = t[j] /\ j \in 1 .. Len(t)
      BY SMTT(30), <1>1, <1>2, <3>1
    <3>3. t[j] = a + Len(s) + j
      BY <3>2 DEF Up
    <3> QED BY <1>2, <3>1, <3>2, <3>3
  <2> QED BY <1>2, <2>1, <2>2
<1>4. ASSUME NEW i \in 1 .. Len(r) PROVE r[i] = a + Len(s) + n + i
  <2>1. i \in 1 .. Len(t) - n /\ n + i \in 1 .. Len(t) /\ i \in Int
    BY <1>1, <1>2
  <2>2. t[n + i] = a + Len(s) + (n + i)
    BY <2>1 DEF Up
  <2> QED BY <1>1, <1>2, <2>1, <2>2
<1>5. Up(u, a) /\ Up(r, a + Len(s) + n)
  BY <1>3, <1>4 DEF Up
<1> QED BY <1>1, <1>5 DEF u, r

LEMMA UpConcat ==
  ASSUME NEW s \in Seq(Nat), NEW t \in Seq(Nat), NEW a \in Nat,
         Up(s, a), Up(t, a + Len(s))
  PROVE  s \o t \in Seq(Nat) /\ Len(s \o t) = Len(s) + Len(t) /\ Up(s \o t, a)
<1>1. /\ s \o t \in Seq(Nat) /\ Len(s \o t) = Len(s) + Len(t)
      /\ \A i \in 1 .. Len(s) + Len(t) :
           (s \o t)[i] = IF i <= Len(s) THEN s[i] ELSE t[i - Len(s)]
  BY ConcatProperties
<1>2. Len(s) \in Nat /\ Len(t) \in Nat
  BY LenProperties
<1>3. ASSUME NEW i \in 1 .. Len(s) + Len(t) PROVE (s \o t)[i] = a + i
  <2>1. CASE i <= Len(s)
    BY <1>1, <1>2, <2>1 DEF Up
  <2>2. CASE ~(i <= Len(s))
    <3>1. PICK j \in 1 .. Len(t) : i = Len(s) + j
      <4>1. i - Len(s) \in 1 .. Len(t) /\ i = Len(s) + (i - Len(s))
        BY <1>2, <2>2
      <4> QED BY <4>1
    <3>2. i - Len(s) = j
      BY <1>2, <3>1
    <3>3. t[j] = a + Len(s) + j
      BY DEF Up
    <3> QED BY <1>1, <1>2, <2>2, <3>1, <3>2, <3>3
  <2> QED BY <1>2, <2>1, <2>2
<1> QED BY <1>1, <1>3 DEF Up

-----------------------------------------------------------------------------
(* The steps of the worker *)

\* pipe() for both directions, then one lemma for each step of handle_cgi_request.
LEMMA PipesInv ==
  ASSUME IInv, NEW v \in Worker, Pipes(v)
  PROVE  IInv'
<1>1. TypeInv /\ WorkerInv(v)
  BY DEF IInv
<1>2. job[v].pc = "idle" /\ UNCHANGED <<req, kid, input, output, gone, stop>>
  BY DEF Pipes
<1>3. job[v].replies = <<>> /\ kid[v].state = "none"
  BY <1>1, <1>2 DEF WorkerInv, ReplyInv
<1>4. ~Alive(v)
  BY <1>3 DEF Alive
<1>5. PICK opened \in {{}, {"inR", "inW"}, End} :
        /\ hold' = [hold EXCEPT ![v] = [e \in End |-> IF e \in opened THEN {"server"} ELSE {}]]
        /\ IF opened = End THEN Goto(v, "fork") ELSE Fail(v, <<500>>)
  BY Zenon DEF Pipes
<1> DEFINE f == [e \in End |-> IF e \in opened THEN {"server"} ELSE {}]
<1>6. f \in [End -> SUBSET Process]
  BY DEF Process
<1>7. /\ hold' \in [Worker -> [End -> SUBSET Process]] /\ hold'[v] = f
      /\ \A w \in Worker \ {v} : hold'[w] = hold[w]
  BY <1>1, <1>5, <1>6 DEF TypeInv
<1>8. job' \in [Worker -> Job] /\ (\A w \in Worker \ {v} : job'[w] = job[w]) /\ WorkerInv(v)'
  <2>1. CASE opened # End
    <3>1. Fail(v, <<500>>)
      BY <1>5, <2>1
    <3>2. /\ 500 \in Codes \ {200} /\ job[v].pc \notin Over /\ job[v].pc # "relay"
          /\ Alive(v) => v \in hold'[v].outW
      BY <1>2, <1>4 DEF Over, Codes
    <3> QED BY <1>2, <1>3, <3>1, <3>2, FailInv
  <2>2. CASE opened = End
    <3>1. Goto(v, "fork") /\ "fork" \in Place /\ f["outW"] = {"server"}
      BY <1>5, <2>2 DEF Place, End
    <3>2. JobIs(v, "fork", job[v].pend, job[v].consumed, job[v].buf, job[v].sent,
                job[v].replies)
      BY <1>1, <3>1, GotoFacts
    <3>3. /\ job' \in [Worker -> Job] /\ \A w \in Worker \ {v} : job'[w] = job[w]
          /\ job'[v].pc = "fork" /\ job'[v].consumed = job[v].consumed
          /\ job'[v].buf = job[v].buf /\ job'[v].sent = job[v].sent
          /\ job'[v].replies = <<>>
      BY <1>3, <3>2 DEF JobIs
    <3>4. ReplyInv(v)'
      BY <1>2, <1>3, <3>3 DEF ReplyInv, Feeding, Over
    <3>5. HoldInv(v)'
      BY <1>2, <1>4, <1>7, <3>1, <3>3 DEF HoldInv, Alive, Feeding
    <3>6. BodyInv(v)'
      BY <1>1, <1>2, <3>3 DEF WorkerInv, BodyInv, Before, Feeding
    <3>7. InputInv(v)'
      BY <1>1, <1>2, <3>3 DEF WorkerInv, InputInv, Before, Feeding
    <3>8. OutputInv(v)'
      BY <1>1, <1>2, <3>3 DEF WorkerInv, OutputInv, Over
    <3>9. RoomInv(v)'
      BY <1>1, <1>2, <3>3 DEF WorkerInv, RoomInv
    <3> QED BY <1>1, <1>2, <3>3, <3>4, <3>5, <3>6, <3>7, <3>8, <3>9 DEF WorkerInv
  <2> QED BY <2>1, <2>2
<1>9. TypeInv'
  BY <1>1, <1>2, <1>7, <1>8 DEF TypeInv
<1>10. \A w \in Worker \ {v} : Untouched(w)
  BY <1>2, <1>7, <1>8 DEF Untouched
<1> QED BY <1>8, <1>9, <1>10, Assemble

LEMMA ForkInv ==
  ASSUME IInv, NEW v \in Worker, Fork(v)
  PROVE  IInv'
<1>1. TypeInv /\ WorkerInv(v)
  BY DEF IInv
<1>2. job[v].pc = "fork" /\ UNCHANGED <<req, input, output, gone, stop>>
  BY DEF Fork
<1>3. job[v].replies = <<>> /\ kid[v].state = "none" /\ "server" \in hold[v].outW
  BY <1>1, <1>2 DEF WorkerInv, ReplyInv, HoldInv
<1>4. ~Alive(v)
  BY <1>3 DEF Alive
<1>5. CASE /\ hold' = [w \in Worker |-> [e \in End |-> IF "server" \in hold[w][e]
                                           THEN hold[w][e] \cup {v} ELSE hold[w][e]]]
           /\ kid' = [kid EXCEPT ![v].state = "forked"]
           /\ Goto(v, "parent")
  <2>1. JobIs(v, "parent", job[v].pend, job[v].consumed, job[v].buf, job[v].sent,
              job[v].replies)
    BY <1>1, <1>5, GotoFacts DEF Place
  <2>2. /\ job' \in [Worker -> Job] /\ \A w \in Worker \ {v} : job'[w] = job[w]
        /\ job'[v].pc = "parent" /\ job'[v].consumed = job[v].consumed
        /\ job'[v].buf = job[v].buf /\ job'[v].sent = job[v].sent
        /\ job'[v].replies = <<>>
    BY <1>3, <2>1 DEF JobIs
  <2>3. /\ kid' \in [Worker -> Kid] /\ \A w \in Worker \ {v} : kid'[w] = kid[w]
        /\ kid'[v].state = "forked" /\ kid'[v].eaten = kid[v].eaten
        /\ kid'[v].written = kid[v].written
    BY <1>1, <1>5 DEF TypeInv, Kid
  <2>4. /\ hold' \in [Worker -> [End -> SUBSET Process]]
        /\ \A w \in Worker : \A e \in End :
             hold'[w][e] = IF "server" \in hold[w][e] THEN hold[w][e] \cup {v} ELSE hold[w][e]
    BY <1>1, <1>5 DEF TypeInv, Process
  <2>5. v \in hold'[v].outW
    BY <1>3, <2>4 DEF End
  <2>6. ReplyInv(v)'
    BY <2>2, <2>3 DEF ReplyInv, Feeding, Over
  <2>7. HoldInv(v)'
    BY <2>2, <2>5 DEF HoldInv, Feeding
  <2>8. BodyInv(v)'
    BY <1>1, <1>2, <2>2 DEF WorkerInv, BodyInv, Before, Feeding
  <2>9. InputInv(v)'
    BY <1>1, <1>2, <2>2, <2>3 DEF WorkerInv, InputInv, Before, Feeding
  <2>10. OutputInv(v)'
    BY <1>1, <1>2, <2>2, <2>3 DEF WorkerInv, OutputInv, Over
  <2>11. RoomInv(v)'
    BY <1>1, <1>2, <2>2 DEF WorkerInv, RoomInv
  <2>12. WorkerInv(v)'
    BY <1>1, <1>2, <2>6, <2>7, <2>8, <2>9, <2>10, <2>11 DEF WorkerInv
  <2>13. TypeInv'
    BY <1>1, <1>2, <2>2, <2>3, <2>4 DEF TypeInv
  <2>14. \A w \in Worker \ {v} : Untouched(w)
    <3> SUFFICES ASSUME NEW w \in Worker \ {v} PROVE Untouched(w)
      OBVIOUS
    <3>1. \A e \in End : /\ "server" \in hold'[w][e] <=> "server" \in hold[w][e]
                         /\ hold[w][e] = {} => hold'[w][e] = {}
                         /\ w \in hold[w][e] => w \in hold'[w][e]
      BY <2>4, Bounds
    <3> QED BY <1>2, <2>2, <2>3, <3>1 DEF Untouched
  <2> QED BY <2>12, <2>13, <2>14, Assemble
<1>6. CASE /\ job' = [job EXCEPT ![v].pc = "parent", ![v].replies = <<500>>]
           /\ UNCHANGED <<hold, kid>>
  <2>1. JobIs(v, "parent", job[v].pend, job[v].consumed, job[v].buf, job[v].sent, <<500>>)
    <3>1. "parent" \in Place /\ <<500>> \in Seq(Codes)
      BY DEF Place, Codes
    <3> QED BY ZenonT(60), <1>1, <1>6, <3>1, SetReplies
  <2>2. /\ job' \in [Worker -> Job] /\ \A w \in Worker \ {v} : job'[w] = job[w]
        /\ job'[v].pc = "parent" /\ job'[v].consumed = job[v].consumed
        /\ job'[v].buf = job[v].buf /\ job'[v].sent = job[v].sent
        /\ job'[v].replies = <<500>>
    BY <2>1 DEF JobIs
  <2>3. job'[v].replies # <<200>>
    BY <2>2
  <2>4. ReplyInv(v)'
    BY <1>3, <1>6, <2>2 DEF ReplyInv, Feeding, Over
  <2>5. HoldInv(v)'
    BY <1>4, <1>6, <2>2 DEF HoldInv, Feeding, Alive
  <2>6. BodyInv(v)'
    BY <1>1, <1>2, <2>2, <2>3 DEF WorkerInv, BodyInv, Before, Feeding
  <2>7. InputInv(v)'
    BY <1>1, <1>2, <1>6, <2>2 DEF WorkerInv, InputInv, Before, Feeding
  <2>8. OutputInv(v)'
    BY ZenonT(60), <1>1, <1>2, <1>6, <2>2 DEF WorkerInv, OutputInv, Over
  <2>9. RoomInv(v)'
    BY <1>1, <1>2, <2>2 DEF WorkerInv, RoomInv
  <2>10. WorkerInv(v)'
    BY <1>1, <1>2, <2>4, <2>5, <2>6, <2>7, <2>8, <2>9 DEF WorkerInv
  <2> QED BY <1>2, <1>6, <2>2, <2>10, JobOnly
<1> QED BY <1>5, <1>6 DEF Fork

\* The buffered part of the body, pushed from its first cell.
LEMMA UpBuffered ==
  ASSUME NEW n \in Nat, NEW e \in Nat, NEW i \in Nat, e + i = 0
  PROVE  LET b == [j \in 1 .. n |-> j] IN e + i + Len(b) = n /\ Up(b, e + i)
<1> DEFINE b == [j \in 1 .. n |-> j]
<1>1. b \in [1 .. n -> Nat]
  OBVIOUS
<1>2. Len(b) = n
  BY <1>1
<1>3. \A k \in 1 .. n : b[k] = (e + i) + k
  OBVIOUS
<1>4. Up(b, e + i)
  BY <1>2, <1>3 DEF Up
<1> HIDE DEF b
<1>5. e + i + Len(b) = n
  BY <1>2
<1> QED BY <1>4, <1>5 DEF b

\* The request is refused, or its body is pushed from the first buffered cell.
LEMMA StartForwardFacts ==
  ASSUME IInv, NEW v \in Worker, StartForward(v)
  PROVE  \/ \E c \in Codes \ {200} : Fail(v, <<c>>)
         \/ /\ req[v].length >= 0
            /\ JobIs(v, "pushBuffered", [j \in 1 .. req[v].buffered |-> j], job[v].consumed,
                     job[v].buf, job[v].sent, job[v].replies)
<1> DEFINE r == req[v]
<1>1. TypeInv /\ r \in Request[v]
  BY DEF IInv, WorkerInv
<1>2. r.length \in Int /\ r.length >= -1 /\ r.buffered \in Nat
  BY <1>1, RequestFacts
<1>3. CASE r.length = -1
  <2>1. Fail(v, <<411>>)
    BY <1>3 DEF StartForward
  <2> QED BY <2>1 DEF Codes
<1>4. CASE r.length # -1 /\ r.expect = "other"
  <2>1. Fail(v, <<417>>)
    BY <1>4 DEF StartForward
  <2> QED BY <2>1 DEF Codes
<1>5. CASE r.length # -1 /\ r.expect # "other"
  <2> DEFINE b == [j \in 1 .. r.buffered |-> j]
  <2>1. job' = [job EXCEPT ![v].pc = "pushBuffered", ![v].pend = b]
    BY <1>5 DEF StartForward
  <2>2. b \in Seq(Nat)
    <3>1. b \in [1 .. r.buffered -> Nat]
      BY <1>2
    <3> QED BY <1>2, <3>1
  <2> HIDE DEF b
  <2>3. JobIs(v, "pushBuffered", b, job[v].consumed, job[v].buf, job[v].sent, job[v].replies)
    <3>1. "pushBuffered" \in Place
      BY DEF Place
    <3> QED BY <1>1, <2>1, <2>2, <3>1, SetPend
  <2> QED BY <1>2, <1>5, <2>3 DEF b
<1> QED BY <1>3, <1>4, <1>5

LEMMA ParentInv ==
  ASSUME IInv, NEW v \in Worker, Parent(v)
  PROVE  IInv'
<1>1. TypeInv /\ WorkerInv(v)
  BY DEF IInv
<1>2. /\ job[v].pc = "parent" /\ UNCHANGED <<req, kid, input, output, gone, stop>>
      /\ hold' = Close(v, {"inR", "outW"})
  BY DEF Parent
<1>3. \/ job[v].replies = <<>> /\ kid[v].state # "none"
      \/ job[v].replies = <<500>> /\ kid[v].state = "none"
  BY <1>1, <1>2 DEF WorkerInv, ReplyInv
<1>4. /\ hold' \in [Worker -> [End -> SUBSET Process]]
      /\ \A w \in Worker \ {v} : hold'[w] = hold[w]
      /\ v \in hold[v].outW => v \in hold'[v].outW
      /\ "server" \notin hold'[v].inR
  <2> DEFINE es == {"inR", "outW"}
  <2>1. es \subseteq End /\ "inR" \in End /\ "inR" \in es
    BY DEF End
  <2>2. hold' = Close(v, es)
    BY <1>2
  <2> HIDE DEF es
  <2>3. /\ hold' \in [Worker -> [End -> SUBSET Process]]
        /\ \A w \in Worker \ {v} : hold'[w] = hold[w]
        /\ \A e \in End : hold'[v][e] = IF e \in es THEN hold[v][e] \ {"server"} ELSE hold[v][e]
        /\ v \in hold[v].outW => v \in hold'[v].outW
    BY <1>1, <2>1, <2>2, CloseFacts
  <2>4. hold'[v]["inR"] = hold[v]["inR"] \ {"server"}
    BY <2>1, <2>3
  <2> QED BY <2>3, <2>4
<1>5. Alive(v) => v \in hold'[v].outW
  BY <1>1, <1>4 DEF WorkerInv, HoldInv
<1>6. job[v].pc \notin Over /\ job[v].pc # "relay"
  BY <1>2 DEF Over
<1>7. job' \in [Worker -> Job] /\ (\A w \in Worker \ {v} : job'[w] = job[w]) /\ WorkerInv(v)'
  <2>1. CASE \E c \in Codes \ {200} :
               Fail(v, <<c>>) /\ (kid[v].state = "none" => c = 500)
    <3>1. PICK c \in Codes \ {200} : Fail(v, <<c>>) /\ (kid[v].state = "none" => c = 500)
      BY <2>1
    <3>2. \/ job[v].replies = <<>>
          \/ job[v].replies = <<500>> /\ kid[v].state = "none" /\ c = 500
      BY <1>3, <3>1
    <3> QED BY <1>2, <1>5, <1>6, <3>1, <3>2, FailInv
  <2>2. CASE /\ kid[v].state # "none" /\ req[v].length >= 0
             /\ JobIs(v, "pushBuffered", [j \in 1 .. req[v].buffered |-> j], job[v].consumed,
                      job[v].buf, job[v].sent, job[v].replies)
    <3> DEFINE b == [j \in 1 .. req[v].buffered |-> j]
    <3>1. /\ job' \in [Worker -> Job] /\ \A w \in Worker \ {v} : job'[w] = job[w]
          /\ job'[v].pc = "pushBuffered" /\ job'[v].consumed = job[v].consumed
          /\ job'[v].buf = job[v].buf /\ job'[v].sent = job[v].sent
          /\ job'[v].replies = <<>> /\ job'[v].pend = b
      BY <1>3, <2>2 DEF JobIs
    <3>2. ReplyInv(v)'
      BY <3>1 DEF ReplyInv, Feeding, Over
    <3>3. HoldInv(v)'
      BY <1>2, <1>4, <1>5, <3>1 DEF HoldInv, Alive
    <3>4. BodyInv(v)'
      <4>1. job'[v].replies # <<200>>
        BY <3>1
      <4> QED BY <1>1, <1>2, <2>2, <3>1, <4>1 DEF WorkerInv, BodyInv, Before, Feeding
    <3>5. InputInv(v)'
      <4> DEFINE e == Len(kid[v].eaten)
                 i == Len(input[v])
      <4>1. e \in Nat /\ i \in Nat
        BY <1>1, KidFacts
      <4>2. e + i = 0 /\ Up(kid[v].eaten, 0) /\ Up(input[v], e)
        BY <1>1, <1>2 DEF WorkerInv, InputInv, Before
      <4>3. e + i + Len(b) = req[v].buffered /\ Up(b, e + i)
        <5>1. req[v].buffered \in Nat
          BY <1>1, RequestFacts DEF WorkerInv
        <5> QED BY <4>1, <4>2, <5>1, UpBuffered
      <4> HIDE DEF b
      <4> QED BY <1>2, <3>1, <4>2, <4>3 DEF InputInv, Before, Feeding
    <3>6. OutputInv(v)'
      BY <1>1, <1>2, <3>1 DEF WorkerInv, OutputInv, Over
    <3>7. RoomInv(v)'
      BY <1>1, <1>2, <3>1 DEF WorkerInv, RoomInv
    <3> QED BY <1>1, <1>2, <3>1, <3>2, <3>3, <3>4, <3>5, <3>6, <3>7 DEF WorkerInv
  <2>3. CASE kid[v].state # "none" /\ ~req[v].post /\ Goto(v, "closeIn")
    <3>1. JobIs(v, "closeIn", job[v].pend, job[v].consumed, job[v].buf, job[v].sent,
                job[v].replies)
      <4>1. "closeIn" \in Place
        BY DEF Place
      <4> QED BY <1>1, <2>3, <4>1, GotoFacts
    <3>2. /\ job' \in [Worker -> Job] /\ \A w \in Worker \ {v} : job'[w] = job[w]
          /\ job'[v].pc = "closeIn" /\ job'[v].consumed = job[v].consumed
          /\ job'[v].buf = job[v].buf /\ job'[v].sent = job[v].sent
          /\ job'[v].replies = <<>>
      BY <1>3, <2>3, <3>1 DEF JobIs
    <3>3. ReplyInv(v)'
      BY <3>2 DEF ReplyInv, Feeding, Over
    <3>4. HoldInv(v)'
      BY <1>2, <1>5, <3>2 DEF HoldInv, Alive, Feeding
    <3>5. BodyInv(v)'
      BY <1>1, <1>2, <2>3, <3>2 DEF WorkerInv, BodyInv, Before, Feeding
    <3>6. InputInv(v)'
      BY <1>1, <1>2, <3>2 DEF WorkerInv, InputInv, Before, Feeding
    <3>7. OutputInv(v)'
      BY <1>1, <1>2, <3>2 DEF WorkerInv, OutputInv, Over
    <3>8. RoomInv(v)'
      BY <1>1, <1>2, <3>2 DEF WorkerInv, RoomInv
    <3> QED BY <1>1, <1>2, <3>2, <3>3, <3>4, <3>5, <3>6, <3>7, <3>8 DEF WorkerInv
  <2>4. CASE kid[v].state # "none" /\ req[v].post /\ StartForward(v)
    BY ZenonT(60), <2>1, <2>2, <2>4, StartForwardFacts
  <2>5. \/ kid[v].state = "none" /\ Fail(v, <<500>>)
        \/ kid[v].state # "none" /\ Fail(v, <<500>>)
        \/ kid[v].state # "none" /\ req[v].post /\ StartForward(v)
        \/ kid[v].state # "none" /\ ~req[v].post /\ Goto(v, "closeIn")
    BY DEF Parent
  <2>6. CASE Fail(v, <<500>>)
    BY <2>1, <2>6 DEF Codes
  <2> QED BY <2>3, <2>4, <2>5, <2>6
<1>8. TypeInv'
  BY <1>1, <1>2, <1>4, <1>7 DEF TypeInv
<1>9. \A w \in Worker \ {v} : Untouched(w)
  BY <1>2, <1>4, <1>7 DEF Untouched
<1> QED BY <1>7, <1>8, <1>9, Assemble

\* A cell of the body moves on, from the parent to the pipe.
LEMMA PushInv ==
  ASSUME IInv, NEW v \in Worker, Push(v)
  PROVE  IInv'
<1>1. TypeInv /\ WorkerInv(v)
  BY DEF IInv
<1>2. /\ job[v].pc \in {"pushBuffered", "push"} /\ job[v].pend # <<>>
      /\ hold[v].inR # {} /\ Len(input[v]) < Cap
      /\ UNCHANGED <<req, kid, hold, output, gone, stop>>
  BY DEF Push
<1> DEFINE h == Head(job[v].pend)
           t == Tail(job[v].pend)
           n == Len(job[v].pend)
           e == Len(kid[v].eaten)
           i == Len(input[v])
<1>3. job[v].pend \in Seq(Nat) /\ n \in Nat /\ e \in Nat /\ i \in Nat /\ input[v] \in Seq(Nat)
  BY <1>1, JobFacts, KidFacts
<1>4. /\ Up(kid[v].eaten, 0) /\ Up(input[v], e) /\ Up(job[v].pend, e + i)
      /\ e + i + n = IF job[v].pc = "pushBuffered" THEN req[v].buffered ELSE job[v].consumed
  BY <1>1, <1>2 DEF WorkerInv, InputInv, Feeding
<1>5. h = e + i + 1 /\ t \in Seq(Nat) /\ Len(t) = n - 1 /\ Up(t, e + i + 1)
  <2>1. e + i \in Nat
    BY <1>1, FedFacts
  <2>2. PICK f \in Nat : f = e + i
    BY <2>1
  <2>3. h = f + 1 /\ t \in Seq(Nat) /\ Len(t) = n - 1 /\ Up(t, f + 1)
    BY <1>2, <1>3, <1>4, <2>2, UpTail
  <2> QED BY <2>2, <2>3
<1> DEFINE q == Append(input[v], h)
<1>6. q \in Seq(Nat) /\ Len(q) = i + 1 /\ Up(q, e)
  BY <1>3, <1>4, <1>5, UpAppend
<1>7. /\ input' \in [Worker -> Seq(Nat)] /\ input'[v] = q
      /\ \A w \in Worker \ {v} : input'[w] = input[w]
  <2>1. input' = [input EXCEPT ![v] = q]
    BY <1>1 DEF Push, TypeInv
  <2> HIDE DEF q
  <2> QED BY <1>1, <1>6, <2>1 DEF TypeInv
<1>8. JobIs(v, job[v].pc, t, job[v].consumed, job[v].buf, job[v].sent, job[v].replies)
  <2>1. job' = [job EXCEPT ![v].pend = t]
    BY <1>1 DEF Push, TypeInv
  <2> HIDE DEF t
  <2> QED BY <1>1, <1>5, <2>1, SetOnlyPend
<1> HIDE DEF h, t, q
<1>9. /\ job' \in [Worker -> Job] /\ \A w \in Worker \ {v} : job'[w] = job[w]
      /\ job'[v].pc = job[v].pc /\ job'[v].consumed = job[v].consumed
      /\ job'[v].buf = job[v].buf /\ job'[v].sent = job[v].sent
      /\ job'[v].replies = job[v].replies /\ job'[v].pend = t
  BY <1>8 DEF JobIs
<1>10. ReplyInv(v)'
  BY <1>1, <1>2, <1>9 DEF WorkerInv, ReplyInv
<1>11. HoldInv(v)'
  BY <1>1, <1>2, <1>9 DEF WorkerInv, HoldInv, Alive
<1>12. BodyInv(v)'
  BY <1>1, <1>2, <1>9 DEF WorkerInv, BodyInv
<1>13. InputInv(v)'
  <2>1. Up(t, e + Len(q)) /\ e + Len(q) + Len(t) = e + i + n
    <3>1. e + Len(q) = e + i + 1 /\ e + Len(q) + Len(t) = e + i + n
      <4>1. e \in Nat /\ i \in Nat /\ n \in Nat /\ Len(q) = i + 1 /\ Len(t) = n - 1
        BY <1>3, <1>5, <1>6
      <4> HIDE DEF e, i, n
      <4> QED BY <4>1
    <3> QED BY <1>5, <3>1
  <2>2. job[v].pc # "pull" /\ job[v].pc \notin Before
    BY <1>2 DEF Before
  <2> QED BY <1>2, <1>4, <1>6, <1>7, <1>9, <2>1, <2>2 DEF InputInv
<1>14. OutputInv(v)'
  BY <1>1, <1>2, <1>9 DEF WorkerInv, OutputInv, Alive
<1>15. RoomInv(v)'
  <2>1. Len(q) <= Cap
    BY <1>2, <1>3, <1>6, Bounds
  <2> QED BY <1>1, <1>2, <1>7, <1>9, <2>1 DEF WorkerInv, RoomInv
<1>16. WorkerInv(v)'
  BY <1>1, <1>2, <1>10, <1>11, <1>12, <1>13, <1>14, <1>15 DEF WorkerInv
<1>17. TypeInv'
  BY <1>1, <1>2, <1>7, <1>9 DEF TypeInv
<1>18. \A w \in Worker \ {v} : Untouched(w)
  BY <1>2, <1>7, <1>9 DEF Untouched
<1> QED BY <1>16, <1>17, <1>18, Assemble

LEMMA PushedBufferedInv ==
  ASSUME IInv, NEW v \in Worker, PushedBuffered(v)
  PROVE  IInv'
<1>1. TypeInv /\ WorkerInv(v)
  BY DEF IInv
<1>2. /\ job[v].pc = "pushBuffered" /\ (job[v].pend = <<>> \/ hold[v].inR = {})
      /\ UNCHANGED <<req, kid, hold, input, output, gone, stop>>
  BY DEF PushedBuffered
<1>3. req[v].buffered \in Nat /\ req[v].length \in Int /\ req[v].length >= 0
      /\ req[v].buffered <= req[v].length
  <2>1. req[v].length >= 0 /\ req[v] \in Request[v]
    BY <1>1, <1>2 DEF WorkerInv, BodyInv, Feeding
  <2> QED BY <2>1, RequestFacts
<1>4. JobIs(v, "pull", <<>>, req[v].buffered, job[v].buf, job[v].sent, job[v].replies)
  <2>1. /\ job' = [job EXCEPT ![v].pend = <<>>, ![v].pc = "pull", ![v].consumed = req[v].buffered]
        /\ "pull" \in Place /\ <<>> \in Seq(Nat)
    BY DEF PushedBuffered, Place
  <2> QED BY <1>1, <1>3, <2>1, SetConsumed
<1>5. job[v].replies = <<>>
  BY <1>1, <1>2 DEF WorkerInv, ReplyInv, Feeding
<1>6. /\ job' \in [Worker -> Job] /\ \A w \in Worker \ {v} : job'[w] = job[w]
      /\ job'[v].pc = "pull" /\ job'[v].consumed = req[v].buffered
      /\ job'[v].buf = job[v].buf /\ job'[v].sent = job[v].sent
      /\ job'[v].replies = <<>> /\ job'[v].pend = <<>>
  BY <1>4, <1>5 DEF JobIs
<1>7. ReplyInv(v)'
  BY <1>6 DEF ReplyInv, Feeding, Over
<1>8. HoldInv(v)'
  BY <1>1, <1>2, <1>6 DEF WorkerInv, HoldInv, Alive, Feeding
<1>9. BodyInv(v)'
  <2>1. req[v].buffered <= Expected(req[v])
    BY <1>3 DEF Expected
  <2>2. job'[v].replies # <<200>>
    BY <1>6
  <2> QED BY <1>2, <1>3, <1>6, <2>1, <2>2 DEF BodyInv, Before
<1>10. InputInv(v)'
  <2> DEFINE f == Len(kid[v].eaten) + Len(input[v])
  <2>1. f \in Nat
    BY <1>1, FedFacts
  <2>2. Up(<<>>, f) /\ Len(<<>>) = 0
    BY UpEmpty
  <2>3. ASSUME hold[v].inR # {} PROVE f + 0 = req[v].buffered
    <3>1. job[v].pend = <<>>
      BY <1>2, <2>3
    <3>2. f + Len(job[v].pend) = req[v].buffered
      BY <1>1, <1>2, <2>3 DEF WorkerInv, InputInv, Feeding
    <3> QED BY <2>2, <3>1, <3>2
  <2>4. /\ Up(kid[v].eaten, 0) /\ Up(input[v], Len(kid[v].eaten))
    BY <1>1 DEF WorkerInv, InputInv
  <2> QED BY <1>2, <1>6, <2>2, <2>3, <2>4 DEF InputInv, Before
<1>11. OutputInv(v)'
  BY <1>1, <1>2, <1>6 DEF WorkerInv, OutputInv, Over
<1>12. RoomInv(v)'
  BY <1>1, <1>2, <1>6 DEF WorkerInv, RoomInv
<1>13. WorkerInv(v)'
  BY <1>1, <1>2, <1>7, <1>8, <1>9, <1>10, <1>11, <1>12 DEF WorkerInv
<1> QED BY <1>2, <1>6, <1>13, JobOnly

\* A request that ends its body or fails on the way: what the worker holds stays.
LEMMA FailOnly ==
  ASSUME IInv, NEW v \in Worker, NEW c \in Codes \ {200}, Fail(v, <<c>>),
         job[v].pc \in Feeding \cup {"closeIn", "head"},
         UNCHANGED <<req, kid, hold, input, output, gone, stop>>
  PROVE  IInv'
<1>1. WorkerInv(v)
  BY DEF IInv
<1>2. job[v].replies = <<>> /\ (Alive(v) => v \in hold'[v].outW)
  BY <1>1 DEF WorkerInv, ReplyInv, HoldInv
<1>3. job[v].pc \notin Over /\ job[v].pc # "relay"
  BY DEF Over, Feeding
<1>4. /\ job' \in [Worker -> Job] /\ \A w \in Worker \ {v} : job'[w] = job[w]
      /\ WorkerInv(v)'
  BY <1>2, <1>3, FailInv
<1> QED BY <1>4, JobOnly

\* The worker goes on to the next step with nothing left to push.
LEMMA OnwardInv ==
  ASSUME IInv, NEW v \in Worker, NEW a \in {"pull", "closeIn"}, Goto(v, a),
         \/ job[v].pc = "push" /\ a = "pull" /\ job[v].pend = <<>>
         \/ job[v].pc = "pull" /\ a = "closeIn" /\ job[v].consumed = req[v].length,
         UNCHANGED <<req, kid, hold, input, output, gone, stop>>
  PROVE  IInv'
<1>1. TypeInv /\ WorkerInv(v) /\ a \in Place
  BY DEF IInv, Place
<1>2. JobIs(v, a, job[v].pend, job[v].consumed, job[v].buf, job[v].sent, job[v].replies)
  BY <1>1, GotoFacts
<1>3. /\ job[v].replies = <<>> /\ req[v].length >= 0 /\ job[v].consumed <= Expected(req[v])
      /\ job[v].pc \notin Over /\ job[v].pc \notin Before
  BY <1>1 DEF WorkerInv, ReplyInv, BodyInv, Feeding, Over, Before
<1>4. /\ job' \in [Worker -> Job] /\ \A w \in Worker \ {v} : job'[w] = job[w]
      /\ job'[v].pc = a /\ job'[v].consumed = job[v].consumed
      /\ job'[v].buf = job[v].buf /\ job'[v].sent = job[v].sent
      /\ job'[v].replies = <<>> /\ job'[v].pend = job[v].pend
  BY <1>2, <1>3 DEF JobIs
<1>5. ReplyInv(v)'
  BY <1>4 DEF ReplyInv, Feeding, Over
<1>6. HoldInv(v)'
  BY <1>1, <1>4 DEF WorkerInv, HoldInv, Alive, Feeding
<1>7. BodyInv(v)'
  <2>1. job'[v].replies # <<200>>
    BY <1>4
  <2> QED BY <1>3, <1>4, <2>1 DEF BodyInv, Before, Feeding
<1>8. InputInv(v)'
  BY <1>1, <1>4 DEF WorkerInv, InputInv, Before, Feeding
<1>9. OutputInv(v)'
  BY <1>1, <1>3, <1>4 DEF WorkerInv, OutputInv, Over
<1>10. RoomInv(v)'
  BY <1>1, <1>4 DEF WorkerInv, RoomInv
<1>11. WorkerInv(v)'
  BY <1>1, <1>5, <1>6, <1>7, <1>8, <1>9, <1>10 DEF WorkerInv
<1> QED BY <1>4, <1>11, JobOnly

LEMMA PushedInv ==
  ASSUME IInv, NEW v \in Worker, Pushed(v)
  PROVE  IInv'
<1>1. job[v].pc = "push" /\ UNCHANGED <<req, kid, hold, input, output, gone, stop>>
  BY DEF Pushed
<1>2. CASE job[v].pend = <<>> /\ Goto(v, "pull")
  BY <1>1, <1>2, OnwardInv
<1>3. CASE Fail(v, <<577>>)
  <2>1. 577 \in Codes \ {200} /\ job[v].pc \in Feeding \cup {"closeIn", "head"}
    BY <1>1 DEF Codes, Feeding
  <2> QED BY <1>1, <1>3, <2>1, FailOnly
<1> QED BY <1>2, <1>3 DEF Pushed

LEMMA NotAnswered ==
  <<>> # <<200>>
  OBVIOUS

\* A piece of the body comes from the client: the next cells, and no more than are left.
LEMMA PullPieceInv ==
  ASSUME IInv, NEW v \in Worker, job[v].pc = "pull",
         NEW n \in Nat, n <= req[v].length - job[v].consumed,
         job' = [job EXCEPT ![v].pc = "push", ![v].consumed = @ + n,
                            ![v].pend = [j \in 1 .. n |-> job[v].consumed + j]],
         UNCHANGED <<req, kid, hold, input, output, gone, stop>>
  PROVE  IInv'
<1>1. TypeInv /\ WorkerInv(v)
  BY DEF IInv
<1> DEFINE c == job[v].consumed
           m == req[v].length
           b == [j \in 1 .. n |-> c + j]
<1>2. c \in Nat /\ m \in Int /\ m >= 0
  BY <1>1, JobFacts, RequestFacts DEF WorkerInv, BodyInv, Feeding
<1>3. b \in Seq(Nat) /\ Len(b) = n /\ Up(b, c)
  BY <1>2, UpFrom
<1>4. c + n \in Nat /\ c + n <= m /\ c + n <= Expected(req[v])
  BY SMTT(30), <1>2 DEF Expected
<1>5. job' = [job EXCEPT ![v].pc = "push", ![v].consumed = c + n, ![v].pend = b]
  BY <1>1 DEF TypeInv, Job
<1>6. job[v].replies = <<>>
  BY SMTT(30), <1>1 DEF WorkerInv, ReplyInv, Feeding
<1>7. PICK d \in Nat : d = c + n
  BY SMTT(30), <1>4
<1> HIDE DEF b
<1>8. JobIs(v, "push", b, d, job[v].buf, job[v].sent, job[v].replies)
  BY ZenonT(60), <1>1, <1>3, <1>5, <1>7, SetPulled DEF Place
<1>9. /\ job' \in [Worker -> Job] /\ \A w \in Worker \ {v} : job'[w] = job[w]
      /\ job'[v].pc = "push" /\ job'[v].consumed = d
      /\ job'[v].buf = job[v].buf /\ job'[v].sent = job[v].sent
      /\ job'[v].replies = <<>> /\ job'[v].pend = b
  BY <1>6, <1>8 DEF JobIs
<1>10. ReplyInv(v)'
  BY <1>9 DEF ReplyInv, Feeding, Over
<1>11. HoldInv(v)'
  BY <1>1, <1>9 DEF WorkerInv, HoldInv, Alive, Feeding
<1>12. BodyInv(v)'
  <2>1. job'[v].replies # <<200>>
    BY <1>9, NotAnswered
  <2>2. d <= Expected(req[v])
    BY <1>4, <1>7, Zenon
  <2> QED BY <1>2, <1>9, <2>1, <2>2 DEF BodyInv, Before
<1>13. InputInv(v)'
  <2> DEFINE f == Len(kid[v].eaten) + Len(input[v])
  <2>1. /\ Up(kid[v].eaten, 0) /\ Up(input[v], Len(kid[v].eaten))
    BY <1>1 DEF WorkerInv, InputInv
  <2>2. ASSUME hold[v].inR # {} PROVE Up(b, f) /\ f + Len(b) = d
    <3>1. job[v].pend = <<>> /\ f + Len(job[v].pend) = c
      BY <1>1, <2>2 DEF WorkerInv, InputInv, Feeding
    <3>2. f \in Nat
      BY <1>1, FedFacts
    <3> HIDE DEF f, c
    <3>3. f = c
      BY <3>1, <3>2, UpEmpty
    <3> QED BY <1>3, <1>7, <3>3
  <2> QED BY <1>9, <2>1, <2>2 DEF InputInv, Before
<1>14. OutputInv(v)'
  BY <1>1, <1>9 DEF WorkerInv, OutputInv, Over
<1>15. RoomInv(v)'
  BY <1>1, <1>9 DEF WorkerInv, RoomInv
<1>16. WorkerInv(v)'
  BY <1>1, <1>10, <1>11, <1>12, <1>13, <1>14, <1>15 DEF WorkerInv
<1> QED BY ZenonT(60), <1>9, <1>16, JobOnly

LEMMA PullInv ==
  ASSUME IInv, NEW v \in Worker, Pull(v)
  PROVE  IInv'
<1> DEFINE left == req[v].length - job[v].consumed
<1>1. job[v].pc = "pull" /\ UNCHANGED <<req, kid, hold, input, output, gone, stop>>
  BY DEF Pull
<1>2. job[v].consumed \in Nat /\ req[v].length \in Int
  BY JobFacts, RequestFacts DEF IInv, WorkerInv
<1>3. CASE left = 0 /\ Goto(v, "closeIn")
  <2>1. job[v].consumed = req[v].length
    BY <1>2, <1>3
  <2> QED BY <1>1, <1>3, <2>1, OnwardInv
<1>4. CASE Fail(v, <<577>>)
  <2>1. 577 \in Codes \ {200} /\ job[v].pc \in Feeding \cup {"closeIn", "head"}
    BY <1>1 DEF Codes, Feeding
  <2> QED BY <1>1, <1>4, <2>1, FailOnly
<1>5. CASE \E n \in 1 .. left : n <= Chunk /\
             job' = [job EXCEPT ![v].pc = "push", ![v].consumed = @ + n,
                                ![v].pend = [j \in 1 .. n |-> job[v].consumed + j]]
  <2>1. PICK n \in 1 .. left :
             job' = [job EXCEPT ![v].pc = "push", ![v].consumed = @ + n,
                                ![v].pend = [j \in 1 .. n |-> job[v].consumed + j]]
    BY <1>5
  <2>2. n \in Nat /\ n <= left
    BY <1>2
  <2> QED BY <1>1, <2>1, <2>2, PullPieceInv
<1> QED BY ZenonT(60), <1>3, <1>4, <1>5 DEF Pull

LEMMA CloseInInv ==
  ASSUME IInv, NEW v \in Worker, CloseIn(v)
  PROVE  IInv'
<1>1. TypeInv /\ WorkerInv(v)
  BY DEF IInv
<1>2. /\ job[v].pc = "closeIn" /\ UNCHANGED <<req, kid, input, output, gone, stop>>
      /\ Goto(v, "head")
  BY DEF CloseIn
<1>3. /\ hold' \in [Worker -> [End -> SUBSET Process]]
      /\ \A w \in Worker \ {v} : hold'[w] = hold[w]
      /\ v \in hold[v].outW => v \in hold'[v].outW
  <2> DEFINE es == {"inW"}
  <2>1. es \subseteq End
    BY DEF End
  <2>2. hold' = Close(v, es)
    BY DEF CloseIn
  <2> HIDE DEF es
  <2> QED BY <1>1, <2>1, <2>2, CloseFacts
<1>4. JobIs(v, "head", job[v].pend, job[v].consumed, job[v].buf, job[v].sent, job[v].replies)
  BY <1>1, <1>2, GotoFacts DEF Place
<1>5. job[v].replies = <<>>
  BY <1>1, <1>2 DEF WorkerInv, ReplyInv
<1>6. /\ job' \in [Worker -> Job] /\ \A w \in Worker \ {v} : job'[w] = job[w]
      /\ job'[v].pc = "head" /\ job'[v].consumed = job[v].consumed
      /\ job'[v].buf = job[v].buf /\ job'[v].sent = job[v].sent
      /\ job'[v].replies = <<>>
  BY <1>4, <1>5 DEF JobIs
<1>7. ReplyInv(v)'
  BY <1>6 DEF ReplyInv, Feeding, Over
<1>8. HoldInv(v)'
  BY <1>1, <1>2, <1>3, <1>6 DEF WorkerInv, HoldInv, Alive, Feeding
<1>9. BodyInv(v)'
  BY <1>1, <1>2, <1>6 DEF WorkerInv, BodyInv, Before, Feeding
<1>10. InputInv(v)'
  BY <1>1, <1>2, <1>6 DEF WorkerInv, InputInv, Before, Feeding
<1>11. OutputInv(v)'
  BY <1>1, <1>2, <1>6 DEF WorkerInv, OutputInv, Over
<1>12. RoomInv(v)'
  BY <1>1, <1>2, <1>6 DEF WorkerInv, RoomInv
<1>13. WorkerInv(v)'
  BY <1>1, <1>2, <1>7, <1>8, <1>9, <1>10, <1>11, <1>12 DEF WorkerInv
<1>14. TypeInv'
  BY <1>1, <1>2, <1>3, <1>6 DEF TypeInv
<1>15. \A w \in Worker \ {v} : Untouched(w)
  BY <1>2, <1>3, <1>6 DEF Untouched
<1> QED BY <1>13, <1>14, <1>15, Assemble

\* No more is read than there is room for.
LEMMA LeastRoom ==
  ASSUME NEW l \in Nat, NEW b \in Nat, b < Buf, NEW n, n = Min({l, Buf - b})
  PROVE  n \in Nat /\ n <= l /\ b + n <= Buf /\ n \in 0 .. l
<1>1. Buf \in Nat /\ Buf - b \in Int /\ Buf - b >= 0
  BY Bounds
<1>2. n = IF l <= Buf - b THEN l ELSE Buf - b
  BY <1>1, MinOfTwo
<1> QED BY <1>1, <1>2

LEMMA RoomFacts ==
  /\ Buf <= Max({Buf, Chunk}) /\ Chunk <= Max({Buf, Chunk}) /\ Max({Buf, Chunk}) \in Nat
  /\ Buf \in Nat /\ Chunk \in Nat /\ Cap \in Nat
<1>1. Buf \in Nat /\ Chunk \in Nat /\ Cap \in Nat
  BY Bounds
<1>2. Max({Buf, Chunk}) = IF Buf >= Chunk THEN Buf ELSE Chunk
  BY <1>1, MaxOfTwo
<1> QED BY <1>1, <1>2

\* Sent, buffered and still in the pipe, the output is in order.
LEMMA StreamFacts ==
  ASSUME TypeInv, NEW w \in Worker, WorkerInv(w), job[w].pc \in {"head", "relay"}
  PROVE  /\ job[w].sent \in Seq(Nat) /\ job[w].buf \in Seq(Nat) /\ output[w] \in Seq(Nat)
         /\ Len(job[w].sent) \in Nat /\ Len(job[w].buf) \in Nat /\ Len(output[w]) \in Nat
         /\ Len(job[w].sent) + Len(job[w].buf) \in Nat
         /\ Up(job[w].sent, 0) /\ Up(job[w].buf, Len(job[w].sent))
         /\ Up(output[w], Len(job[w].sent) + Len(job[w].buf))
<1> DEFINE s == Len(job[w].sent)
           b == Len(job[w].buf)
<1>1. /\ job[w].sent \in Seq(Nat) /\ job[w].buf \in Seq(Nat) /\ output[w] \in Seq(Nat)
      /\ s \in Nat /\ b \in Nat /\ Len(output[w]) \in Nat
  BY JobFacts, KidFacts
<1>2. /\ Up(job[w].sent, 0) /\ Up(job[w].buf, s) /\ Up(output[w], s + b)
  BY DEF WorkerInv, OutputInv, Over
<1> HIDE DEF s, b
<1>3. s + b \in Nat
  BY <1>1
<1> QED BY <1>1, <1>2, <1>3 DEF s, b

\* What moves from the pipe to the buffer is counted once.
LEMMA MovedSum ==
  ASSUME NEW s \in Nat, NEW b \in Nat, NEW l \in Nat, NEW n \in Nat,
         NEW x, NEW y, x = b + n, y = l - n
  PROVE  s + x = s + b + n /\ s + x + y = s + b + l
  OBVIOUS

\* n cells move from the pipe to the buffer, in order: u and r are what becomes of them.
Moved(w, n, u, r) ==
  LET s == Len(job[w].sent)
      b == Len(job[w].buf) IN
  /\ n <= Len(output[w]) /\ b + n <= Max({Buf, Chunk})
  /\ Len(u) = b + n /\ Up(u, s)
  /\ Len(r) = Len(output[w]) - n /\ Up(r, s + b + n)

\* Printed cells that move from the pipe to the buffer stay in order.
LEMMA GatherFacts ==
  ASSUME IInv, NEW v \in Worker, job[v].pc \in {"head", "relay"},
         NEW n \in Nat, NEW u \in Seq(Nat), NEW r \in Seq(Nat), Moved(v, n, u, r),
         job' = [job EXCEPT ![v].buf = u], output' = [output EXCEPT ![v] = r],
         UNCHANGED <<req, kid, hold, input, gone, stop>>
  PROVE  IInv'
<1>1. TypeInv /\ WorkerInv(v)
  BY DEF IInv
<1> DEFINE s == Len(job[v].sent)
           b == Len(job[v].buf)
           l == Len(output[v])
<1>2. s \in Nat /\ b \in Nat /\ l \in Nat /\ n \in Nat /\ n <= l
  BY <1>1, StreamFacts DEF Moved
<1>3. /\ Up(job[v].sent, 0) /\ s + b + l = kid[v].written
      /\ kid[v].written <= req[v].program.head + req[v].program.rest
      /\ job[v].pc = "head" => job[v].sent = <<>>
  BY <1>1 DEF WorkerInv, OutputInv, Over
<1>4. /\ Len(u) = b + n /\ Up(u, s) /\ Len(r) = l - n /\ Up(r, s + b + n)
  BY DEF Moved
<1>6. JobIs(v, job[v].pc, job[v].pend, job[v].consumed, u, job[v].sent, job[v].replies)
  BY <1>1, SetBuf
<1>7. /\ job' \in [Worker -> Job] /\ \A w \in Worker \ {v} : job'[w] = job[w]
      /\ job'[v].pc = job[v].pc /\ job'[v].consumed = job[v].consumed
      /\ job'[v].buf = u /\ job'[v].sent = job[v].sent
      /\ job'[v].replies = job[v].replies
  BY <1>6 DEF JobIs
<1>8. /\ output' \in [Worker -> Seq(Nat)] /\ output'[v] = r
      /\ \A w \in Worker \ {v} : output'[w] = output[w]
  BY <1>1 DEF TypeInv
<1>9. ReplyInv(v)'
  BY <1>1, <1>7 DEF WorkerInv, ReplyInv
<1>10. HoldInv(v)'
  BY <1>1, <1>7 DEF WorkerInv, HoldInv, Alive
<1>11. BodyInv(v)'
  BY <1>1, <1>7 DEF WorkerInv, BodyInv
<1>12. InputInv(v)'
  BY <1>1, <1>7 DEF WorkerInv, InputInv, Before, Feeding
<1>13. OutputInv(v)'
  <2>1. Up(r, s + Len(u)) /\ s + Len(u) + Len(r) = kid[v].written
    <3>1. s \in Nat /\ b \in Nat /\ l \in Nat /\ n \in Nat /\ s + b + l = kid[v].written
          /\ Len(u) = b + n /\ Len(r) = l - n
      BY <1>2, <1>3, <1>4
    <3> HIDE DEF s, b, l
    <3>2. s + Len(u) = s + b + n /\ s + Len(u) + Len(r) = s + b + l
      BY <3>1, MovedSum
    <3> QED BY <1>4, <3>1, <3>2
  <2> QED BY <1>3, <1>4, <1>7, <1>8, <2>1 DEF OutputInv, Over
<1>14. RoomInv(v)'
  <2>1. Len(input[v]) <= Cap /\ l <= Cap
    BY <1>1 DEF WorkerInv, RoomInv
  <2>2. Len(u) <= Max({Buf, Chunk})
    BY <1>4 DEF Moved
  <2>3. Len(r) <= Cap
    <3>1. l \in Nat /\ n \in Nat /\ Cap \in Nat /\ Len(r) = l - n /\ l <= Cap
      BY <1>2, <1>4, <2>1, RoomFacts
    <3> HIDE DEF l
    <3> QED BY <3>1
  <2> QED BY <1>7, <1>8, <2>1, <2>2, <2>3 DEF RoomInv
<1>15. WorkerInv(v)'
  BY <1>1, <1>9, <1>10, <1>11, <1>12, <1>13, <1>14 DEF WorkerInv
<1>16. TypeInv'
  BY <1>1, <1>7, <1>8 DEF TypeInv
<1>17. \A w \in Worker \ {v} : Untouched(w)
  BY <1>7, <1>8 DEF Untouched
<1> QED BY <1>15, <1>16, <1>17, Assemble

LEMMA ReadHeadInv ==
  ASSUME IInv, NEW v \in Worker, ReadHead(v)
  PROVE  IInv'
<1>1. TypeInv /\ job[v].pc = "head" /\ UNCHANGED <<req, kid, hold, input, gone, stop>>
  BY DEF ReadHead, IInv
<1>2. CASE Fail(v, <<500>>) /\ UNCHANGED output
  <2>1. 500 \in Codes \ {200} /\ job[v].pc \in Feeding \cup {"closeIn", "head"}
    BY <1>1 DEF Codes
  <2> QED BY <1>1, <1>2, <2>1, FailOnly
<1>3. CASE LET n == Min({Len(output[v]), Buf - Len(job[v].buf)}) IN
             /\ job' = [job EXCEPT ![v].buf = @ \o SubSeq(output[v], 1, n)]
             /\ output' = [output EXCEPT ![v] = SubSeq(@, n + 1, Len(@))]
  <2> DEFINE n == Min({Len(output[v]), Buf - Len(job[v].buf)})
             u == job[v].buf \o SubSeq(output[v], 1, n)
             r == SubSeq(output[v], n + 1, Len(output[v]))
             b == Len(job[v].buf)
  <2>1. WorkerInv(v)
    BY DEF IInv
  <2>2. /\ Len(output[v]) \in Nat /\ b \in Nat /\ Len(job[v].sent) \in Nat /\ b < Buf
        /\ job[v].buf \in Seq(Nat) /\ output[v] \in Seq(Nat)
        /\ Up(job[v].buf, Len(job[v].sent)) /\ Up(output[v], Len(job[v].sent) + b)
    BY <1>1, <2>1, StreamFacts DEF ReadHead
  <2>3. n \in Nat /\ b + n <= Buf /\ n <= Len(output[v]) /\ n \in 0 .. Len(output[v])
    BY <2>2, LeastRoom
  <2>4. job' = [job EXCEPT ![v].buf = u] /\ output' = [output EXCEPT ![v] = r]
    BY <1>1, <1>3 DEF TypeInv, Job
  <2>5. u \in Seq(Nat) /\ Len(u) = b + n /\ Up(u, Len(job[v].sent))
    <3> HIDE DEF n
    <3> QED BY <2>2, <2>3, UpMove
  <2>6. r \in Seq(Nat) /\ Len(r) = Len(output[v]) - n /\ Up(r, Len(job[v].sent) + b + n)
    <3> HIDE DEF n
    <3>1. r \in Seq(Nat) /\ Len(r) = Len(output[v]) - n
      BY SMTT(30), <2>2, <2>3, CutFacts
    <3>2. Up(r, Len(job[v].sent) + b + n)
      BY <2>2, <2>3, UpMove
    <3> QED BY <3>1, <3>2
  <2>7. b + n <= Max({Buf, Chunk})
    <3> HIDE DEF n, b
    <3> QED BY <2>2, <2>3, RoomFacts
  <2> HIDE DEF n, u, r
  <2>8. Moved(v, n, u, r)
    BY <2>3, <2>5, <2>6, <2>7 DEF Moved
  <2> QED BY <1>1, <2>3, <2>4, <2>5, <2>6, <2>8, GatherFacts
<1> QED BY <1>2, <1>3 DEF ReadHead

LEMMA TooBigInv ==
  ASSUME IInv, NEW v \in Worker, TooBig(v)
  PROVE  IInv'
<1>1. /\ job[v].pc = "head" /\ Fail(v, <<500>>)
      /\ UNCHANGED <<req, kid, hold, input, output, gone, stop>>
  BY DEF TooBig
<1>2. 500 \in Codes \ {200} /\ job[v].pc \in Feeding \cup {"closeIn", "head"}
  BY <1>1 DEF Codes
<1> QED BY <1>1, <1>2, FailOnly

LEMMA GatherInv ==
  ASSUME IInv, NEW v \in Worker, Gather(v)
  PROVE  IInv'
<1>1. /\ TypeInv /\ WorkerInv(v) /\ job[v].pc = "relay" /\ output[v] # <<>>
      /\ UNCHANGED <<req, kid, hold, input, gone, stop>>
  BY DEF Gather, IInv
<1> DEFINE h == Head(output[v])
           r == Tail(output[v])
           u == Append(job[v].buf, h)
           b == Len(job[v].buf)
           s == Len(job[v].sent)
<1>2. /\ output[v] \in Seq(Nat) /\ job[v].buf \in Seq(Nat) /\ s \in Nat /\ b \in Nat
      /\ Len(output[v]) \in Nat /\ s + b \in Nat /\ b < Chunk
      /\ Up(job[v].buf, s) /\ Up(output[v], s + b)
  BY <1>1, StreamFacts DEF Gather
<1>3. PICK f \in Nat : f = s + b
  BY <1>2
<1>4. /\ h = f + 1 /\ r \in Seq(Nat) /\ Len(r) = Len(output[v]) - 1
      /\ Len(output[v]) >= 1 /\ Up(r, f + 1)
  BY <1>1, <1>2, <1>3, UpTail
<1>5. u \in Seq(Nat) /\ Len(u) = b + 1 /\ Up(u, s)
  <2>1. h = s + b + 1
    BY <1>3, <1>4
  <2> QED BY <1>2, <2>1, UpAppend
<1>6. job' = [job EXCEPT ![v].buf = u] /\ output' = [output EXCEPT ![v] = r]
  BY <1>1 DEF Gather, TypeInv, Job
<1>7. b + 1 <= Max({Buf, Chunk})
  <2> HIDE DEF b
  <2> QED BY <1>2, RoomFacts
<1>8. Up(r, s + b + 1) /\ 1 <= Len(output[v]) /\ 1 \in Nat
  BY <1>2, <1>3, <1>4
<1> HIDE DEF h, r, u
<1>9. Moved(v, 1, u, r)
  BY <1>4, <1>5, <1>7, <1>8 DEF Moved
<1> QED BY <1>1, <1>4, <1>5, <1>6, <1>8, <1>9, GatherFacts

LEMMA MovedZero ==
  ASSUME NEW b \in Nat, NEW l \in Nat
  PROVE  0 + b = b + 0 /\ 0 + b + l = b + 0 + l
  OBVIOUS

\* The headers are complete: what has been read goes to the client.
LEMMA ReplyStepInv ==
  ASSUME IInv, NEW v \in Worker, Reply(v)
  PROVE  IInv'
<1>1. /\ TypeInv /\ WorkerInv(v) /\ job[v].pc = "head"
      /\ UNCHANGED <<req, kid, hold, input, output, gone, stop>>
  BY DEF Reply, IInv
<1>2. job[v].replies = <<>> /\ job[v].sent = <<>>
  BY <1>1 DEF WorkerInv, ReplyInv, OutputInv, Over
<1>3. job[v].buf \in Seq(Nat) /\ Len(job[v].buf) \in Nat
  BY <1>1, JobFacts
<1>4. Append(job[v].replies, 200) = <<200>>
  BY <1>2, AppendTwo
<1>5. JobIs(v, "relay", job[v].pend, job[v].consumed, <<>>, job[v].buf, <<200>>)
  <2>1. job' = [job EXCEPT ![v].pc = "relay", ![v].buf = <<>>, ![v].replies = <<200>>,
                           ![v].sent = job[v].buf]
    BY <1>1, <1>4 DEF Reply, TypeInv, Job
  <2>2. "relay" \in Place /\ <<>> \in Seq(Nat) /\ <<200>> \in Seq(Codes)
    BY DEF Place, Codes
  <2> QED BY ZenonT(60), <1>1, <1>3, <2>1, <2>2, SetReply
<1>6. /\ job' \in [Worker -> Job] /\ \A w \in Worker \ {v} : job'[w] = job[w]
      /\ job'[v].pc = "relay" /\ job'[v].consumed = job[v].consumed
      /\ job'[v].buf = <<>> /\ job'[v].sent = job[v].buf /\ job'[v].replies = <<200>>
  BY <1>5 DEF JobIs
<1>7. ReplyInv(v)'
  BY <1>6 DEF ReplyInv, Feeding, Over
<1>8. HoldInv(v)'
  BY <1>1, <1>6 DEF WorkerInv, HoldInv, Alive, Feeding
<1>9. BodyInv(v)'
  BY <1>1, <1>6 DEF WorkerInv, BodyInv, Before, Feeding
<1>10. InputInv(v)'
  BY <1>1, <1>6 DEF WorkerInv, InputInv, Before, Feeding
<1>11. OutputInv(v)'
  <2> DEFINE b == Len(job[v].buf)
             l == Len(output[v])
  <2>1. Len(job[v].sent) = 0
    BY <1>2, UpEmpty
  <2>2. /\ Up(job[v].buf, 0) /\ Up(output[v], 0 + b) /\ 0 + b + l = kid[v].written
        /\ kid[v].written <= req[v].program.head + req[v].program.rest
    BY <1>1, <2>1 DEF WorkerInv, OutputInv, Over
  <2>3. b \in Nat /\ l \in Nat
    BY <1>1, JobFacts, KidFacts
  <2>4. 0 + b = b + 0 /\ 0 + b + l = b + 0 + l
    BY <2>3, MovedZero
  <2>5. Up(output[v], b + 0) /\ b + 0 + l = kid[v].written
    BY <2>2, <2>4, Zenon
  <2>6. Up(<<>>, b) /\ Len(<<>>) = 0
    BY UpEmpty
  <2> QED BY ZenonT(60), <1>1, <1>6, <2>2, <2>5, <2>6 DEF OutputInv, Over
<1>12. RoomInv(v)'
  <2>1. Len(<<>>) <= Max({Buf, Chunk})
    BY RoomFacts, UpEmpty
  <2> QED BY <1>1, <1>6, <2>1 DEF WorkerInv, RoomInv
<1>13. WorkerInv(v)'
  BY <1>1, <1>7, <1>8, <1>9, <1>10, <1>11, <1>12 DEF WorkerInv
<1> QED BY <1>1, <1>6, <1>13, JobOnly

\* A piece is sent, or dropped with the client gone; the last one ends the request.
LEMMA RelayInv ==
  ASSUME IInv, NEW v \in Worker, Relay(v)
  PROVE  IInv'
<1>1. /\ TypeInv /\ WorkerInv(v) /\ job[v].pc = "relay"
      /\ UNCHANGED <<req, kid, hold, input, output, gone, stop>>
      /\ Len(job[v].buf) = Chunk \/ (output[v] = <<>> /\ hold[v].outW = {})
  BY DEF Relay, IInv
<1> DEFINE s == Len(job[v].sent)
           b == Len(job[v].buf)
           l == Len(output[v])
           a == IF job[v].buf = <<>> \/ v \in gone THEN "done" ELSE "relay"
           d == IF v \in gone THEN job[v].sent ELSE job[v].sent \o job[v].buf
<1>2. /\ job[v].sent \in Seq(Nat) /\ job[v].buf \in Seq(Nat) /\ s \in Nat /\ b \in Nat
      /\ l \in Nat /\ Up(job[v].sent, 0) /\ Up(job[v].buf, s) /\ Up(output[v], s + b)
  BY <1>1, StreamFacts
<1>3. s + b + l = kid[v].written /\ job[v].replies = <<200>>
      /\ kid[v].written <= req[v].program.head + req[v].program.rest
  BY ZenonT(60), <1>1 DEF WorkerInv, OutputInv, ReplyInv, Over
<1>4. LET c == job[v].sent \o job[v].buf IN c \in Seq(Nat) /\ Len(c) = s + b /\ Up(c, 0)
  <2>1. 0 + s = s /\ 0 \in Nat
    BY <1>2
  <2>2. Up(job[v].buf, 0 + s)
    BY <1>2, <2>1
  <2> QED BY <1>2, <2>1, <2>2, UpConcat
<1>5. d \in Seq(Nat) /\ Up(d, 0) /\ Len(d) = IF v \in gone THEN s ELSE s + b
  BY <1>2, <1>4
<1>6. a \in Place /\ (a = "done" \/ a = "relay") /\ <<>> \in Seq(Nat)
  BY DEF Place
<1>7. job' = [job EXCEPT ![v].pc = a, ![v].sent = d, ![v].buf = <<>>]
  BY <1>1 DEF Relay, TypeInv, Job
<1> HIDE DEF d
<1>8. JobIs(v, a, job[v].pend, job[v].consumed, <<>>, d, job[v].replies)
  <2> HIDE DEF a
  <2> QED BY <1>1, <1>5, <1>6, <1>7, SetSent
<1>9. /\ job' \in [Worker -> Job] /\ \A w \in Worker \ {v} : job'[w] = job[w]
      /\ job'[v].pc = a /\ job'[v].consumed = job[v].consumed
      /\ job'[v].buf = <<>> /\ job'[v].sent = d /\ job'[v].replies = <<200>>
  BY <1>3, <1>8 DEF JobIs
<1>10. ReplyInv(v)'
  BY <1>6, <1>9 DEF ReplyInv, Feeding, Over, Codes
<1>11. HoldInv(v)'
  BY <1>1, <1>6, <1>9 DEF WorkerInv, HoldInv, Alive, Feeding
<1>12. BodyInv(v)'
  BY <1>1, <1>3, <1>6, <1>9 DEF WorkerInv, BodyInv, Before, Feeding
<1>13. InputInv(v)'
  BY <1>1, <1>6, <1>9 DEF WorkerInv, InputInv, Before, Feeding
<1>14. OutputInv(v)'
  <2>1. CASE v \in gone
    <3>1. a = "done" /\ Len(d) = s
      BY <1>5, <2>1
    <3>2. s <= kid[v].written
      BY <1>1, SentSoFar DEF WorkerInv, Over
    <3> QED BY <1>1, <1>3, <1>5, <1>9, <2>1, <3>1, <3>2 DEF OutputInv, Over
  <2>2. CASE v \notin gone /\ job[v].buf = <<>>
    <3>1. a = "done" /\ b = 0 /\ Len(d) = s + b
      BY <1>5, <2>2, UpEmpty
    <3>2. output[v] = <<>> /\ hold[v].outW = {}
      <4>1. Chunk # 0
        BY Bounds
      <4> QED BY <1>1, <3>1, <4>1
    <3>3. l = 0
      BY <3>2, UpEmpty
    <3>4. Len(d) = kid[v].written /\ Len(d) <= kid[v].written
      <4>1. s \in Nat /\ b = 0 /\ l = 0 /\ s + b + l = kid[v].written /\ Len(d) = s + b
        BY <1>2, <1>3, <3>1, <3>3
      <4> HIDE DEF s, b, l
      <4> QED BY <4>1
    <3>5. ~Alive(v)
      BY <1>1, <3>2 DEF WorkerInv, HoldInv
    <3> QED BY <1>1, <1>3, <1>5, <1>9, <3>1, <3>4, <3>5 DEF OutputInv, Over, Alive
  <2>3. CASE v \notin gone /\ job[v].buf # <<>>
    <3>1. a = "relay" /\ Len(d) = s + b
      BY <1>5, <2>3
    <3>2. Up(<<>>, Len(d)) /\ Len(<<>>) = 0
      BY UpEmpty
    <3>3. Len(d) + 0 = s + b /\ Len(d) + 0 + l = s + b + l
      <4>1. s \in Nat /\ b \in Nat /\ l \in Nat /\ Len(d) = s + b
        BY <1>2, <3>1
      <4> HIDE DEF s, b, l
      <4> QED BY <4>1
    <3>4. Up(output[v], Len(d) + 0) /\ Len(d) + 0 + l = kid[v].written
      BY <1>2, <1>3, <3>3
    <3> QED BY ZenonT(60), <1>1, <1>3, <1>5, <1>9, <3>1, <3>2, <3>4 DEF OutputInv, Over
  <2> QED BY <2>1, <2>2, <2>3
<1>15. RoomInv(v)'
  <2>1. Len(<<>>) <= Max({Buf, Chunk})
    BY RoomFacts, UpEmpty
  <2> QED BY <1>1, <1>9, <2>1 DEF WorkerInv, RoomInv
<1>16. WorkerInv(v)'
  BY <1>1, <1>10, <1>11, <1>12, <1>13, <1>14, <1>15 DEF WorkerInv
<1> QED BY <1>1, <1>9, <1>16, JobOnly

\* The label done: the server closes what it holds and kills the child.
LEMMA DoneInv ==
  ASSUME IInv, NEW v \in Worker, Done(v)
  PROVE  IInv'
<1>1. /\ TypeInv /\ WorkerInv(v) /\ job[v].pc = "done"
      /\ UNCHANGED <<req, input, output, gone, stop>> /\ Goto(v, "end")
  BY DEF Done, IInv
<1> DEFINE h == Close(v, End)
<1>2. /\ h \in [Worker -> [End -> SUBSET Process]]
      /\ \A w \in Worker \ {v} : h[w] = hold[w]
      /\ \A e \in End : h[v][e] = hold[v][e] \ {"server"}
  BY <1>1 DEF Close, TypeInv
<1>3. hold' = IF kid[v].state = "none" THEN h ELSE Drop(v, h)
  BY DEF Done
<1> HIDE DEF h
<1>4. /\ hold' \in [Worker -> [End -> SUBSET Process]]
      /\ \A w \in Worker, e \in End : hold'[w][e] = h[w][e] \/ hold'[w][e] = h[w][e] \ {v}
  <2>1. CASE kid[v].state = "none"
    BY <1>2, <1>3, <2>1
  <2>2. CASE kid[v].state # "none"
    BY <1>2, <1>3, <2>2, DropFacts
  <2> QED BY <2>1, <2>2
<1>5. /\ kid' \in [Worker -> Kid] /\ \A w \in Worker \ {v} : kid'[w] = kid[w]
      /\ kid'[v].eaten = kid[v].eaten /\ kid'[v].written = kid[v].written
      /\ kid'[v].state = IF kid[v].state = "none" THEN "none" ELSE "dead"
  <2> DEFINE x == IF kid[v].state = "none" THEN "none" ELSE "dead"
  <2>1. kid' = [kid EXCEPT ![v].state = x]
    BY <1>1 DEF Done, TypeInv, Kid
  <2>2. x \in {"none", "forked", "running", "dead"}
    OBVIOUS
  <2> HIDE DEF x
  <2>3. /\ kid' \in [Worker -> Kid] /\ \A w \in Worker \ {v} : kid'[w] = kid[w]
        /\ kid'[v].eaten = kid[v].eaten /\ kid'[v].written = kid[v].written
        /\ kid'[v].state = x
    BY <1>1, <2>1, <2>2 DEF TypeInv, Kid
  <2> QED BY <2>3 DEF x
<1>6. JobIs(v, "end", job[v].pend, job[v].consumed, job[v].buf, job[v].sent, job[v].replies)
  BY <1>1, GotoFacts DEF Place
<1>7. /\ job' \in [Worker -> Job] /\ \A w \in Worker \ {v} : job'[w] = job[w]
      /\ job'[v].pc = "end" /\ job'[v].consumed = job[v].consumed
      /\ job'[v].buf = job[v].buf /\ job'[v].sent = job[v].sent
      /\ job'[v].replies = job[v].replies
  BY <1>6 DEF JobIs
<1>8. ~Alive(v)'
  BY <1>5 DEF Alive
<1>9. ReplyInv(v)'
  BY <1>1, <1>5, <1>7 DEF WorkerInv, ReplyInv, Feeding, Over
<1>10. HoldInv(v)'
  <2>1. \A e \in End : "server" \notin hold'[v][e]
    BY <1>2, <1>4
  <2> QED BY <1>7, <1>8, <2>1 DEF HoldInv, Feeding
<1>11. BodyInv(v)'
  BY <1>1, <1>7 DEF WorkerInv, BodyInv, Before, Feeding
<1>12. InputInv(v)'
  BY <1>1, <1>5, <1>7 DEF WorkerInv, InputInv, Before, Feeding
<1>13. OutputInv(v)'
  BY <1>1, <1>5, <1>7, <1>8 DEF WorkerInv, OutputInv, Over
<1>14. RoomInv(v)'
  BY <1>1, <1>7 DEF WorkerInv, RoomInv
<1>15. WorkerInv(v)'
  BY <1>1, <1>9, <1>10, <1>11, <1>12, <1>13, <1>14 DEF WorkerInv
<1>16. TypeInv'
  BY <1>1, <1>4, <1>5, <1>7 DEF TypeInv
<1>17. \A w \in Worker \ {v} : Untouched(w)
  <2> SUFFICES ASSUME NEW w \in Worker \ {v} PROVE Untouched(w)
    OBVIOUS
  <2>1. ASSUME NEW e \in End
        PROVE  /\ "server" \in hold'[w][e] <=> "server" \in hold[w][e]
               /\ hold[w][e] = {} => hold'[w][e] = {}
               /\ w \in hold[w][e] => w \in hold'[w][e]
    <3>1. w \in Worker /\ (hold'[w][e] = hold[w][e] \/ hold'[w][e] = hold[w][e] \ {v})
      BY <1>2, <1>4
    <3>2. w # v /\ "server" # v
      BY Bounds
    <3>3. CASE hold'[w][e] = hold[w][e]
      BY <3>3
    <3>4. CASE hold'[w][e] = hold[w][e] \ {v}
      BY <3>2, <3>4
    <3> QED BY <3>1, <3>3, <3>4
  <2> QED BY <1>1, <1>5, <1>7, <2>1 DEF Untouched
<1> QED BY <1>15, <1>16, <1>17, Assemble

-----------------------------------------------------------------------------
(* The steps of the child, the clients and the application *)

\* A child that is no more: nothing it printed or read is lost.
LEMMA DiesInv ==
  ASSUME IInv, NEW v \in Worker, Dies(v), Alive(v)
  PROVE  IInv'
<1>1. /\ TypeInv /\ WorkerInv(v) /\ hold' = Drop(v, hold)
      /\ UNCHANGED <<req, job, input, output, gone, stop>>
  BY DEF Dies, IInv
<1>2. /\ hold' \in [Worker -> [End -> SUBSET Process]]
      /\ \A w \in Worker, e \in End : hold'[w][e] = hold[w][e] \ {v}
  <2>1. hold \in [Worker -> [End -> SUBSET Process]]
    BY <1>1 DEF TypeInv
  <2> QED BY <1>1, <2>1 DEF Drop
<1>3. /\ kid' \in [Worker -> Kid] /\ \A w \in Worker \ {v} : kid'[w] = kid[w]
      /\ kid'[v].eaten = kid[v].eaten /\ kid'[v].written = kid[v].written
      /\ kid'[v].state = "dead"
  BY <1>1 DEF Dies, TypeInv, Kid
<1>4. ~Alive(v)' /\ kid[v].state # "none"
  BY <1>3 DEF Alive
<1>5. ReplyInv(v)'
  BY <1>1, <1>3, <1>4 DEF WorkerInv, ReplyInv
<1>6. HoldInv(v)'
  <2>1. "inR" \in End /\ "outW" \in End /\ "server" # v
    BY Bounds DEF End
  <2>2. /\ hold'[v]["inR"] = hold[v]["inR"] \ {v} /\ hold'[v]["outW"] = hold[v]["outW"] \ {v}
    BY <1>2, <2>1
  <2>3. ~Alive(v)' /\ job'[v].pc # "end"
    BY <1>1, <1>4 DEF WorkerInv, HoldInv
  <2> QED BY <1>1, <2>1, <2>2, <2>3 DEF WorkerInv, HoldInv
<1>7. BodyInv(v)'
  BY <1>1 DEF WorkerInv, BodyInv
<1>8. InputInv(v)'
  <2>1. hold[v].inR = {} => hold'[v].inR = {}
    BY <1>2 DEF End
  <2> QED BY <1>1, <1>3, <2>1 DEF WorkerInv, InputInv
<1>9. OutputInv(v)'
  BY <1>1, <1>3, <1>4 DEF WorkerInv, OutputInv
<1>10. RoomInv(v)'
  BY <1>1 DEF WorkerInv, RoomInv
<1>11. WorkerInv(v)'
  BY <1>1, <1>5, <1>6, <1>7, <1>8, <1>9, <1>10 DEF WorkerInv
<1>12. TypeInv'
  BY <1>1, <1>2, <1>3 DEF TypeInv
<1>13. \A w \in Worker \ {v} : Untouched(w)
  <2> SUFFICES ASSUME NEW w \in Worker \ {v} PROVE Untouched(w)
    OBVIOUS
  <2>1. ASSUME NEW e \in End
        PROVE  /\ "server" \in hold'[w][e] <=> "server" \in hold[w][e]
               /\ hold[w][e] = {} => hold'[w][e] = {}
               /\ w \in hold[w][e] => w \in hold'[w][e]
    <3>1. w \in Worker /\ hold'[w][e] = hold[w][e] \ {v}
      BY <1>2
    <3>2. w # v /\ "server" # v
      BY Bounds
    <3> QED BY <3>1, <3>2
  <2> QED BY <1>1, <1>3, <2>1 DEF Untouched
<1> QED BY <1>11, <1>12, <1>13, Assemble

\* A step of a child that lives on, or that has just begun to run its program.
LEMMA KidOnly ==
  ASSUME IInv, NEW v \in Worker, kid' \in [Worker -> Kid],
         \A w \in Worker \ {v} : kid'[w] = kid[w],
         Alive(v), Alive(v)', kid'[v].eaten = kid[v].eaten,
         kid'[v].written = kid[v].written,
         UNCHANGED <<req, job, hold, input, output, gone, stop>>
  PROVE  IInv'
<1>1. TypeInv /\ WorkerInv(v)
  BY DEF IInv
<1>2. kid[v].state # "none" /\ kid'[v].state # "none"
  BY DEF Alive
<1>3. ReplyInv(v)'
  BY <1>1, <1>2 DEF WorkerInv, ReplyInv
<1>4. HoldInv(v)'
  BY <1>1 DEF WorkerInv, HoldInv
<1>5. BodyInv(v)'
  BY <1>1 DEF WorkerInv, BodyInv
<1>6. InputInv(v)'
  BY <1>1 DEF WorkerInv, InputInv
<1>7. OutputInv(v)'
  BY ZenonT(60), <1>1 DEF WorkerInv, OutputInv
<1>8. RoomInv(v)'
  BY <1>1 DEF WorkerInv, RoomInv
<1>9. WorkerInv(v)'
  BY <1>1, <1>3, <1>4, <1>5, <1>6, <1>7, <1>8 DEF WorkerInv
<1>10. TypeInv'
  BY <1>1 DEF TypeInv
<1>11. \A w \in Worker \ {v} : Untouched(w)
  BY DEF Untouched
<1> QED BY <1>9, <1>10, <1>11, Assemble

\* The steps of the child.
LEMMA ExecInv ==
  ASSUME IInv, NEW v \in Worker, Exec(v)
  PROVE  IInv'
<1>1. TypeInv /\ Alive(v)
  BY DEF Exec, IInv, Alive
<1>2. CASE /\ kid' = [kid EXCEPT ![v].state = "running"]
           /\ UNCHANGED <<req, job, hold, input, output, gone, stop>>
  <2>1. /\ kid' \in [Worker -> Kid] /\ \A w \in Worker \ {v} : kid'[w] = kid[w]
        /\ kid'[v].eaten = kid[v].eaten /\ kid'[v].written = kid[v].written
        /\ kid'[v].state = "running"
    BY <1>1, <1>2 DEF TypeInv, Kid
  <2>2. Alive(v)'
    BY <2>1 DEF Alive
  <2> QED BY <1>1, <1>2, <2>1, <2>2, KidOnly
<1>3. CASE Dies(v)
  BY <1>1, <1>3, DiesInv
<1> QED BY <1>2, <1>3 DEF Exec

LEMMA SetEaten ==
  ASSUME TypeInv, NEW w \in Worker, NEW b \in Seq(Nat), kid' = [kid EXCEPT ![w].eaten = b]
  PROVE  /\ kid' \in [Worker -> Kid] /\ \A v \in Worker \ {w} : kid'[v] = kid[v]
         /\ kid'[w].eaten = b /\ kid'[w].written = kid[w].written
         /\ kid'[w].state = kid[w].state
  BY DEF TypeInv, Kid

\* The program reads a cell: it moves on, from the pipe to the program.
LEMMA EatCellInv ==
  ASSUME IInv, NEW v \in Worker, kid[v].state = "running", input[v] # <<>>,
         kid' = [kid EXCEPT ![v].eaten = Append(@, Head(input[v]))],
         input' = [input EXCEPT ![v] = Tail(@)],
         UNCHANGED <<req, job, hold, output, gone, stop>>
  PROVE  IInv'
<1>1. TypeInv /\ WorkerInv(v)
  BY DEF IInv
<1> DEFINE h == Head(input[v])
           t == Tail(input[v])
           x == Append(kid[v].eaten, h)
           e == Len(kid[v].eaten)
           i == Len(input[v])
<1>2. kid[v].eaten \in Seq(Nat) /\ e \in Nat /\ i \in Nat /\ input[v] \in Seq(Nat)
  BY <1>1, KidFacts
<1>3. Up(kid[v].eaten, 0) /\ Up(input[v], e)
  BY <1>1 DEF WorkerInv, InputInv
<1>4. h = e + 1 /\ t \in Seq(Nat) /\ Len(t) = i - 1 /\ i >= 1 /\ Up(t, e + 1)
  BY <1>2, <1>3, UpTail
<1>5. x \in Seq(Nat) /\ Len(x) = e + 1 /\ Up(x, 0)
  <2>1. h = 0 + e + 1 /\ 0 \in Nat
    <3>1. h = e + 1 /\ e \in Nat
      BY <1>2, <1>4
    <3> HIDE DEF h, e
    <3> QED BY <3>1
  <2> QED BY <1>2, <1>3, <2>1, UpAppend
<1>6. kid' = [kid EXCEPT ![v].eaten = x] /\ input' = [input EXCEPT ![v] = t]
  BY <1>1 DEF TypeInv, Kid
<1> HIDE DEF h, t, x
<1>7. /\ kid' \in [Worker -> Kid] /\ \A w \in Worker \ {v} : kid'[w] = kid[w]
      /\ kid'[v].eaten = x /\ kid'[v].written = kid[v].written
      /\ kid'[v].state = kid[v].state
  BY <1>1, <1>5, <1>6, SetEaten
<1>8. /\ input' \in [Worker -> Seq(Nat)] /\ input'[v] = t
      /\ \A w \in Worker \ {v} : input'[w] = input[w]
  BY <1>1, <1>4, <1>6 DEF TypeInv
<1>9. ReplyInv(v)'
  BY <1>1, <1>7 DEF WorkerInv, ReplyInv
<1>10. HoldInv(v)'
  BY <1>1, <1>7 DEF WorkerInv, HoldInv, Alive
<1>11. BodyInv(v)'
  BY <1>1 DEF WorkerInv, BodyInv
<1>12. InputInv(v)'
  <2>1. Len(x) + Len(t) = e + i /\ Len(x) = e + 1
    <3>1. e \in Nat /\ i \in Nat /\ Len(x) = e + 1 /\ Len(t) = i - 1
      BY <1>2, <1>4, <1>5
    <3> HIDE DEF e, i
    <3> QED BY <3>1
  <2>2. Up(t, Len(x))
    BY <1>4, <2>1
  <2> QED BY <1>1, <1>5, <1>7, <1>8, <2>1, <2>2 DEF WorkerInv, InputInv
<1>13. OutputInv(v)'
  BY <1>1, <1>7 DEF WorkerInv, OutputInv, Alive
<1>14. RoomInv(v)'
  <2>1. Len(t) <= Cap
    <3>1. i \in Nat /\ Cap \in Nat /\ i <= Cap /\ Len(t) = i - 1
      BY <1>1, <1>2, <1>4, RoomFacts DEF WorkerInv, RoomInv
    <3> HIDE DEF i
    <3> QED BY <3>1
  <2> QED BY <1>1, <1>8, <2>1 DEF WorkerInv, RoomInv
<1>15. WorkerInv(v)'
  BY <1>1, <1>9, <1>10, <1>11, <1>12, <1>13, <1>14 DEF WorkerInv
<1>16. TypeInv'
  BY <1>1, <1>7, <1>8 DEF TypeInv
<1>17. \A w \in Worker \ {v} : Untouched(w)
  BY <1>7, <1>8 DEF Untouched
<1> QED BY <1>15, <1>16, <1>17, Assemble

LEMMA EatInv ==
  ASSUME IInv, NEW v \in Worker, Eat(v)
  PROVE  IInv'
<1>1. TypeInv /\ kid[v].state = "running" /\ Alive(v)
  BY DEF Eat, IInv, Alive
<1>2. CASE /\ input[v] # <<>>
           /\ kid' = [kid EXCEPT ![v].eaten = Append(@, Head(input[v]))]
           /\ input' = [input EXCEPT ![v] = Tail(@)]
           /\ UNCHANGED <<req, job, hold, output, gone, stop>>
  BY <1>1, <1>2, EatCellInv
<1>3. CASE /\ kid' = [kid EXCEPT ![v].sawEof = TRUE]
           /\ UNCHANGED <<req, job, hold, input, output, gone, stop>>
  <2>1. /\ kid' \in [Worker -> Kid] /\ \A w \in Worker \ {v} : kid'[w] = kid[w]
        /\ kid'[v].eaten = kid[v].eaten /\ kid'[v].written = kid[v].written
        /\ kid'[v].state = "running"
    BY <1>1, <1>3 DEF TypeInv, Kid
  <2>2. Alive(v)'
    BY <2>1 DEF Alive
  <2> QED BY <1>1, <1>3, <2>1, <2>2, KidOnly
<1>4. CASE Dies(v)
  BY <1>1, <1>4, DiesInv
<1> QED BY <1>2, <1>3, <1>4 DEF Eat

\* The program prints the next cell of what it has to say.
LEMMA PrintsInv ==
  ASSUME IInv, NEW v \in Worker, Prints(v)
  PROVE  IInv'
<1>1. /\ TypeInv /\ WorkerInv(v) /\ kid[v].state = "running" /\ Len(output[v]) < Cap
      /\ UNCHANGED <<req, job, hold, input, gone, stop>>
  BY DEF Prints, IInv
<1> DEFINE w0 == kid[v].written
           p == req[v].program
           s == Len(job[v].sent)
           b == Len(job[v].buf)
           l == Len(output[v])
<1>2. /\ w0 \in Nat /\ p.head \in Nat /\ p.rest \in Nat
      /\ s \in Nat /\ b \in Nat /\ l \in Nat /\ output[v] \in Seq(Nat)
  BY <1>1, KidFacts, JobFacts, RequestFacts DEF WorkerInv
<1>3. w0 < p.head + p.rest
  <2>1. w0 < Len(Printed(req[v]))
    BY DEF Prints, May
  <2>2. Len(Printed(req[v])) = p.head + p.rest
    BY SMTT(30), <1>2 DEF Printed
  <2> QED BY <2>1, <2>2
<1>4. Printed(req[v])[w0 + 1] = w0 + 1
  <2>1. w0 + 1 \in 1 .. p.head + p.rest
    <3> DEFINE x == p.head
               y == p.rest
    <3>1. w0 \in Nat /\ x \in Nat /\ y \in Nat /\ w0 < x + y
      BY <1>2, <1>3
    <3> HIDE DEF w0, x, y
    <3>2. w0 + 1 \in 1 .. x + y
      BY <3>1
    <3> QED BY <3>2 DEF x, y
  <2> QED BY <2>1 DEF Printed
<1>5. PICK x \in Nat : x = w0 + 1
  BY <1>2
<1> DEFINE q == Append(output[v], x)
<1>6. output' = [output EXCEPT ![v] = q] /\ kid' = [kid EXCEPT ![v].written = x]
  BY <1>1, <1>4, <1>5 DEF Prints, TypeInv, Kid
<1>7. q \in Seq(Nat) /\ Len(q) = l + 1
  BY <1>2, AppendProperties
<1>8. job[v].pc \notin Over => Up(q, s + b) /\ s + b + Len(q) = x
  <2> SUFFICES ASSUME job[v].pc \notin Over PROVE Up(q, s + b) /\ s + b + Len(q) = x
    OBVIOUS
  <2>1. Up(output[v], s + b) /\ s + b + l = w0
    BY <1>1 DEF WorkerInv, OutputInv
  <2>2. s + b + Len(q) = x /\ x = s + b + l + 1 /\ s + b \in Nat
    <3>1. /\ s \in Nat /\ b \in Nat /\ l \in Nat /\ w0 \in Nat /\ s + b + l = w0
          /\ x = w0 + 1 /\ Len(q) = l + 1
      BY <1>2, <1>5, <1>7, <2>1
    <3> HIDE DEF s, b, l, w0, q
    <3> QED BY <3>1
  <2>3. PICK f \in Nat : f = s + b
    BY <2>2
  <2>4. Up(q, f)
    <3>1. Up(output[v], f) /\ x = f + l + 1
      BY <2>1, <2>2, <2>3
    <3> QED BY <1>2, <3>1, UpAppend
  <2> QED BY <2>2, <2>3, <2>4
<1> HIDE DEF q
<1>9. /\ kid' \in [Worker -> Kid] /\ \A w \in Worker \ {v} : kid'[w] = kid[w]
      /\ kid'[v].eaten = kid[v].eaten /\ kid'[v].written = x
      /\ kid'[v].state = kid[v].state
  BY <1>1, <1>6 DEF TypeInv, Kid
<1>10. /\ output' \in [Worker -> Seq(Nat)] /\ output'[v] = q
       /\ \A w \in Worker \ {v} : output'[w] = output[w]
  BY <1>1, <1>6, <1>7 DEF TypeInv
<1>11. ReplyInv(v)'
  BY <1>1, <1>9 DEF WorkerInv, ReplyInv
<1>12. HoldInv(v)'
  BY <1>1, <1>9 DEF WorkerInv, HoldInv, Alive
<1>13. BodyInv(v)'
  BY <1>1 DEF WorkerInv, BodyInv
<1>14. InputInv(v)'
  BY <1>1, <1>9 DEF WorkerInv, InputInv
<1>15. OutputInv(v)'
  <2>1. x <= p.head + p.rest /\ w0 <= x
    <3> DEFINE y == p.head
               z == p.rest
    <3>1. w0 \in Nat /\ y \in Nat /\ z \in Nat /\ w0 < y + z /\ x = w0 + 1
      BY <1>2, <1>3, <1>5
    <3> HIDE DEF w0, y, z
    <3>2. x <= y + z /\ w0 <= x
      BY <3>1
    <3> QED BY <3>2 DEF y, z
  <2>2. Up(job[v].sent, 0) /\ Alive(v)
    BY <1>1 DEF WorkerInv, OutputInv, Alive
  <2>3. CASE job[v].pc \notin Over
    <3>1. /\ Up(job[v].buf, s) /\ Up(q, s + b) /\ s + b + Len(q) = x
          /\ job[v].pc # "relay" => job[v].sent = <<>>
          /\ job[v].pc \notin {"relay", "head"} => job[v].buf = <<>>
      BY <1>1, <1>8, <2>3 DEF WorkerInv, OutputInv
    <3> QED BY <1>1, <1>9, <1>10, <2>1, <2>2, <2>3, <3>1 DEF OutputInv
  <2>4. CASE job[v].pc \in Over
    <3>1. s <= w0 /\ ~(job[v].replies = <<200>> /\ v \notin gone)
      BY <1>1, <2>2, <2>4 DEF WorkerInv, OutputInv
    <3>2. s <= x
      <4>1. s \in Nat /\ w0 \in Nat /\ x \in Nat /\ s <= w0 /\ w0 <= x
        BY <1>2, <2>1, <3>1
      <4> HIDE DEF s, w0
      <4> QED BY <4>1
    <3> QED BY <1>1, <1>9, <2>1, <2>2, <2>4, <3>1, <3>2 DEF OutputInv
  <2> QED BY <2>3, <2>4
<1>16. RoomInv(v)'
  <2>1. Len(q) <= Cap
    <3>1. l \in Nat /\ Cap \in Nat /\ l < Cap /\ Len(q) = l + 1
      BY <1>1, <1>2, <1>7, RoomFacts
    <3> HIDE DEF l
    <3> QED BY <3>1
  <2> QED BY <1>1, <1>10, <2>1 DEF WorkerInv, RoomInv
<1>17. WorkerInv(v)'
  BY <1>1, <1>11, <1>12, <1>13, <1>14, <1>15, <1>16 DEF WorkerInv
<1>18. TypeInv'
  BY <1>1, <1>9, <1>10 DEF TypeInv
<1>19. \A w \in Worker \ {v} : Untouched(w)
  BY <1>1, <1>9, <1>10 DEF Untouched
<1> QED BY <1>17, <1>18, <1>19, Assemble

\* A client that leaves during the relay gets less; what there is stays in order.
LEMMA LeaveInv ==
  ASSUME IInv, NEW v \in Worker, Leave(v)
  PROVE  IInv'
<1>1. /\ TypeInv /\ WorkerInv(v) /\ job[v].pc \in {"pull", "relay"}
      /\ gone' = gone \cup {v}
      /\ UNCHANGED <<req, job, kid, hold, input, output, stop>>
  BY DEF Leave, IInv
<1>2. TypeInv'
  BY <1>1 DEF TypeInv
<1>3. OutputInv(v)'
  BY <1>1 DEF WorkerInv, OutputInv, Over
<1>4. WorkerInv(v)'
  <2>1. ReplyInv(v)' /\ BodyInv(v)'
    BY <1>1 DEF WorkerInv, ReplyInv, BodyInv
  <2>2. HoldInv(v)'
    BY <1>1 DEF WorkerInv, HoldInv, Alive
  <2>3. InputInv(v)' /\ RoomInv(v)'
    BY <1>1 DEF WorkerInv, InputInv, RoomInv
  <2> QED BY <1>1, <1>3, <2>1, <2>2, <2>3 DEF WorkerInv
<1>5. \A w \in Worker \ {v} : Untouched(w)
  BY <1>1 DEF Untouched
<1> QED BY <1>2, <1>4, <1>5, Assemble

\* mg_stop touches nothing the invariant speaks of.
LEMMA StopInv ==
  ASSUME IInv, UNCHANGED <<req, job, kid, hold, input, output, gone>>, stop' \in BOOLEAN
  PROVE  IInv'
<1>1. TypeInv'
  BY DEF IInv, TypeInv
<1>2. ASSUME NEW w \in Worker PROVE WorkerInv(w)'
  <2>1. WorkerInv(w) /\ Untouched(w)
    BY DEF IInv, Untouched
  <2> QED BY <2>1, UntouchedInv
<1> QED BY <1>1, <1>2 DEF IInv

-----------------------------------------------------------------------------
(* The invariant *)

LEMMA JobRecord ==
  ASSUME NEW a \in Place, NEW b \in Seq(Nat), NEW c \in Nat, NEW d \in Seq(Nat),
         NEW e \in Seq(Nat), NEW f \in Seq(Codes)
  PROVE  [pc |-> a, pend |-> b, consumed |-> c, buf |-> d, sent |-> e, replies |-> f] \in Job
  BY DEF Job

LEMMA KidRecord ==
  ASSUME NEW a \in {"none", "forked", "running", "dead"}, NEW b \in Seq(Nat),
         NEW c \in BOOLEAN, NEW d \in Nat
  PROVE  [state |-> a, eaten |-> b, sawEof |-> c, written |-> d] \in Kid
  BY DEF Kid

\* The invariant holds at first.
LEMMA InitInv ==
  ASSUME Init
  PROVE  IInv
<1>1. ASSUME NEW w \in Worker
      PROVE  /\ job[w] = [pc |-> "idle", pend |-> <<>>, consumed |-> 0, buf |-> <<>>,
                          sent |-> <<>>, replies |-> <<>>]
             /\ kid[w] = [state |-> "none", eaten |-> <<>>, sawEof |-> FALSE, written |-> 0]
             /\ hold[w] = NoFds /\ input[w] = <<>> /\ output[w] = <<>>
             /\ req[w] \in Request[w]
  BY DEF Init
<1>2. <<>> \in Seq(Nat) /\ <<>> \in Seq(Codes) /\ Len(<<>>) = 0 /\ "idle" \in Place
  BY DEF Place
<1>3. TypeInv
  <2>1. ASSUME NEW w \in Worker PROVE job[w] \in Job /\ kid[w] \in Kid
    <3>1. job[w] \in Job
      <4> DEFINE x == [pc |-> "idle", pend |-> <<>>, consumed |-> 0, buf |-> <<>>,
                       sent |-> <<>>, replies |-> <<>>]
      <4>1. 0 \in Nat
        OBVIOUS
      <4>2. x \in Job
        BY <1>2, <4>1, JobRecord, Zenon
      <4> QED BY <1>1, <4>2
    <3>2. kid[w] \in Kid
      BY <1>1, <1>2, KidRecord
    <3> QED BY <3>1, <3>2
  <2>2. job \in [Worker -> Job] /\ kid \in [Worker -> Kid]
    <3>1. /\ job = [w \in Worker |-> job[w]] /\ kid = [w \in Worker |-> kid[w]]
      BY DEF Init
    <3> QED BY <2>1, <3>1
  <2>3. input \in [Worker -> Seq(Nat)] /\ output \in [Worker -> Seq(Nat)]
    BY <1>2 DEF Init
  <2>4. hold \in [Worker -> [End -> SUBSET Process]]
    BY DEF Init, NoFds
  <2>5. gone \subseteq Worker /\ stop \in BOOLEAN
    BY DEF Init
  <2> QED BY <2>2, <2>3, <2>4, <2>5 DEF TypeInv
<1>4. ASSUME NEW w \in Worker PROVE WorkerInv(w)
  <2>1. /\ job[w].pc = "idle" /\ job[w].consumed = 0 /\ job[w].replies = <<>>
        /\ job[w].buf = <<>> /\ job[w].sent = <<>>
        /\ kid[w].state = "none" /\ kid[w].eaten = <<>> /\ kid[w].written = 0
        /\ input[w] = <<>> /\ output[w] = <<>> /\ req[w] \in Request[w]
    BY <1>1
  <2>2. Up(<<>>, 0)
    BY UpEmpty
  <2>3. /\ req[w].length \in Int /\ req[w].length >= -1
        /\ req[w].program.head \in Nat /\ req[w].program.rest \in Nat
    BY <2>1, RequestFacts
  <2>4. ReplyInv(w)
    BY <2>1 DEF ReplyInv, Feeding, Over
  <2>5. HoldInv(w)
    BY <2>1 DEF HoldInv, Alive, Feeding
  <2>6. BodyInv(w)
    <3>1. 0 <= Expected(req[w])
      BY <2>3 DEF Expected
    <3> QED BY <2>1, <3>1, NotAnswered DEF BodyInv, Before, Feeding
  <2>7. InputInv(w)
    BY <1>2, <2>1, <2>2 DEF InputInv, Before, Feeding
  <2>8. OutputInv(w)
    <3>1. 0 <= req[w].program.head + req[w].program.rest
      BY <2>3
    <3> QED BY <1>2, <2>1, <2>2, <3>1 DEF OutputInv, Over
  <2>9. RoomInv(w)
    BY <1>2, <2>1, RoomFacts DEF RoomInv
  <2> QED BY <2>1, <2>4, <2>5, <2>6, <2>7, <2>8, <2>9 DEF WorkerInv
<1> QED BY <1>3, <1>4 DEF IInv

\* Every step keeps the invariant.
LEMMA StepInv ==
  ASSUME IInv, [Next]_vars
  PROVE  IInv'
<1>1. CASE UNCHANGED vars
  <2>1. stop \in BOOLEAN
    BY DEF IInv, TypeInv
  <2> QED BY <1>1, <2>1, StopInv DEF vars
<1>2. CASE Stop
  <2>1. stop' \in BOOLEAN
    BY <1>2 DEF Stop
  <2> QED BY <1>2, <2>1, StopInv DEF Stop
<1>3. ASSUME NEW w \in Worker, Serve(w) \/ Child(w) \/ Crash(w) \/ Leave(w)
      PROVE  IInv'
  <2>1. CASE Pipes(w)
    BY <2>1, PipesInv
  <2>2. CASE Fork(w)
    BY <2>2, ForkInv
  <2>3. CASE Parent(w)
    BY <2>3, ParentInv
  <2>4. CASE Push(w)
    BY <2>4, PushInv
  <2>5. CASE PushedBuffered(w)
    BY <2>5, PushedBufferedInv
  <2>6. CASE Pushed(w)
    BY <2>6, PushedInv
  <2>7. CASE Pull(w)
    BY <2>7, PullInv
  <2>8. CASE CloseIn(w)
    BY <2>8, CloseInInv
  <2>9. CASE ReadHead(w)
    BY <2>9, ReadHeadInv
  <2>10. CASE TooBig(w)
    BY <2>10, TooBigInv
  <2>11. CASE Reply(w)
    BY <2>11, ReplyStepInv
  <2>12. CASE Gather(w)
    BY <2>12, GatherInv
  <2>13. CASE Relay(w)
    BY <2>13, RelayInv
  <2>14. CASE Done(w)
    BY <2>14, DoneInv
  <2>15. CASE Exec(w)
    BY <2>15, ExecInv
  <2>16. CASE Eat(w)
    BY <2>16, EatInv
  <2>17. CASE Prints(w)
    BY <2>17, PrintsInv
  <2>18. CASE Exit(w) \/ Crash(w)
    <3>1. Dies(w) /\ Alive(w)
      BY <2>18 DEF Exit, Crash, Alive
    <3> QED BY <3>1, DiesInv
  <2>19. CASE Leave(w)
    BY <2>19, LeaveInv
  <2> QED BY <1>3, <2>1, <2>2, <2>3, <2>4, <2>5, <2>6, <2>7, <2>8, <2>9, <2>10, <2>11,
             <2>12, <2>13, <2>14, <2>15, <2>16, <2>17, <2>18, <2>19 DEF Serve, Child
<1> QED BY <1>1, <1>2, <1>3 DEF Next

\* The invariant of the CGI requests: what was answered, who holds which end of
\* the pipes, and where each cell of the body and of the output is.
THEOREM Invariant == Spec => []IInv
  BY InitInv, StepInv, PTL DEF Spec

-----------------------------------------------------------------------------
(* What follows from it *)

\* Every variable has its type, and a pipe never holds more than it can: the
\* body taken from the client is never longer than Content-Length.
THEOREM TypeCorrect == Spec => []TypeOK
<1>1. ASSUME IInv PROVE TypeOK
  <2>1. TypeInv
    BY <1>1 DEF IInv
  <2>2. ASSUME NEW w \in Worker
        PROVE  /\ req[w] \in Request[w]
               /\ job[w].pc \in Place
               /\ job[w].consumed \in 0 .. Expected(req[w])
               /\ Len(job[w].buf) <= Max({Buf, Chunk})
               /\ job[w].replies \in Seq({200, 411, 417, 500, 577})
               /\ kid[w].state \in {"none", "forked", "running", "dead"}
               /\ Len(input[w]) <= Cap /\ Len(output[w]) <= Cap
    <3>1. WorkerInv(w)
      BY <1>1 DEF IInv
    <3>2. /\ req[w] \in Request[w] /\ Len(job[w].buf) <= Max({Buf, Chunk})
          /\ Len(input[w]) <= Cap /\ Len(output[w]) <= Cap
          /\ job[w].consumed <= Expected(req[w])
      BY <3>1 DEF WorkerInv, RoomInv, BodyInv
    <3>3. job[w].pc \in Place /\ job[w].replies \in Seq(Codes) /\ job[w].consumed \in Nat
      BY <2>1, JobFacts
    <3>4. kid[w].state \in {"none", "forked", "running", "dead"}
      BY <2>1, KidFacts
    <3>5. Expected(req[w]) \in Int
      BY <3>2, RequestFacts DEF Expected
    <3>6. job[w].consumed \in 0 .. Expected(req[w])
      BY <3>2, <3>3, <3>5
    <3>7. job[w].replies \in Seq({200, 411, 417, 500, 577})
      BY <3>3 DEF Codes
    <3> QED BY <3>2, <3>3, <3>4, <3>6, <3>7
  <2> QED BY <2>1, <2>2 DEF TypeOK, TypeInv
<1> QED BY <1>1, Invariant, PTL

\* A code is among the replies.
LEMMA Answered ==
  ASSUME IInv, NEW w \in Worker, 200 \in ToSet(job[w].replies)
  PROVE  job[w].replies = <<200>>
<1> DEFINE a == job[w].replies
<1>1. PICK i \in DOMAIN a : a[i] = 200
  BY DEF ToSet
<1>2. a # <<>> /\ a # <<500>> /\ a # <<500, 500>>
  <2>1. CASE a = <<>>
    BY <1>1, <2>1
  <2>2. CASE a = <<500>>
    <3>1. DOMAIN a = {1} /\ a[1] = 500
      BY <2>2
    <3> QED BY <1>1, <3>1
  <2>3. CASE a = <<500, 500>>
    <3>1. DOMAIN a = {1, 2} /\ a[1] = 500 /\ a[2] = 500
      BY <2>3
    <3> QED BY <1>1, <3>1
  <2> QED BY <2>1, <2>2, <2>3
<1>3. ASSUME NEW c \in Codes, a = <<c>> PROVE a = <<200>>
  <2>1. DOMAIN a = {1} /\ a[1] = c
    BY <1>3
  <2> QED BY <1>1, <1>3, <2>1
<1>4. job[w].pc \in Place /\ ReplyInv(w)
  BY JobFacts DEF IInv, WorkerInv
<1> QED BY <1>2, <1>3, <1>4 DEF ReplyInv, Place, Feeding, Over

\* What handle_cgi_request passes on, in both directions, is whole and in
\* order: the client gets what the program printed, all of it if it stays, and
\* no program that saw a part of the body answers for the whole.
THEOREM RelayIsExact == Spec => []RelayExact
<1>1. ASSUME IInv PROVE OutputExact
  <2> SUFFICES ASSUME NEW w \in Worker
               PROVE  /\ IsPrefix(job[w].sent, Printed(req[w]))
                      /\ job[w].pc = "end" /\ 200 \in ToSet(job[w].replies) /\ w \notin gone
                           => Len(job[w].sent) = kid[w].written
    BY DEF OutputExact
  <2> DEFINE s == job[w].sent
             t == Printed(req[w])
             m == req[w].program.head + req[w].program.rest
  <2>1. TypeInv /\ OutputInv(w) /\ req[w] \in Request[w]
    BY <1>1 DEF IInv, WorkerInv
  <2>2. m \in Nat /\ s \in Seq(Nat) /\ Len(s) \in Nat /\ kid[w].written \in Nat
    <3>1. m \in Nat
      BY <2>1, RequestFacts
    <3> QED BY <2>1, <3>1, JobFacts, KidFacts
  <2>3. kid[w].written <= m /\ Up(s, 0)
    BY <2>1 DEF OutputInv
  <2>4. Len(s) <= kid[w].written
    <3>1. CASE job[w].pc \in Over
      BY <2>1, <3>1 DEF OutputInv
    <3>2. CASE job[w].pc \notin Over
      BY <2>1, <3>2, SentSoFar
    <3> QED BY <3>1, <3>2
  <2>5. t \in Seq(Nat) /\ Len(t) = m /\ \A i \in 1 .. m : t[i] = i
    <3>1. t = [j \in 1 .. m |-> j]
      BY DEF Printed
    <3> HIDE DEF m, t
    <3>2. t \in [1 .. m -> Nat]
      BY <2>2, <3>1
    <3> QED BY <2>2, <3>1, <3>2
  <2>6. Len(s) <= m
    <3> HIDE DEF s, m
    <3> QED BY <2>2, <2>3, <2>4
  <2>7. SubSeq(s, 1, Len(s)) = SubSeq(t, 1, Len(s))
    <3> DEFINE n == Len(s)
               x == SubSeq(s, 1, n)
               y == SubSeq(t, 1, n)
    <3>1. n \in 0 .. Len(s) /\ n \in 0 .. Len(t)
      BY <2>2, <2>5, <2>6
    <3>2. x \in Seq(Nat) /\ Len(x) = n /\ \A i \in 1 .. n : x[i] = s[i]
      BY SMTT(30), <2>2, <3>1, CutFacts
    <3>3. y \in Seq(Nat) /\ Len(y) = n /\ \A i \in 1 .. n : y[i] = t[i]
      BY <2>5, <3>1, CutFacts
    <3>4. \A i \in 1 .. n : s[i] = t[i]
      <4>1. ASSUME NEW i \in 1 .. n PROVE s[i] = t[i]
        <5>1. i \in 1 .. m /\ i \in Int
          BY <2>2, <2>6
        <5>2. s[i] = 0 + i
          BY <2>3 DEF Up
        <5> QED BY <2>5, <5>1, <5>2
      <4> QED BY <4>1
    <3> HIDE DEF n, x, y, s, t
    <3>5. \A i \in 1 .. Len(x) : x[i] = y[i]
      BY <3>2, <3>3, <3>4
    <3>6. x = y
      BY <3>2, <3>3, <3>5, SeqEqual
    <3> QED BY <3>6 DEF x, y, n
  <2>8. IsPrefix(s, t)
    BY <2>5, <2>6, <2>7 DEF IsPrefix
  <2>9. ASSUME job[w].pc = "end", 200 \in ToSet(job[w].replies), w \notin gone
        PROVE  Len(s) = kid[w].written
    <3>1. job[w].replies = <<200>>
      BY <1>1, <2>9, Answered
    <3> QED BY <2>1, <2>9, <3>1 DEF OutputInv, Over
  <2> QED BY <2>8, <2>9
<1>2. ASSUME IInv PROVE BodyWhole
  <2> SUFFICES ASSUME NEW w \in Worker
               PROVE  /\ \A k \in DOMAIN kid[w].eaten : kid[w].eaten[k] = k
                      /\ req[w].post /\ 200 \in ToSet(job[w].replies)
                           => job[w].consumed = req[w].length
    BY DEF BodyWhole
  <2>1. TypeInv /\ InputInv(w) /\ BodyInv(w)
    BY <1>2 DEF IInv, WorkerInv
  <2>2. ASSUME NEW k \in DOMAIN kid[w].eaten PROVE kid[w].eaten[k] = k
    <3>1. kid[w].eaten \in Seq(Nat) /\ Up(kid[w].eaten, 0)
      BY <2>1, KidFacts DEF InputInv
    <3>2. k \in 1 .. Len(kid[w].eaten)
      BY <3>1
    <3>3. kid[w].eaten[k] = 0 + k /\ k \in Int
      BY <3>1, <3>2 DEF Up
    <3> QED BY <3>3
  <2>3. ASSUME req[w].post, 200 \in ToSet(job[w].replies)
        PROVE  job[w].consumed = req[w].length
    <3>1. job[w].replies = <<200>>
      BY <1>2, <2>3, Answered
    <3> QED BY <2>1, <2>3, <3>1 DEF BodyInv
  <2> QED BY <2>2, <2>3
<1> QED BY <1>1, <1>2, Invariant, PTL DEF RelayExact

\* A request that is over has been answered, and once unless the fork failed;
\* the server holds none of its pipes and its child is gone.
THEOREM SettledAtEnd == Spec => []Settled
<1>1. ASSUME IInv PROVE Released
  <2> SUFFICES ASSUME NEW w \in Worker, job[w].pc = "end"
               PROVE  /\ \A e \in End : "server" \notin hold[w][e]
                      /\ kid[w].state \in {"none", "dead"}
    BY DEF Released
  <2>1. /\ \A e \in End : "server" \notin hold[w][e]
        /\ ~Alive(w)
    BY <1>1 DEF IInv, WorkerInv, HoldInv
  <2>2. kid[w].state \in {"none", "forked", "running", "dead"}
    BY <1>1, KidFacts DEF IInv
  <2> QED BY <2>1, <2>2 DEF Alive
<1>2. ASSUME IInv PROVE AnsweredOnce
  <2> SUFFICES ASSUME NEW w \in Worker, job[w].pc \in {"done", "end"}
               PROVE  \/ Len(job[w].replies) = 1
                      \/ job[w].replies = <<500, 500>> /\ kid[w].state = "none"
    BY DEF AnsweredOnce
  <2>1. \/ \E c \in Codes : job[w].replies = <<c>>
        \/ job[w].replies = <<500, 500>> /\ kid[w].state = "none"
    BY <1>2 DEF IInv, WorkerInv, ReplyInv, Over
  <2>2. ASSUME NEW c \in Codes, job[w].replies = <<c>> PROVE Len(job[w].replies) = 1
    BY <2>2
  <2> QED BY <2>1, <2>2
<1> QED BY <1>1, <1>2, Invariant, PTL DEF Settled
=============================================================================
