------------------------------- MODULE MCCgi -------------------------------
\* Requests for TLC: a GET, POSTs whose programs treat their input in each
\* way, one without a length, one that expects what the server does not know,
\* and a program whose headers do not fit the buffer.
EXTENDS Cgi

Program(reads, head, rest) == [reads |-> reads, head |-> head, rest |-> rest]
Post(length, buffered, expect, program) ==
  [post |-> TRUE, length |-> length, buffered |-> buffered,
   expect |-> expect, program |-> program]

MCWorker == {"w1", "w2"}

FirstWorker ==
  {[Post(0, 0, "", Program("eof", 1, 0)) EXCEPT !.post = FALSE],
   Post(2, 1, "100-continue", Program("length", 1, 1)),
   Post(1, 0, "", Program("echo", 1, 1)),
   Post(2, 1, "", Program("no", 1, 1)),
   Post(-1, 0, "", Program("length", 1, 0)),
   Post(0, 0, "other", Program("length", 1, 0)),
   Post(0, 0, "", Program("no", 3, 0))}

MCRequest == "w1" :> FirstWorker @@ "w2" :> {[Post(0, 0, "", Program("length", 1, 0)) EXCEPT !.post = FALSE]}

=============================================================================
