-------------------------- MODULE MCHttpConnection --------------------------
\* Messages of a few cells for TLC: a GET without a body, one that asks to
\* close, one of HTTP/1.0, POSTs with and without a length, a head that does
\* not fit the buffer, and one that is refused at each place that refuses.
EXTENDS HttpConnection

MCGet == [head |-> 2, body |-> 0, length |-> 0, form |-> "good",
          connection |-> "", http11 |-> TRUE]

MCMessage ==
  {MCGet,
   [MCGet EXCEPT !.connection = "close"],
   [MCGet EXCEPT !.http11 = FALSE],
   [MCGet EXCEPT !.body = 2, !.length = 2],
   [MCGet EXCEPT !.body = 1, !.length = -1],
   [MCGet EXCEPT !.head = 5],
   [MCGet EXCEPT !.form = "control", !.head = 4],
   [MCGet EXCEPT !.form = "line"],
   [MCGet EXCEPT !.form = "uri", !.connection = "keep-alive"],
   [MCGet EXCEPT !.form = "version", !.body = 1, !.length = 1]}

=============================================================================
