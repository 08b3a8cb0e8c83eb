------------------------------ MODULE MCFiles ------------------------------
\* A document root with a plain file, a guarded directory with an index, an
\* SSI file that includes itself and is under a rule of PROTECT_URI, and a
\* directory that is yet to be made; one worker is given any request, the other
\* one that changes files.  Of HIDE_FILES, one pattern matches a path and not the
\* name (H), one a name and not the path (S), one both (U).
EXTENDS Files

MCWorker == {"w1", "w2"}

F == <<"f">>      \* a file
D == <<"d">>      \* a directory with a passwords file
I == <<"d", "index">>
P == <<"d", ".htpasswd">>
T == <<"d", ".htpasswd.tmp">>
S == <<"s.shtml">>
H == <<"hidden">>
N == <<"n">>      \* not there
M == <<"n", "f">>
U == <<"u">>      \* the users who may PUT
C == <<"c">>      \* a CGI program
X == <<"c", "x">> \* and what is not there, but is handed to it

MCPath == {F, D, I, P, T, S, H, N, M, U, C, X}

On(by, n) == [k \in 1 .. n |-> Cell(by, k)]

MCDisk ==
  <<[data |-> On("f", 2), mtime |-> 1],
    [data |-> On("index", 1), mtime |-> 1],
    [data |-> <<Cell("ann", 1), Cell("bob", 1)>>, mtime |-> 1],
    [data |-> <<Cell("s", 1), Cell("include", 1), Cell("include", 2)>>, mtime |-> 1],
    [data |-> On("secret", 1), mtime |-> 1],
    [data |-> <<Cell("ann", 1)>>, mtime |-> 1],
    [data |-> On("program", 1), mtime |-> 1]>>

MCFs ==
  [p \in MCPath |->
     CASE p = D -> [kind |-> "dir", ino |-> 0]
       [] p \in {N, M, T, X} -> [kind |-> "none", ino |-> 0]
       [] OTHER -> [kind |-> "file",
                    ino |-> CASE p = F -> 1 [] p = I -> 2 [] p = P -> 3
                              [] p = S -> 4 [] p = H -> 5 [] p = U -> 6 [] OTHER -> 7]]

MCConfig ==
  [root |-> TRUE, redirect |-> FALSE, listing |-> TRUE, callback |-> {},
   hidden |-> {P, H, U}, hiddenNames |-> {".htpasswd", "s.shtml", "u"},
   cgi |-> {C}, ssi |-> {S}, index |-> <<"index">>,
   global |-> NoPath, put |-> U, protect |-> <<[prefix |-> S, file |-> U]>>,
   passwords |-> ".htpasswd", includes |-> <<S, F>>]

MCEdit == [file |-> P, tmp |-> T, user |-> "bob", pass |-> 2]

Get(p) ==
  [method |-> "GET", path |-> p, slash |-> FALSE, cred |-> Cell("eve", 0),
   length |-> 0, buffered |-> 0, expect |-> "", range |-> [n |-> 0, r1 |-> 0, r2 |-> 0],
   inm |-> [mtime |-> 0, size |-> 0], ims |-> 0, depth0 |-> FALSE]

By(user, r)  == [r EXCEPT !.cred = Cell(user, 1)]
Put(p, n, b) == [By("ann", Get(p)) EXCEPT !.method = "PUT", !.length = n, !.buffered = b]

MCRequest ==
  "w1" :>
    {Get(F), [Get(F) EXCEPT !.range = [n |-> 2, r1 |-> 1, r2 |-> 1]],
     [Get(F) EXCEPT !.range = [n |-> 2, r1 |-> 0, r2 |-> 5]],
     [Get(F) EXCEPT !.range = [n |-> 1, r1 |-> 1, r2 |-> 0]],
     [Get(F) EXCEPT !.method = "HEAD"],
     [Get(F) EXCEPT !.inm = [mtime |-> 1, size |-> 2]],
     Get(S), By("ann", Get(S)), Get(H), By("ann", Get(T)), Get(D), By("ann", Get(D)),
     [By("ann", Get(D)) EXCEPT !.slash = TRUE],
     [By("bob", Get(D)) EXCEPT !.slash = TRUE, !.method = "PROPFIND"],
     [Get(<<>>) EXCEPT !.slash = TRUE], [Get(F) EXCEPT !.slash = TRUE],
     Get(X), [Get(C) EXCEPT !.slash = TRUE],
     [Get(F) EXCEPT !.method = "OPTIONS"],
     Put(F, 2, 1), Put(M, 1, 0), [Put(N, 0, 0) EXCEPT !.slash = TRUE],
     [Put(F, 1, 0) EXCEPT !.slash = TRUE],
     [Put(F, 1, 1) EXCEPT !.range = [n |-> 2, r1 |-> 1, r2 |-> 1]],
     [Put(F, 1, 1) EXCEPT !.cred = Cell("eve", 1)],
     Put(F, -1, 0), [Put(F, 1, 0) EXCEPT !.expect = "other"]}
  @@ "w2" :>
    {Put(F, 2, 2), Put(M, 1, 1), [Put(F, 0, 0) EXCEPT !.method = "DELETE"],
     [Put(I, 0, 0) EXCEPT !.method = "DELETE"]}

=============================================================================
