--------------------------- MODULE CgiEnvironment ---------------------------
(***************************************************************************)
(* The environment of a CGI child: variables packed one behind the other   *)
(* in a buffer, with an array of pointers to them.  A variable is its name *)
(* and the length of its text, "NAME=value" without the NUL.               *)
(***************************************************************************)
EXTENDS Integers, Sequences, SequencesExt

CONSTANTS
  EnvironmentSize,  \* CGI_ENVIRONMENT_SIZE, 4096
  MaxVars           \* MAX_CGI_ENVIR_VARS, 64

ASSUME EnvironmentAssumption ==
  /\ EnvironmentSize \in Nat /\ EnvironmentSize > 3
  /\ MaxVars \in Nat /\ MaxVars > 2

\* A block in the making; room is the least space a variable was offered.
EmptyBlock == [len |-> 0, vars |-> <<>>, room |-> EnvironmentSize]

\* mg_vsnprintf: what it returns for a text of n characters.
Printed(n, size) == IF size = 0 THEN 0 ELSE IF n >= size THEN size - 1 ELSE n

\* Mutant: a text cut by mg_vsnprintf is taken for a whole one.
AddEnvCut(block, var) ==
  LET space == EnvironmentSize - block.len - 2
      n     == Printed(var.len, space)
      fits  == n > 0 /\ n < space /\ Len(block.vars) < MaxVars - 2
      added == [name |-> var.name, at |-> block.len, len |-> n]
  IN [len  |-> block.len + (IF fits THEN n + 1 ELSE 0),
      vars |-> IF fits THEN Append(block.vars, added) ELSE block.vars,
      room |-> IF space < block.room THEN space ELSE block.room]

\* addenv: a variable that does not fit is left out.
AddEnv(block, var) ==
  LET space == EnvironmentSize - block.len - 2
      n     == Printed(var.len, space)
      fits  == n > 0 /\ n + 1 < space /\ Len(block.vars) < MaxVars - 2
      added == [name |-> var.name, at |-> block.len, len |-> n]
  IN [len  |-> block.len + (IF fits THEN n + 1 ELSE 0),
      vars |-> IF fits THEN Append(block.vars, added) ELSE block.vars,
      room |-> IF space < block.room THEN space ELSE block.room]

Always ==
  <<"SERVER_NAME", "SERVER_ROOT", "DOCUMENT_ROOT", "GATEWAY_INTERFACE",
    "SERVER_PROTOCOL", "REDIRECT_STATUS", "SERVER_PORT", "REQUEST_METHOD",
    "REMOTE_ADDR", "REMOTE_PORT", "REQUEST_URI", "SCRIPT_NAME",
    "SCRIPT_FILENAME", "PATH_TRANSLATED", "HTTPS">>

\* Set if the request or the server's environment has them.
Optional ==
  <<"CONTENT_TYPE", "QUERY_STRING", "CONTENT_LENGTH", "PATH", "PATH_INFO",
    "LD_LIBRARY_PATH", "PERLLIB", "REMOTE_USER", "AUTH_TYPE">>

\* The variables of a request, in the order they are added: lengths gives the
\* length of every one of Always and of Optional that is there, headers and user
\* those of the headers and of the variables of cgi_environment.
Variables(request) ==
  LET named(names) == SelectSeq(names, LAMBDA n : n \in DOMAIN request.lengths) IN
      [k \in 1 .. Len(named(Always \o Optional)) |->
         LET n == named(Always \o Optional)[k] IN
           [name |-> <<n, 0>>, len |-> request.lengths[n]]]
   \o [k \in 1 .. Len(request.headers) |-> [name |-> <<"HTTP", k>>, len |-> request.headers[k]]]
   \o [k \in 1 .. Len(request.user) |-> [name |-> <<"USER", k>>, len |-> request.user[k]]]

\* With the NULL behind the last pointer and the NUL behind the last text.
PrepareCgiEnvironment(request) ==
  LET block == FoldLeft(AddEnv, EmptyBlock, Variables(request)) IN
    [block EXCEPT !.len = @ + 1] @@ [nvars |-> Len(block.vars) + 1]
=============================================================================
