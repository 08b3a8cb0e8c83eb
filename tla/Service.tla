------------------------------ MODULE Service ------------------------------
(***************************************************************************)
(* What the mongoose thread pool promises to the clients of cudamond:      *)
(* connections are taken in the order they were made, each by one worker   *)
(* that closes it, and nothing else happens to one.  No mutex, condition   *)
(* variable or ring index appears here; SocketQueue implements this.       *)
(***************************************************************************)
EXTENDS Naturals, Sequences, SequencesExt

CONSTANTS
  Conn,      \* client sockets; each may be opened again once closed
  Capacity   \* how many accepted connections may wait for a worker

VARIABLES
  backlog,  \* connections the kernel completed, oldest first
  line,     \* accepted connections no worker has taken yet, oldest first
  served    \* connections a worker has taken

serviceVars == <<backlog, line, served>>

Init ==
  /\ backlog = <<>>
  /\ line = <<>>
  /\ served = {}

Connect(c) ==
  /\ c \notin ToSet(backlog) \union ToSet(line) \union served
  /\ backlog' = Append(backlog, c)
  /\ UNCHANGED <<line, served>>

Accept ==
  /\ backlog # <<>>
  /\ Len(line) < Capacity
  /\ line' = Append(line, Head(backlog))
  /\ backlog' = Tail(backlog)
  /\ UNCHANGED served

Take ==
  /\ line # <<>>
  /\ served' = served \union {Head(line)}
  /\ line' = Tail(line)
  /\ UNCHANGED backlog

Close(c) ==
  /\ c \in served
  /\ served' = served \ {c}
  /\ UNCHANGED <<backlog, line>>

Next ==
  \/ \E c \in Conn : Connect(c) \/ Close(c)
  \/ Accept
  \/ Take

Spec == Init /\ [][Next]_serviceVars
=============================================================================
