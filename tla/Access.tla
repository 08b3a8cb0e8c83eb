------------------------------- MODULE Access -------------------------------
(***************************************************************************)
(* The options of mongoose that decide who is served and how: patterns,    *)
(* networks, the access control list, throttling and listening ports.      *)
(*                                                                         *)
(* An option is a sequence of the entries next_option splits it into, and  *)
(* an entry a record of its parts.  An address has Parts parts of PartBits *)
(* bits, where IPv4 has four of eight.                                     *)
(***************************************************************************)
EXTENDS Integers, Sequences, SequencesExt, FiniteSetsExt

CONSTANTS
  Parts,     \* numbers an address is written with
  PartBits,  \* bits of each
  None,      \* an option that is not set, a mask or a value that is not written
  Crash      \* what sscanf(NULL, ...) comes to

ASSUME AccessAssumption == Parts \in Nat \ {0} /\ PartBits \in Nat \ {0}

Bits    == Parts * PartBits
Address == 0 .. 2 ^ Bits - 1

-----------------------------------------------------------------------------
(* match_prefix *)

Drop(s, n) == SubSeq(s, n + 1, Len(s))

\* How far '*' reaches in a text, and '**'.
Reach(s, pair) ==
  LET slash == SelectInSeq(s, LAMBDA c : c = "/") IN
    IF pair \/ slash = 0 THEN Len(s) ELSE slash - 1

\* Mutant: what follows a star is tried at its longest reach only.
RECURSIVE MatchOneGreedy(_, _)
MatchOneGreedy(p, s) ==
  LET go(n) == LET res == MatchOneGreedy(Tail(p), Drop(s, n)) IN
                 IF res = -1 THEN -1 ELSE n + res
      pair  == Len(p) > 1 /\ p[2] = "*"
      rest  == Drop(p, IF pair THEN 2 ELSE 1)
      far   == Reach(s, pair)
      res   == MatchOneGreedy(rest, Drop(s, far))
  IN CASE p = <<>> -> 0
       [] p # <<>> /\ p[1] = "$" -> IF s = <<>> THEN 0 ELSE -1
       [] p # <<>> /\ p[1] = "*" -> IF res = -1 THEN -1 ELSE far + res
       [] OTHER -> IF s # <<>> /\ p[1] \in {"?", s[1]} THEN go(1) ELSE -1

\* The characters a pattern without bars matches at the start of a text, or -1.
\* Behind a star the rest is tried from the longest reach down.
RECURSIVE MatchOne(_, _)
MatchOne(p, s) ==
  LET go(n) == LET res == MatchOne(Tail(p), Drop(s, n)) IN
                 IF res = -1 THEN -1 ELSE n + res
      pair  == Len(p) > 1 /\ p[2] = "*"
      rest  == Drop(p, IF pair THEN 2 ELSE 1)
      ends  == {n \in 0 .. Reach(s, pair) : MatchOne(rest, Drop(s, n)) # -1}
  IN CASE p = <<>> -> 0
       [] p # <<>> /\ p[1] = "$" -> IF s = <<>> THEN 0 ELSE -1
       [] p # <<>> /\ p[1] = "*" ->
            IF ends = {} THEN -1 ELSE Max(ends) + MatchOne(rest, Drop(s, Max(ends)))
       [] OTHER -> IF s # <<>> /\ p[1] \in {"?", s[1]} THEN go(1) ELSE -1

\* The alternatives in their order, until one matches something.
RECURSIVE MatchPrefix(_, _)
MatchPrefix(pattern, str) ==
  LET bar   == SelectInSeq(pattern, LAMBDA c : c = "|")
      first == MatchOne(SubSeq(pattern, 1, bar - 1), str)
  IN IF bar = 0 THEN MatchOne(pattern, str)
     ELSE IF first > 0 THEN first ELSE MatchPrefix(Drop(pattern, bar), str)

-----------------------------------------------------------------------------
(* parse_net and check_acl *)

\* Mutant: the numbers that are missing are read as zeros.
ParseNetPadded(spec) ==
  LET slash == IF spec.mask = None \/ Len(spec.parts) > Parts THEN Bits ELSE spec.mask
      read  == [k \in 1 .. Parts |-> IF k <= Len(spec.parts) THEN spec.parts[k] ELSE 0]
  IN [ok    |-> ToSet(read) \subseteq 0 .. 2 ^ PartBits - 1 /\ slash \in 0 .. Bits,
      net   |-> FoldLeft(LAMBDA a, b : a * 2 ^ PartBits + b, 0, read),
      slash |-> slash]

\* [ok, net, slash] of a network written as parts and the length of a mask: it
\* takes all Parts numbers, and of what is behind them only a mask is read.
ParseNet(spec) ==
  LET slash == IF spec.mask = None \/ Len(spec.parts) > Parts THEN Bits ELSE spec.mask
      read  == SubSeq(spec.parts, 1, Min({Len(spec.parts), Parts}))
  IN [ok    |-> /\ Len(spec.parts) >= Parts /\ slash \in 0 .. Bits
                /\ ToSet(read) \subseteq 0 .. 2 ^ PartBits - 1,
      net   |-> FoldLeft(LAMBDA a, b : a * 2 ^ PartBits + b, 0, read),
      slash |-> slash]

\* ip & mask: the host bits are cleared.
Masked(ip, slash) == ip - (ip % 2 ^ (Bits - slash))

Covers(net, ip) == net.net = Masked(ip, net.slash)

\* Mutant: the first rule that covers the address decides.
CheckAclFirst(list, ip) ==
  LET hits == SelectSeq(list, LAMBDA r : Covers(ParseNet(r.spec), ip)) IN
    IF list = None THEN 1
    ELSE IF \E k \in 1 .. Len(list) :
              list[k].flag \notin {"+", "-"} \/ ~ParseNet(list[k].spec).ok THEN -1
    ELSE IF hits # <<>> /\ hits[1].flag = "+" THEN 1 ELSE 0

\* 1 allowed, 0 refused, -1 the list is malformed, wherever that is.  Once a list
\* is set, an address no rule covers is refused.
CheckAcl(list, ip) ==
  LET step(allowed, rule) ==
        CASE allowed = -1 -> -1
          [] allowed # -1 /\ (rule.flag \notin {"+", "-"} \/ ~ParseNet(rule.spec).ok) -> -1
          [] OTHER -> IF ~Covers(ParseNet(rule.spec), ip) THEN allowed
                      ELSE IF rule.flag = "+" THEN 1 ELSE 0
  IN IF list = None THEN 1 ELSE FoldLeft(step, 0, list)

\* set_acl_option: mg_start tries the list on 127.0.0.1, and fails if it is
\* malformed.
Loopback           == (2 ^ (PartBits - 1) - 1) * 2 ^ (Bits - PartBits) + 1
SetAclOption(list) == CheckAcl(list, Loopback) # -1

\* accept_new_connection: -1 is not 0.
Accepts(list, ip) == CheckAcl(list, ip) # 0

-----------------------------------------------------------------------------
(* set_throttle and mg_write *)

\* Bytes per second of an entry, -1 if it is skipped as malformed.
Speed(entry) ==
  CASE entry.value < 0    -> -1
    [] entry.unit = "k"   -> entry.value * 1024
    [] entry.unit = "m"   -> entry.value * 1048576
    [] entry.unit = "none" -> entry.value
    [] OTHER              -> -1

\* The key of an entry is "*", a network or else a pattern for URIs; what looks
\* like a network and is none is a pattern that no URI begins with.
Applies(key, ip, uri) ==
  CASE key.kind = "all" -> TRUE
    [] key.kind = "net" -> ParseNet(key.spec).ok /\ Covers(ParseNet(key.spec), ip)
    [] OTHER            -> MatchPrefix(key.pattern, uri) > 0

\* The last entry that applies decides, if the loop gets there: the value of an
\* entry without "=" is read through a NULL pointer.
SetThrottle(list, ip, uri) ==
  LET step(t, e) ==
        CASE t = Crash \/ e.value = None -> Crash
          [] OTHER -> IF Speed(e) >= 0 /\ Applies(e.key, ip, uri) THEN Speed(e) ELSE t
  IN FoldLeft(step, 0, list)

\* A connection: its limit, what it knows of the current second, the clock and
\* what it has pushed, as pairs of a second and a number of bytes.
Throttled(limit) ==
  [throttle |-> limit, lastTime |-> 0, lastBytes |-> 0, now |-> 1, pushed |-> <<>>]

Push(conn, n) == [conn EXCEPT !.pushed = Append(@, <<conn.now, n>>)]

NewSecond(conn) ==
  IF conn.now = conn.lastTime THEN conn
  ELSE [conn EXCEPT !.lastTime = conn.now, !.lastBytes = 0]

Least(a, b) == IF a < b THEN a ELSE b

\* Mutant: the loop does not sleep.
PushRestAtOnce(conn, left) ==
  IF left <= 0 THEN conn ELSE Push([conn EXCEPT !.lastBytes = left], left)

\* The loop: a whole second's worth is pushed, and then a second is slept.
RECURSIVE PushRest(_, _)
PushRest(conn, left) ==
  LET n == Least(conn.throttle, left) IN
    IF left <= 0 THEN conn
    ELSE PushRest([Push(conn, n) EXCEPT !.now = @ + 1, !.lastTime = conn.now + 1,
                                        !.lastBytes = n], left - n)

\* mg_write while every push succeeds and nobody stops the server.
MgWrite(conn, len) ==
  LET c == NewSecond(conn)
      n == Least(c.throttle - c.lastBytes, len)
  IN IF conn.throttle = 0 THEN Push(conn, len)
     ELSE PushRest([Push(c, n) EXCEPT !.lastBytes = @ + n], len - n)

-----------------------------------------------------------------------------
(* set_ports_option: the sockets it leaves open, and those it closed *)

CloseAllListeningSockets(s) ==
  [s EXCEPT !.open = <<>>, !.closed = @ \o s.open]

\* Mutant: the socket that could not be bound is left open.
OpenPortLeaks(s, port) ==
  CASE ~s.success -> s
    [] s.success /\ (~port.valid \/ (port.ssl /\ ~s.sslReady)) -> [s EXCEPT !.success = FALSE]
    [] s.success /\ port.valid /\ (port.ssl => s.sslReady) /\ ~port.binds ->
         [s EXCEPT !.success = FALSE, !.made = @ + 1]
    [] OTHER -> [s EXCEPT !.made = @ + 1, !.open = Append(@, s.made + 1)]

\* One entry: a malformed one, one that wants TLS without a certificate and one
\* that cannot be bound (whose socket is closed at once) end the loop.
OpenPort(s, port) ==
  CASE ~s.success -> s
    [] s.success /\ (~port.valid \/ (port.ssl /\ ~s.sslReady)) -> [s EXCEPT !.success = FALSE]
    [] s.success /\ port.valid /\ (port.ssl => s.sslReady) /\ ~port.binds ->
         [s EXCEPT !.success = FALSE, !.made = @ + 1, !.closed = Append(@, s.made + 1)]
    [] OTHER -> [s EXCEPT !.made = @ + 1, !.open = Append(@, s.made + 1)]

SetPorts(list, sslReady) ==
  LET start == [success |-> TRUE, sslReady |-> sslReady, made |-> 0,
                open |-> <<>>, closed |-> <<>>]
      end   == FoldLeft(OpenPort, start, list)
  IN IF end.success THEN end ELSE CloseAllListeningSockets(end)
=============================================================================
