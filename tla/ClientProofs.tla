---------------------------- MODULE ClientProofs ----------------------------
(***************************************************************************)
(* Proofs about Client for every set of keys, every fleets of devices and  *)
(* every SERIES_MAX.                                                       *)
(***************************************************************************)
EXTENDS Client, TLAPS, SequenceTheorems, FiniteSetTheorems

\* What the page may have when, and what points its series may hold: until the
\* graphs are added only those of the first update, then, in a graph that is
\* drawn, that one and measured ones.
PageInv ==
  /\ page \in {"init", "first"} =>
       /\ log = <<>>
       /\ \A k \in Key, d \in Index : series[k][d] = <<>>
  /\ page \in {"init", "first", "draw", "aborted"} => drawn = {}
  /\ page = "draw" =>
       \A k \in Key, d \in Index : \A i \in 1 .. Len(series[k][d]) :
         series[k][d][i].x = 1
  /\ page = "polling" =>
       /\ getData = drawn
       /\ \A k \in drawn, d \in Index : \A i \in 1 .. Len(series[k][d]) :
            series[k][d][i].measured \/ series[k][d][i].x = 1

IInv == TypeOK /\ Len(log) <= MaxReply /\ PageInv

LEMMA NothingBelowOne == ASSUME NEW i \in 1 .. 0 PROVE FALSE
  OBVIOUS

\* The size of a window is at least 2, and the history is finite.
LEMMA Bounds == SeriesMax \in Nat \ {0, 1} /\ MaxReply \in Nat
  BY ClientAssumption DEF ClientAssumption

\* t is a series within its bound, of points of s and the point p.
Extends(s, p, t) ==
  /\ t \in Seq(Points) /\ Len(t) < SeriesMax
  /\ \A i \in 1 .. Len(t) : t[i] = p \/ \E j \in 1 .. Len(s) : t[i] = s[j]

\* A series a point is appended to and that is cut keeps its length bound, and
\* holds nothing but its old points and the new one.
LEMMA TrimmedFacts ==
  ASSUME NEW s \in Seq(Points), NEW p \in Points, Len(s) < SeriesMax
  PROVE  Extends(s, p, Trimmed(Append(s, p)))
<1> DEFINE t == Trimmed(Append(s, p))
<1> SUFFICES /\ t \in Seq(Points) /\ Len(t) < SeriesMax
             /\ \A i \in 1 .. Len(t) :
                  t[i] = p \/ \E j \in 1 .. Len(s) : t[i] = s[j]
  BY Zenon DEF Extends
<1> DEFINE a == Append(s, p)
<1>1. /\ a \in Seq(Points) /\ Len(s) \in Nat /\ Len(a) = Len(s) + 1
      /\ SeriesMax \in Nat \ {0, 1}
      /\ \A i \in 1 .. Len(s) : a[i] = s[i]
      /\ a[Len(s) + 1] = p
  BY AppendProperties, LenProperties, Bounds
<1> HIDE DEF a
<1>2. CASE Len(a) >= SeriesMax
  <2>1. Len(a) = SeriesMax /\ Trimmed(a) = SubSeq(a, 2, Len(a))
    <3>1. Len(a) = SeriesMax /\ Len(a) - SeriesMax + 2 = 2
      BY <1>1, <1>2
    <3> QED BY <1>2, <3>1, Zenon DEF Trimmed
  <2>2. /\ SubSeq(a, 2, Len(a)) \in Seq(Points)
        /\ Len(SubSeq(a, 2, Len(a))) = Len(a) - 1
        /\ \A i \in 1 .. Len(a) - 1 : SubSeq(a, 2, Len(a))[i] = a[i + 1]
    BY <1>1, <2>1, SubSeqProperties
  <2>3. \A i \in 1 .. Len(a) : a[i] = p \/ \E j \in 1 .. Len(s) : a[i] = s[j]
    BY <1>1
  <2> QED BY <1>1, <2>1, <2>2, <2>3 DEF a
<1>3. CASE Len(a) < SeriesMax
  BY <1>1, <1>3 DEF Trimmed, a
<1> QED BY <1>1, <1>2, <1>3

\* The point update pushes.
LEMMA PointFacts ==
  ASSUME IInv, NEW k
  PROVE  /\ Point(k) \in Points
         /\ Point(k).x = Len(log) + 1 /\ (k \in getData => Point(k).measured)
<1>1. Len(log) \in Nat /\ Len(log) <= MaxReply /\ MaxReply \in Nat
  BY LenProperties, Bounds DEF IInv, TypeOK
<1>2. Len(log) + 1 \in 1 .. MaxReply + 1
  BY <1>1
<1>3. Point(k) \in Points
  <2>1. CASE k \in getData
    <3>1. Point(k) = [x |-> Len(log) + 1, measured |-> TRUE]
      BY <2>1, Zenon DEF Point
    <3> QED BY <1>2, <3>1 DEF Points
  <2>2. CASE k \notin getData
    <3>1. (k \in getData) = FALSE
      BY <2>2
    <3>2. Point(k) = [x |-> Len(log) + 1, measured |-> FALSE]
      BY <3>1, Zenon DEF Point
    <3> QED BY <1>2, <3>2 DEF Points
  <2> QED BY <2>1, <2>2
<1>4. Point(k).x = Len(log) + 1
  BY DEF Point
<1>5. k \in getData => Point(k).measured
  BY Zenon DEF Point
<1> QED BY <1>3, <1>4, <1>5

\* What update(data) does to the types, and to the points of each series.
LEMMA UpdateFacts ==
  ASSUME IInv, NEW f \in Fleets, Update(f)
  PROVE  /\ \A k \in Key, d \in Index :
              /\ series'[k][d] \in Seq(Points) /\ Len(series'[k][d]) < SeriesMax
              /\ \A i \in 1 .. Len(series'[k][d]) :
                   \/ series'[k][d][i] = Point(k)
                   \/ \E j \in 1 .. Len(series[k][d]) : series'[k][d][i] = series[k][d][j]
         /\ label' = "OK" /\ redrawn' \in BOOLEAN
         /\ log' \in Seq(Fleets) /\ Len(log') <= MaxReply
<1>1. ASSUME NEW k \in Key, NEW d \in Index
      PROVE  /\ series'[k][d] \in Seq(Points) /\ Len(series'[k][d]) < SeriesMax
             /\ \A i \in 1 .. Len(series'[k][d]) :
                  \/ series'[k][d][i] = Point(k)
                  \/ \E j \in 1 .. Len(series[k][d]) : series'[k][d][i] = series[k][d][j]
  <2>1. series[k][d] \in Seq(Points) /\ Len(series[k][d]) < SeriesMax
    BY DEF IInv, TypeOK
  <2>2. \/ series'[k][d] = Trimmed(Append(series[k][d], Point(k)))
        \/ series'[k][d] = series[k][d]
    BY DEF Update
  <2>3. CASE series'[k][d] = Trimmed(Append(series[k][d], Point(k)))
    <3>1. Extends(series[k][d], Point(k), series'[k][d])
      BY <2>1, <2>3, PointFacts, TrimmedFacts, Zenon
    <3> QED BY <3>1 DEF Extends
  <2>4. CASE series'[k][d] = series[k][d]
    BY <2>1, <2>4
  <2> QED BY <2>2, <2>3, <2>4
<1>2. label' = "OK" /\ redrawn' \in BOOLEAN
  BY DEF Update
<1>3. log' \in Seq(Fleets) /\ Len(log') <= MaxReply
  <2>1. log \in Seq(Fleets) /\ Len(log) \in Nat /\ Len(log) <= MaxReply /\ MaxReply \in Nat
    BY LenProperties, Bounds DEF IInv, TypeOK
  <2>2. CASE Len(log) < MaxReply
    BY <2>1, <2>2, AppendProperties DEF Update
  <2>3. CASE ~(Len(log) < MaxReply)
    BY <2>1, <2>3 DEF Update
  <2> QED BY <2>2, <2>3
<1> QED BY <1>1, <1>2, <1>3

LEMMA InitInv == Init => IInv
<1> SUFFICES ASSUME Init PROVE IInv
  OBVIOUS
<1>1. /\ <<>> \in Seq(Points) /\ <<>> \in Seq(Fleets)
      /\ Len(<<>>) = 0 /\ 0 < SeriesMax /\ 0 <= MaxReply
  BY EmptySeq, Bounds
<1>2. \A k \in Key, d \in Index : series[k][d] = <<>>
  BY DEF Init
<1>3. TypeOK
  BY <1>1, <1>2 DEF Init, TypeOK
<1> QED BY <1>1, <1>2, <1>3 DEF Init, IInv, PageInv

\* Steps that leave the series and the graphs alone.
LEMMA QuietStep ==
  ASSUME IInv, UNCHANGED <<series, getData, drawn, log>>,
         daemon' \in Fleets \union {Down}, devices' \in Fleets \union {NoDevices},
         label' \in {"", "OK", "Interrupted"}, redrawn' \in BOOLEAN,
         \/ page' = page
         \/ page = "init" /\ page' \in {"first", "aborted"}
         \/ page = "first" /\ page' \in {"draw", "aborted"}
  PROVE  IInv'
<1>1. TypeOK'
  BY DEF IInv, TypeOK
<1>2. ASSUME page = "first"
      PROVE  \A k \in Key, d \in Index : Len(series[k][d]) = 0
  BY <1>2, EmptySeq DEF IInv, PageInv
<1>3. PageInv'
  <2>1. CASE page' = page
    BY ZenonT(60), <2>1 DEF IInv, PageInv
  <2>2. CASE page = "init" /\ page' \in {"first", "aborted"}
    BY <2>2 DEF IInv, PageInv
  <2>3. CASE page = "first" /\ page' \in {"draw", "aborted"}
    <3>1. series' = series
      OBVIOUS
    <3>2. \A k \in Key, d \in Index : Len(series'[k][d]) = 0
      BY <1>2, <2>3, <3>1
    <3>3. drawn' = {}
      BY <2>3 DEF IInv, PageInv
    <3>4. \A k \in Key, d \in Index : \A i \in 1 .. Len(series'[k][d]) :
            series'[k][d][i].x = 1
      <4> SUFFICES ASSUME NEW k \in Key, NEW d \in Index,
                          NEW i \in 1 .. Len(series'[k][d])
                   PROVE  FALSE
        OBVIOUS
      <4>1. Len(series'[k][d]) = 0
        BY <3>2
      <4>2. i \in 1 .. 0
        BY <4>1
      <4> QED BY <4>2, NothingBelowOne
    <3> QED BY <2>3, <3>3, <3>4 DEF PageInv
  <2> QED BY <2>1, <2>2, <2>3
<1> QED BY <1>1, <1>3 DEF IInv

\* Every step of the page or the daemon keeps the invariant.
LEMMA NextInv == IInv /\ [Next]_vars => IInv'
<1> SUFFICES ASSUME IInv, [Next]_vars PROVE IInv'
  OBVIOUS
<1> USE DEF Full, None, Cut, pageVars
<1>0. TypeOK /\ PageInv
  BY DEF IInv
<1>1. CASE AjaxInit \/ AjaxInitFails
  BY <1>0, <1>1, QuietStep DEF AjaxInit, AjaxInitFails, TypeOK
<1>2. CASE FirstUpdate
  <2>1. /\ daemon \in Fleets /\ Update(daemon)
        /\ page' \in {"draw", "aborted"}
        /\ UNCHANGED <<daemon, devices, getData, drawn>>
    BY <1>0, <1>2 DEF FirstUpdate, TypeOK
  <2>2. TypeOK' /\ Len(log') <= MaxReply
    BY <1>0, <2>1, UpdateFacts DEF TypeOK
  <2>3. Len(log) = 0 /\ \A k \in Key, d \in Index : Len(series[k][d]) = 0
    BY <1>0, <1>2, EmptySeq DEF FirstUpdate, PageInv
  <2>4. \A k \in Key, d \in Index : \A i \in 1 .. Len(series'[k][d]) :
          series'[k][d][i].x = 1
    BY <2>1, <2>3, UpdateFacts, PointFacts
  <2>5. PageInv'
    BY <1>0, <1>2, <2>1, <2>4 DEF FirstUpdate, PageInv
  <2> QED BY <2>2, <2>5 DEF IInv
<1>3. CASE FirstUpdateEmpty \/ FirstUpdateCut
  BY <1>0, <1>3, QuietStep
  DEF FirstUpdateEmpty, FirstUpdateCut, UpdateInterrupted, TypeOK
<1>4. CASE AddGraphs
  <2>1. TypeOK'
    BY <1>0, <1>4 DEF AddGraphs, TypeOK
  <2>2. PageInv'
    BY <1>0, <1>4 DEF AddGraphs, PageInv
  <2> QED BY <1>4, <2>1, <2>2 DEF AddGraphs, IInv
<1>5. CASE Poll
  <2>1. /\ daemon \in Fleets /\ Update(daemon) /\ page = "polling"
        /\ UNCHANGED <<daemon, page, devices, getData, drawn>>
    BY <1>0, <1>5 DEF Poll, TypeOK
  <2>2. TypeOK' /\ Len(log') <= MaxReply
    BY <1>0, <2>1, UpdateFacts DEF TypeOK
  <2>3. ASSUME NEW k \in drawn, NEW d \in Index, NEW i \in 1 .. Len(series'[k][d])
        PROVE  series'[k][d][i].measured \/ series'[k][d][i].x = 1
    <3>1. k \in Key /\ k \in getData
      BY <1>0, <2>1 DEF TypeOK, PageInv
    <3>2. CASE series'[k][d][i] = Point(k)
      BY <3>1, <3>2, PointFacts
    <3>3. CASE \E j \in 1 .. Len(series[k][d]) : series'[k][d][i] = series[k][d][j]
      BY <1>0, <2>1, <3>3 DEF PageInv
    <3> QED BY <2>1, <3>1, <3>2, <3>3, UpdateFacts
  <2>4. PageInv'
    BY <1>0, <2>1, <2>3 DEF PageInv
  <2> QED BY <2>2, <2>4 DEF IInv
<1>6. CASE PollEmpty \/ PollCut
  BY <1>0, <1>6, QuietStep DEF PollEmpty, PollCut, UpdateInterrupted, TypeOK
<1>7. CASE DaemonStarts \/ DaemonEnds \/ UNCHANGED vars
  BY <1>0, <1>7, QuietStep DEF DaemonStarts, DaemonEnds, vars, TypeOK
<1> QED BY <1>1, <1>2, <1>3, <1>4, <1>5, <1>6, <1>7 DEF Next, Script

LEMMA Invariance == Spec => []IInv
<1> QED BY InitInv, NextInv, PTL DEF Spec

\* Every variable of the page keeps its type, and no series ever reaches
\* SERIES_MAX points, whatever daemons the page meets.
THEOREM TypeCorrect == Spec => []TypeOK
<1>1. IInv => TypeOK
  BY DEF IInv
<1> QED BY <1>1, Invariance, PTL

\* Of a graph on the page only the point of the first update may be a 0 that
\* nobody measured.
THEOREM PlaceholderIsFirst == Spec => []OnlyFirstUnmeasured
<1>1. IInv => OnlyFirstUnmeasured
  <2> SUFFICES ASSUME IInv, NEW k \in drawn, NEW d \in DOMAIN devices,
                      NEW i \in 1 .. Len(series[k][d])
               PROVE  series[k][d][i].measured \/ series[k][d][i].x = 1
    BY DEF OnlyFirstUnmeasured
  <2>1. page = "polling"
    BY DEF IInv, PageInv, TypeOK
  <2>2. d \in Index
    BY DEF IInv, TypeOK, Index, NoDevices
  <2> QED BY <2>1, <2>2 DEF IInv, PageInv
<1> QED BY <1>1, Invariance, PTL

-----------------------------------------------------------------------------
(* The series as a window of the replies. *)

\* The positions of s are in order; they are positions of r; and one of r is
\* missing only if the series is full and starts after it.
Window(s, r) ==
  /\ \A i, j \in 1 .. Len(s) : i < j => s[i].x < s[j].x
  /\ \A i \in 1 .. Len(s) : s[i].x \in r
  /\ \A m \in r :
       \/ \E i \in 1 .. Len(s) : s[i].x = m
       \/ Len(s) = SeriesMax - 1 /\ m < s[1].x

WindowInv ==
  Len(log) < MaxReply =>
    \A k \in Key, d \in DOMAIN devices : Window(series[k][d], Replies(k, d))

\* A window stays one when the newest reply is appended and the oldest cut.
LEMMA PushWindow ==
  ASSUME NEW s \in Seq(Points), NEW p \in Points, Len(s) < SeriesMax,
         NEW r, \A m \in r : m \in Nat /\ m < p.x, Window(s, r)
  PROVE  Window(Trimmed(Append(s, p)), r \union {p.x})
<1> DEFINE a == Append(s, p)
<1> DEFINE t == Trimmed(a)
<1> DEFINE n == Len(s)
<1>1. n \in Nat /\ SeriesMax \in Nat \ {0, 1} /\ n <= SeriesMax - 1 /\ p.x \in Nat
  BY LenProperties, Bounds DEF Points
<1>2. /\ a \in Seq(Points) /\ Len(a) = n + 1
      /\ \A i \in 1 .. n : a[i] = s[i]
      /\ a[n + 1] = p
  BY AppendProperties
<1>3. \A i \in 1 .. n : s[i].x \in Nat
  <2>1. \A i \in 1 .. n : s[i] \in Points
    BY ElementOfSeq
  <2> QED BY <2>1, Bounds DEF Points
<1>4. \A i, j \in 1 .. n : i < j => s[i].x < s[j].x
  BY DEF Window
<1>5. \A i \in 1 .. n : s[i].x \in r /\ s[i].x < p.x
  BY DEF Window
<1>6. \A m \in r : (\E i \in 1 .. n : s[i].x = m)
                   \/ (n = SeriesMax - 1 /\ m < s[1].x)
  BY DEF Window
<1>7. CASE n < SeriesMax - 1
  <2>1. t = a
    BY <1>1, <1>2, <1>7 DEF Trimmed
  <2>2. ASSUME NEW i \in 1 .. n + 1, NEW j \in 1 .. n + 1, i < j
        PROVE  a[i].x < a[j].x
    BY <1>1, <1>2, <1>4, <1>5, <2>2
  <2>3. ASSUME NEW i \in 1 .. n + 1
        PROVE  a[i].x \in r \union {p.x}
    BY <1>1, <1>2, <1>5
  <2>4. ASSUME NEW m \in r \union {p.x}
        PROVE  \E i \in 1 .. n + 1 : a[i].x = m
    BY <1>1, <1>2, <1>6, <1>7
  <2> QED BY <1>2, <2>1, <2>2, <2>3, <2>4 DEF Window
<1>8. CASE n = SeriesMax - 1
  <2>1. Len(a) = SeriesMax /\ Len(a) - SeriesMax + 2 = 2
    BY <1>1, <1>2, <1>8
  <2>2. t = SubSeq(a, 2, Len(a))
    <3>1. Len(a) >= SeriesMax
      BY <1>1, <2>1
    <3> HIDE DEF a
    <3>2. t = SubSeq(a, Len(a) - SeriesMax + 2, Len(a))
      BY <3>1, Zenon DEF Trimmed
    <3> QED BY <2>1, <3>2
  <2>3. Len(t) = n /\ \A i \in 1 .. n : t[i] = a[i + 1]
    <3> HIDE DEF a, t
    <3>1. \A i \in 2 .. Len(a) : a[i] \in Points
      BY <1>1, <1>2, ElementOfSeq
    <3>2. 2 \in Int /\ Len(a) \in Int
      BY <1>1, <1>2
    <3>3. /\ Len(t) = IF 2 <= Len(a) THEN Len(a) - 2 + 1 ELSE 0
          /\ \A i \in 1 .. Len(a) - 2 + 1 : t[i] = a[2 + i - 1]
      BY <2>2, <3>1, <3>2, SubSeqProperties
    <3>4. Len(a) - 2 + 1 = n /\ 2 <= Len(a) /\ n \in Nat
      BY <1>1, <1>2, <2>1, <1>8
    <3>5. \A i \in 1 .. n : 2 + i - 1 = i + 1
      BY <1>1
    <3> QED BY <3>3, <3>4, <3>5
  <2>4. \A i \in 1 .. n : t[i] = IF i = n THEN p ELSE s[i + 1]
    BY <1>1, <1>2, <2>3
  <2> HIDE DEF t, a, n
  <2>5. ASSUME NEW i \in 1 .. n, NEW j \in 1 .. n, i < j
        PROVE  t[i].x < t[j].x
    <3>1. i < n /\ t[i] = s[i + 1] /\ i + 1 \in 1 .. n
      BY <1>1, <2>4, <2>5
    <3>2. CASE j = n
      BY <1>5, <2>4, <3>1, <3>2
    <3>3. CASE j < n
      <4>1. t[j] = s[j + 1] /\ j + 1 \in 1 .. n /\ i + 1 < j + 1
        BY <1>1, <2>4, <2>5, <3>3
      <4> QED BY <1>4, <3>1, <4>1
    <3> QED BY <1>1, <3>2, <3>3
  <2>6. ASSUME NEW i \in 1 .. n
        PROVE  t[i].x \in r \union {p.x}
    BY <1>1, <1>5, <2>4
  <2>7. ASSUME NEW m \in r \union {p.x}
        PROVE  (\E i \in 1 .. n : t[i].x = m) \/ m < t[1].x
    <3>0. n >= 1 /\ s[1].x < t[1].x
      BY <1>1, <1>4, <1>5, <1>8, <2>4
    <3>1. CASE m = p.x
      <4>1. n \in 1 .. n
        BY <1>1, <3>0
      <4>2. t[n] = p
        BY Zenon, <2>4, <4>1
      <4> QED BY Zenon, <3>1, <4>1, <4>2
    <3>2. CASE \E i \in 1 .. n : s[i].x = m
      <4>1. PICK i \in 1 .. n : s[i].x = m
        BY <3>2
      <4>2. CASE i = 1
        BY <3>0, <4>1, <4>2
      <4>3. CASE i > 1
        <5>1. i - 1 \in 1 .. n /\ t[i - 1] = s[i]
          BY <1>1, <2>4, <4>3
        <5> QED BY <4>1, <5>1
      <4> QED BY <4>2, <4>3
    <3>3. CASE m \in r /\ m < s[1].x
      BY <1>1, <1>3, <1>5, <2>4, <3>0, <3>3, <2>6
    <3> QED BY <1>6, <3>1, <3>2, <3>3
  <2>8. \A m \in r \union {p.x} :
          (\E i \in 1 .. Len(t) : t[i].x = m) \/ (Len(t) = SeriesMax - 1 /\ m < t[1].x)
    BY <1>8, <2>3, <2>7
  <2> QED BY <2>3, <2>5, <2>6, <2>8 DEF Window, t, a
<1> QED BY <1>1, <1>7, <1>8

\* The elements of a window are the SeriesMax - 1 greatest of r.
LEMMA WindowIsNewest ==
  ASSUME NEW s \in Seq(Points), Len(s) < SeriesMax,
         NEW N \in Nat, NEW r \in SUBSET (1 .. N), Window(s, r)
  PROVE  {s[i].x : i \in 1 .. Len(s)} =
           {n \in r : Cardinality({m \in r : m > n}) < SeriesMax - 1}
<1> DEFINE l == Len(s)
<1> DEFINE Above(n) == {m \in r : m > n}
<1>1. l \in Nat /\ SeriesMax \in Nat \ {0, 1} /\ l <= SeriesMax - 1
  BY LenProperties, Bounds
<1>2. \A i, j \in 1 .. l : i < j => s[i].x < s[j].x
  BY DEF Window
<1>3. \A i \in 1 .. l : s[i].x \in r /\ s[i].x \in Nat
  <2>1. \A i \in 1 .. l : s[i].x \in r
    BY Zenon DEF Window
  <2>2. \A m \in r : m \in Nat
    OBVIOUS
  <2> QED BY <2>1, <2>2
<1>4. \A m \in r : (\E i \in 1 .. l : s[i].x = m)
                   \/ (l = SeriesMax - 1 /\ m < s[1].x)
  BY DEF Window
<1> HIDE DEF l
<1>5. \A n \in r : IsFiniteSet(Above(n)) /\ Cardinality(Above(n)) \in Nat
  <2>1. IsFiniteSet(1 .. N)
    BY FS_Interval
  <2>2. \A n \in r : Above(n) \in SUBSET (1 .. N)
    OBVIOUS
  <2> HIDE DEF Above
  <2> QED BY <2>1, <2>2, FS_Subset, FS_CardinalityType
<1>6. ASSUME NEW i \in 1 .. l
      PROVE  Cardinality(Above(s[i].x)) < SeriesMax - 1
  <2> DEFINE S == i + 1 .. l
  <2> DEFINE T == Above(s[i].x)
  <2> DEFINE f == [j \in S |-> s[j].x]
  <2>1. IsFiniteSet(S) /\ Cardinality(S) = l - i
    <3>1. i + 1 \in Int /\ l \in Int
      BY <1>1
    <3>2. IsFiniteSet(S) /\ Cardinality(S) = IF i + 1 > l THEN 0 ELSE l - (i + 1) + 1
      BY <3>1, FS_Interval
    <3> QED BY <1>1, <3>2
  <2>2. f \in [S -> T]
    BY <1>1, <1>2, <1>3
  <2>3. ASSUME NEW m \in T
        PROVE  \E j \in S : f[j] = m
    <3>0. m \in r /\ m > s[i].x
      BY Zenon
    <3>1. m \in r /\ m \in Nat /\ m > s[i].x
      BY <3>0
    <3>2. s[1].x <= s[i].x
      BY <1>1, <1>2, <1>3
    <3>3. s[1].x \in Nat /\ s[i].x \in Nat
      BY <1>1, <1>3
    <3>4. PICK j \in 1 .. l : s[j].x = m
      BY <1>4, <3>1, <3>2, <3>3
    <3>5. j > i
      BY SMTT(30), <1>2, <1>3, <3>1, <3>4, <1>1
    <3>6. j \in S
      BY <1>1, <3>5
    <3> QED BY <3>4, <3>6
  <2>4. f \in Surjection(S, T)
    BY <2>2, <2>3 DEF Surjection
  <2> HIDE DEF f, S, T
  <2>5. Cardinality(T) <= l - i
    BY <2>1, <2>4, FS_Surjection
  <2>6. Cardinality(T) \in Nat
    BY <1>3, <1>5 DEF T
  <2>7. Cardinality(T) < SeriesMax - 1
    BY <1>1, <2>5, <2>6
  <2> QED BY <2>7 DEF T
<1>7. ASSUME NEW n \in r, Cardinality(Above(n)) < SeriesMax - 1,
             ~ \E i \in 1 .. l : s[i].x = n
      PROVE  FALSE
  <2> DEFINE S == 1 .. l
  <2> DEFINE T == Above(n)
  <2> DEFINE f == [j \in S |-> s[j].x]
  <2>1. l = SeriesMax - 1 /\ n < s[1].x
    BY <1>4, <1>7
  <2>2. IsFiniteSet(S) /\ Cardinality(S) = l
    <3>1. 1 \in Int /\ l \in Int
      BY <1>1
    <3>2. IsFiniteSet(S) /\ Cardinality(S) = IF 1 > l THEN 0 ELSE l - 1 + 1
      BY <3>1, FS_Interval
    <3> QED BY <1>1, <3>2
  <2>3. \A j \in S : s[1].x <= s[j].x
    BY <1>1, <1>2, <1>3
  <2>4. f \in [S -> T]
    <3> SUFFICES ASSUME NEW j \in S PROVE s[j].x \in r /\ s[j].x > n
      OBVIOUS
    <3>1. n \in Nat /\ s[1].x \in Nat /\ s[j].x \in Nat
      BY <1>1, <1>3
    <3> QED BY <1>3, <2>1, <2>3, <3>1
  <2>5. f \in Injection(S, T)
    <3>1. ASSUME NEW i \in S, NEW j \in S, f[i] = f[j]
          PROVE  i = j
      <4>1. s[i].x = s[j].x /\ s[i].x \in Nat /\ s[j].x \in Nat
        BY <1>3, <3>1
      <4>2. ~(i < j) /\ ~(j < i)
        BY <1>2, <4>1
      <4> QED BY <4>2
    <3>2. DOMAIN f = S
      OBVIOUS
    <3> HIDE DEF f
    <3> QED BY <2>4, <3>1, <3>2 DEF Injection, IsInjective
  <2> HIDE DEF f, S, T
  <2>6. IsFiniteSet(T) /\ Cardinality(T) \in Nat
    BY <1>5 DEF T
  <2>7. Cardinality(S) <= Cardinality(T)
    BY <2>5, <2>6, FS_Injection
  <2>8. Cardinality(T) < SeriesMax - 1
    BY <1>7 DEF T
  <2> QED BY <1>1, <2>1, <2>2, <2>6, <2>7, <2>8
<1>8. {s[i].x : i \in 1 .. l} = {n \in r : Cardinality(Above(n)) < SeriesMax - 1}
  <2> HIDE DEF Above
  <2> QED BY <1>3, <1>6, <1>7
<1> QED BY <1>8 DEF l, Above

\* The loop of update gets as far as every device that the page knows.
LEMMA ReachedKnown ==
  ASSUME TypeOK, NEW f \in Fleets, NEW d \in DOMAIN f, d \in DOMAIN devices
  PROVE  d \in Reached(f)
<1>1. /\ IsFiniteSet(DOMAIN f)
      /\ f \in [0 .. Cardinality(DOMAIN f) - 1 -> SUBSET Key]
  BY ClientAssumption DEF ClientAssumption
<1>2. devices \in Fleets
  BY DEF TypeOK, NoDevices
<1>3. /\ IsFiniteSet(DOMAIN devices)
      /\ devices \in [0 .. Cardinality(DOMAIN devices) - 1 -> SUBSET Key]
  BY <1>2, ClientAssumption DEF ClientAssumption
<1>4. Cardinality(DOMAIN f) \in Nat /\ Cardinality(DOMAIN devices) \in Nat
  BY <1>1, <1>3, FS_CardinalityType
<1>5. PICK a \in Nat : DOMAIN f = 0 .. a - 1
  BY <1>1, <1>4
<1>6. PICK b \in Nat : DOMAIN devices = 0 .. b - 1
  BY <1>3, <1>4
<1>7. ASSUME NEW e \in DOMAIN f, e <= d
      PROVE  e \in DOMAIN devices
  BY <1>5, <1>6, <1>7
<1> QED BY <1>7 DEF Reached

\* update keeps the series of the known devices windows of the replies.
LEMMA UpdateWindow ==
  ASSUME IInv, WindowInv, NEW f \in Fleets, Update(f), devices' = devices
  PROVE  WindowInv'
<1> SUFFICES ASSUME Len(log') < MaxReply, NEW k \in Key, NEW d \in DOMAIN devices
             PROVE  Window(series'[k][d], Replies(k, d)')
  BY DEF WindowInv
<1> DEFINE r == Replies(k, d)
<1> DEFINE q == Len(log) + 1
<1>1. TypeOK /\ log \in Seq(Fleets) /\ Len(log) \in Nat /\ MaxReply \in Nat
  BY LenProperties, Bounds DEF IInv, TypeOK
<1>2. Len(log) < MaxReply /\ log' = Append(log, f)
  BY <1>1 DEF Update
<1>3. /\ Len(log') = q
      /\ \A i \in 1 .. Len(log) : log'[i] = log[i]
      /\ log'[q] = f
  BY <1>1, <1>2, AppendProperties
<1>4. r \in SUBSET (1 .. Len(log)) /\ \A m \in r : m \in Nat /\ m < q
  BY <1>1 DEF Replies
<1>5. Replies(k, d)' = IF d \in DOMAIN f /\ k \in f[d] THEN r \union {q} ELSE r
  <2>1. Replies(k, d)' =
          {n \in 1 .. q : d \in DOMAIN log'[n] /\ k \in log'[n][d]}
    BY <1>3 DEF Replies
  <2>2. 1 .. q = 1 .. Len(log) \union {q}
    BY <1>1
  <2> QED BY <1>3, <2>1, <2>2 DEF Replies
<1>6. d \in Index /\ series[k][d] \in Seq(Points) /\ Len(series[k][d]) < SeriesMax
  <2>1. d \in Index
    BY <1>1 DEF TypeOK, Index, NoDevices
  <2> QED BY <1>1, <2>1 DEF TypeOK
<1>7. Window(series[k][d], r)
  BY <1>2 DEF WindowInv
<1>8. CASE d \in DOMAIN f /\ k \in f[d]
  <2>1. d \in Reached(f)
    BY <1>1, <1>8, ReachedKnown
  <2>2. series'[k][d] = Trimmed(Append(series[k][d], Point(k)))
    BY <1>6, <1>8, <2>1 DEF Update
  <2>3. Point(k) \in Points /\ Point(k).x = q
    BY PointFacts
  <2>4. \A m \in r : m \in Nat /\ m < Point(k).x
    BY <1>4, <2>3
  <2> HIDE DEF r, q
  <2>5. Window(Trimmed(Append(series[k][d], Point(k))), r \union {Point(k).x})
    BY <1>6, <1>7, <2>3, <2>4, PushWindow
  <2> QED BY <1>5, <1>8, <2>2, <2>3, <2>5
<1>9. CASE ~(d \in DOMAIN f /\ k \in f[d])
  <2>1. series'[k][d] = series[k][d]
    BY <1>6, <1>9 DEF Update, Reached
  <2> QED BY <1>5, <1>7, <1>9, <2>1
<1> QED BY <1>8, <1>9

\* Before the first reply there is neither a point nor a reply.
LEMMA NoReplies == ASSUME log = <<>>, NEW k, NEW d PROVE Replies(k, d) = {}
<1>1. Len(log) = 0 /\ \A n \in 1 .. 0 : FALSE
  BY EmptySeq
<1> QED BY <1>1 DEF Replies

\* A graph that has not been drawn is a window of no replies.
LEMMA EmptyWindow == Window(<<>>, {})
<1>1. Len(<<>>) = 0 /\ \A n \in 1 .. 0 : FALSE
  BY EmptySeq
<1> QED BY <1>1 DEF Window

\* Every update keeps every series a window, also one that throws half way.
LEMMA WindowStep == IInv /\ WindowInv /\ [Next]_vars => WindowInv'
<1> SUFFICES ASSUME IInv, WindowInv, [Next]_vars PROVE WindowInv'
  OBVIOUS
<1> USE DEF Full, None, Cut, pageVars
<1>0. TypeOK /\ PageInv
  BY DEF IInv
<1>1. CASE UNCHANGED <<devices, series, log>>
  BY <1>1 DEF WindowInv, Replies
<1>2. CASE AjaxInit
  <2>1. page = "init" /\ daemon \in Fleets /\ devices' = daemon /\ UNCHANGED <<series, log>>
    BY <1>0, <1>2 DEF AjaxInit, TypeOK
  <2>2. log = <<>> /\ \A k \in Key, d \in Index : series'[k][d] = <<>>
    BY <1>0, <2>1 DEF PageInv
  <2>3. DOMAIN devices' \subseteq Index
    BY <2>1 DEF Index
  <2>4. \A k \in Key, d \in DOMAIN devices' : Replies(k, d)' = {}
    <3>1. \A k, d : Replies(k, d) = {}
      BY <2>2, NoReplies
    <3> QED BY <2>1, <3>1 DEF Replies
  <2>5. \A k \in Key, d \in DOMAIN devices' : Window(series'[k][d], Replies(k, d)')
    BY <2>2, <2>3, <2>4, EmptyWindow
  <2> QED BY <2>5 DEF WindowInv
<1>3. CASE FirstUpdate \/ Poll
  <2>1. daemon \in Fleets /\ Update(daemon) /\ devices' = devices
    BY <1>0, <1>3 DEF FirstUpdate, Poll, TypeOK
  <2> QED BY <2>1, UpdateWindow
<1>4. CASE AjaxInitFails \/ FirstUpdateEmpty \/ FirstUpdateCut \/ AddGraphs
           \/ PollEmpty \/ PollCut \/ DaemonStarts \/ DaemonEnds \/ UNCHANGED vars
  <2>1. UNCHANGED <<devices, series, log>>
    BY <1>4 DEF AjaxInitFails, FirstUpdateEmpty, FirstUpdateCut, AddGraphs,
                PollEmpty, PollCut, DaemonStarts, DaemonEnds, vars, UpdateInterrupted
  <2> QED BY <1>1, <2>1
<1> QED BY <1>2, <1>3, <1>4 DEF Next, Script

\* The series of a device init reported is the window of its newest points:
\* the last SERIES_MAX - 1 replies that had the key, in order, whatever failed
\* in between and though update throws on devices that appeared since.
THEOREM SeriesIsExact == Spec => []SeriesIsWindow
<1>1. Init => WindowInv
  <2> SUFFICES ASSUME Init PROVE WindowInv
    OBVIOUS
  <2>1. log = <<>> /\ DOMAIN devices = {}
    BY DEF Init, NoDevices
  <2> QED BY <2>1 DEF WindowInv
<1>2. IInv /\ WindowInv => SeriesIsWindow
  <2> SUFFICES ASSUME IInv, WindowInv, Len(log) < MaxReply,
                      NEW k \in Key, NEW d \in DOMAIN devices
               PROVE  LET s == series[k][d]
                          r == Replies(k, d)
                      IN  /\ \A i, j \in 1 .. Len(s) : i < j => s[i].x < s[j].x
                          /\ {s[i].x : i \in 1 .. Len(s)} =
                               {n \in r : Cardinality({m \in r : m > n}) < SeriesMax - 1}
    BY DEF SeriesIsWindow
  <2> DEFINE s == series[k][d]
  <2> DEFINE r == Replies(k, d)
  <2>1. d \in Index
    BY DEF IInv, TypeOK, Index, NoDevices
  <2>2. s \in Seq(Points) /\ Len(s) < SeriesMax
    BY <2>1 DEF IInv, TypeOK
  <2>3. Len(log) \in Nat /\ r \in SUBSET (1 .. Len(log))
    BY LenProperties DEF IInv, TypeOK, Replies
  <2>4. Window(s, r)
    BY DEF WindowInv
  <2> HIDE DEF s, r
  <2>5. {s[i].x : i \in 1 .. Len(s)} =
          {n \in r : Cardinality({m \in r : m > n}) < SeriesMax - 1}
    BY <2>2, <2>3, <2>4, WindowIsNewest
  <2>6. \A i, j \in 1 .. Len(s) : i < j => s[i].x < s[j].x
    BY <2>4 DEF Window
  <2> QED BY <2>5, <2>6 DEF s, r
<1> QED BY <1>1, <1>2, Invariance, WindowStep, PTL DEF Spec
=============================================================================
