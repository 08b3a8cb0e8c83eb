------------------------------ MODULE Listing ------------------------------
(***************************************************************************)
(* The page mongoose makes of a directory: its entries sorted the way the  *)
(* query asks for, a link to each and links that sort by another column.   *)
(* An entry has a file name (a text of Uri) and integers for the rest.     *)
(***************************************************************************)
EXTENDS Uri

\* query_string: NoQuery, or its two letters.
NoQuery == [key |-> "n", order |-> "a", given |-> FALSE]
Query(key, order) == [key |-> key, order |-> order, given |-> TRUE]

Sign(a, b) == IF a = b THEN 0 ELSE IF a > b THEN 1 ELSE -1

\* strcmp; a text that is the start of another one comes first.
StrCmp(s, t) ==
  LET differ == {k \in 1 .. Len(s) + 1 : CharAt(s, k) # CharAt(t, k)} IN
    IF s = t THEN 0
    ELSE LET k == CHOOSE k \in differ : \A j \in differ : k <= j
         IN Sign(CharAt(s, k), CharAt(t, k))

\* How two entries of the same kind compare in a column.
ByColumn(a, b, key) ==
  CASE key = "n" -> StrCmp(a.name, b.name)
    [] key = "s" -> Sign(a.size, b.size)
    [] key = "d" -> Sign(a.mtime, b.mtime)
    [] OTHER     -> 0

\* Mutant: a descending order turns the directories round too.
CompareDirEntriesAll(a, b, query) ==
  LET cmp == IF a.isDirectory # b.isDirectory THEN IF a.isDirectory THEN -1 ELSE 1
             ELSE ByColumn(a, b, query.key)
  IN IF query.order = "d" THEN -cmp ELSE cmp

CompareDirEntries(a, b, query) ==
  LET cmp == ByColumn(a, b, query.key) IN
    IF a.isDirectory # b.isDirectory THEN IF a.isDirectory THEN -1 ELSE 1
    ELSE IF query.order = "d" THEN -cmp ELSE cmp

\* The orders qsort may give the entries.
Orders(entries, query) ==
  {p \in SetToSeqs(entries) :
     \A i, j \in 1 .. Len(p) : i < j => CompareDirEntries(p[i], p[j], query) <= 0}

\* The order the links of the page ask for.
SortDirection(query) == IF query.given /\ query.order = "d" THEN "a" ELSE "d"

\* The link to an entry of the directory uri.
Link(uri, entry) ==
  uri \o UrlEncode(entry.name) \o (IF entry.isDirectory THEN <<Slash>> ELSE <<>>)
=============================================================================
