------------------------------ MODULE Options ------------------------------
(***************************************************************************)
(* The options mongoose is started with: how mg_start keeps them and       *)
(* mg_get_option returns them, how a list of values is taken apart, and    *)
(* what extra_mime_types and the built-in table say of a file.             *)
(* A text is a sequence of character codes.                                *)
(***************************************************************************)
EXTENDS Uri

CONSTANTS
  ConfigOptions,    \* config_options: a sequence of [short, long, default]
  Builtin,          \* builtin_mime_types: a sequence of [extension, type]
  PlainText,        \* "text/plain"
  Unset             \* no value

Comma == 44

-----------------------------------------------------------------------------
(* mg_start's options and mg_get_option *)

\* The place of an option by either of its names, 0 if there is none.
GetOptionIndex(name) ==
  SelectInSeq(ConfigOptions, LAMBDA o : name \in {o.short, o.long})

\* Mutant: the first value of an option given twice is kept.
SetOptionOnce(config, option) ==
  LET i == GetOptionIndex(option.name) IN
    IF config = Unset \/ i = 0 \/ option.value = Unset THEN Unset
    ELSE IF config[i] # Unset THEN config
    ELSE [config EXCEPT ![i] = option.value]

\* One turn of the loop: an unknown name or a missing value ends mg_start,
\* an option given twice is replaced.
SetOption(config, option) ==
  LET i == GetOptionIndex(option.name) IN
    IF config = Unset \/ i = 0 \/ option.value = Unset THEN Unset
    ELSE [config EXCEPT ![i] = option.value]

\* ctx->config, Unset if mg_start returns NULL.
StartConfig(options) ==
  LET set == FoldLeft(SetOption, [i \in DOMAIN ConfigOptions |-> Unset], options) IN
    IF set = Unset THEN Unset
    ELSE [i \in DOMAIN set |-> IF set[i] = Unset THEN ConfigOptions[i].default ELSE set[i]]

MgGetOption(config, name) ==
  LET i == GetOptionIndex(name) IN
    IF i = 0 THEN Unset ELSE IF config[i] = Unset THEN <<>> ELSE config[i]

-----------------------------------------------------------------------------
(* next_option *)

\* Mutant: the value of an entry starts behind its last equals sign.
EntryOfLast(item) ==
  LET eq == SelectLastInSeq(item, LAMBDA c : c = Equals) IN
    IF eq = 0 THEN [val |-> item, eqVal |-> Unset]
    ELSE [val |-> SubSeq(item, 1, eq - 1), eqVal |-> SubSeq(item, eq + 1, Len(item))]

\* An item has the form x=y or x; the value of x, a NULL pointer, is not that of
\* "x=", an empty text.
EntryOf(item) ==
  LET eq == SelectInSeq(item, LAMBDA c : c = Equals) IN
    IF eq = 0 THEN [val |-> item, eqVal |-> Unset]
    ELSE [val |-> SubSeq(item, 1, eq - 1), eqVal |-> SubSeq(item, eq + 1, Len(item))]

\* The first entry of a list that is not at its end, and the list behind it.
NextOption(list) ==
  LET comma == Scan(list, 1, {Comma}) IN
    [entry |-> EntryOf(SubSeq(list, 1, comma - 1)),
     rest  |-> SubSeq(list, comma + 1, Len(list))]

\* What a loop over next_option visits.
RECURSIVE Entries(_)
Entries(list) ==
  IF list = <<>> THEN <<>>
  ELSE <<NextOption(list).entry>> \o Entries(NextOption(list).rest)

-----------------------------------------------------------------------------
(* get_mime_type *)

\* The last n characters in front of the end of path; where it is shorter they
\* are read from the memory below it.
LastOf(below, path, n) == SubSeq(below \o path, Len(below \o path) - n + 1, Len(below \o path))

\* mg_get_builtin_mime_type: a path is longer than the extension it has.
MgGetBuiltinMimeType(path) ==
  LET k == SelectInSeq(Builtin, LAMBDA b :
             /\ Len(path) > Len(b.extension)
             /\ SameLetters(LastOf(<<>>, path, Len(b.extension)), b.extension))
  IN IF k = 0 THEN PlainText ELSE Builtin[k].type

\* Mutant: letters are compared as they are.
MatchesExactly(below, path, extension) == LastOf(below, path, Len(extension)) = extension

Matches(below, path, extension) ==
  SameLetters(LastOf(below, path, Len(extension)), extension)

\* The entries of extra_mime_types come first, in their order; the type of one
\* without a value is empty, as its length is 0 and its pointer is not followed.
GetMimeType(extra, below, path) ==
  LET entries == Entries(extra)
      k == SelectInSeq(entries, LAMBDA e : Matches(below, path, e.val))
  IN IF k = 0 THEN MgGetBuiltinMimeType(path)
     ELSE IF entries[k].eqVal = Unset THEN <<>> ELSE entries[k].eqVal
=============================================================================
