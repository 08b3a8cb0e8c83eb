------------------------------- MODULE Files -------------------------------
(***************************************************************************)
(* handle_request, from the URI to the end of the reply, by several        *)
(* workers that share one file system with each other and with             *)
(* mg_modify_passwords_file.  What is looked up (stat) and what is opened  *)
(* later need not be the same file, a file that is being read may be       *)
(* truncated by a PUT, and stdio holds back what a PUT has written.        *)
(*                                                                         *)
(* A path is a sequence of names.  fs gives the file of every path, disk   *)
(* the contents of every file: one that was removed stays as it was for    *)
(* those who have it open.  A byte is a cell: who wrote it, and which of   *)
(* his cells it is.  A line of a passwords file is a cell too: a user and  *)
(* the number of his password.  CGI programs are in Cgi, the connection in *)
(* HttpConnection.                                                         *)
(***************************************************************************)
EXTENDS Integers, Sequences, FiniteSets, SequencesExt, FiniteSetsExt

CONSTANTS
  Worker,
  Request,    \* the requests each worker may be given; see RequestType
  Path,       \* every path of the instance
  InitialFs,  \* fs and disk to begin with
  InitialDisk,
  Config,     \* options; see ConfigType
  Edit,       \* what mg_modify_passwords_file is asked to do; see EditType
  MaxLevel,   \* SSI includes deeper than this are ignored (10)
  Chunk,      \* MG_BUF_LEN, in cells
  MaxTime     \* bound on the clock

Cell(by, k) == [by |-> by, k |-> k]
Hole        == Cell("hole", 0)
CellType    == [by : {"hole"} \cup STRING \cup Worker, k : Nat]
NoPath      == <<"no path">>
Parent(p)   == Front(p)

\* slash: the URI ends in '/'; cred: the line of a passwords file that the
\* Authorization header proves; length, buffered, expect as in Cgi; range:
\* what parse_range_header returns and finds; inm, ims: the validators, the
\* etag being a time and a size.
RequestType ==
  [method : {"GET", "HEAD", "POST", "PUT", "DELETE", "OPTIONS", "PROPFIND"},
   path : Path \cup {<<>>}, slash : BOOLEAN, cred : [by : STRING, k : Nat],
   length : Int, buffered : Nat, expect : {"", "100-continue", "other"},
   range : [n : 0 .. 2, r1 : Int, r2 : Int],
   inm : [mtime : Nat, size : Nat], ims : Nat, depth0 : BOOLEAN]

\* protect: PROTECT_URI, a sequence of prefixes with their files; global, put:
\* the passwords files or NoPath; callback: what begin_request serves.  What
\* must_hide_file matches is a whole path when a file is asked for (hidden) and
\* a bare name when a directory is listed (hiddenNames): neither set follows
\* from the other.  The rest are sets of paths that match a pattern, and switches.
ConfigType ==
  [root : BOOLEAN, redirect : BOOLEAN, listing : BOOLEAN,
   callback : SUBSET Path, hidden : SUBSET Path,
   hiddenNames : SUBSET STRING, cgi : SUBSET Path, ssi : SUBSET Path,
   index : Seq(STRING), global : Path \cup {NoPath},
   put : Path \cup {NoPath}, protect : Seq([prefix : Path, file : Path]),
   passwords : STRING, includes : Seq(Path)]

\* The file, the name of its temporary, the user, and his new password or 0
\* to remove him.
EditType == [file : Path, tmp : Path, user : STRING, pass : Nat]

FileType  == [kind : {"none", "dir", "file"}, ino : Nat]
InodeType == [data : Seq(CellType), mtime : 0 .. MaxTime]

\* What a request may be: no more of a body is buffered than there is, and a
\* number that sscanf does not find stays 0.  The files there are to begin with
\* are not written by the workers.
ASSUME FilesAssumption ==
  /\ Request \in [Worker -> SUBSET RequestType]
  /\ \A w \in Worker : \A r \in Request[w] :
       /\ r.length >= -1 /\ (r.length >= 0 => r.buffered <= r.length)
       /\ r.range.n = 0 => r.range.r1 = 0
       /\ r.range.n < 2 => r.range.r2 = 0
  /\ Path \subseteq Seq(STRING) /\ Config \in ConfigType /\ Edit \in EditType
  /\ MaxLevel \in Nat /\ Chunk \in Nat \ {0} /\ MaxTime \in Nat \ {0}
  /\ InitialFs \in [Path -> FileType] /\ InitialDisk \in Seq(InodeType)
  /\ \A p \in Path : InitialFs[p].ino \in
       IF InitialFs[p].kind = "file" THEN DOMAIN InitialDisk ELSE {0}
  /\ "hole" \notin Worker /\ Edit.user \notin Worker
  /\ \A n \in DOMAIN InitialDisk : \A k \in DOMAIN InitialDisk[n].data :
       InitialDisk[n].data[k].by \notin Worker

\* The temporary file is the editor's: nothing is at its name at first, and no
\* request that changes files goes through it.
ASSUME EditAssumption ==
  /\ InitialFs[Edit.tmp].kind = "none" /\ Edit.tmp # Edit.file
  /\ \A w \in Worker : \A r \in Request[w] :
       r.method \in {"PUT", "DELETE"} => ~IsPrefix(Edit.tmp, r.path)

\* The PUT passwords file stands apart: no request that changes files goes
\* through it, it is not the one that is edited, and it has no other name.
ASSUME PutFileAssumption ==
  /\ \A w \in Worker : \A r \in Request[w] :
       r.method \in {"PUT", "DELETE"} => ~IsPrefix(Config.put, r.path)
  /\ Config.put \notin {Edit.file, Edit.tmp}
  /\ \A p \in Path :
       /\ Config.put \in Path \ {p}
       /\ InitialFs[Config.put].kind = "file" /\ InitialFs[p].kind = "file"
       => InitialFs[p].ino # InitialFs[Config.put].ino

\* The file that is edited guards the directory it is in: there is no global one,
\* and no rule of PROTECT_URI is about that directory.  It has one name, and is
\* changed by the editor alone; PUTs make no directories next to it, and its
\* directory is not the index of the one above.
ASSUME GuardAssumption ==
  LET dir == Parent(Edit.file) IN
  /\ Config.global = NoPath
  /\ \A w \in Worker : \A r \in Request[w] : IsPrefix(dir, r.path) =>
       \A k \in DOMAIN Config.protect : ~IsPrefix(Config.protect[k].prefix, r.path)
  /\ Edit.file = Append(dir, Config.passwords) /\ Parent(Edit.tmp) = dir
  /\ dir = <<>> \/ (dir \in Path /\ InitialFs[dir].kind = "dir")
  /\ \A p \in Path \ {Edit.file} : InitialFs[p].kind = "file"
       => InitialFs[p].ino # InitialFs[Edit.file].ino
  /\ \A w \in Worker : \A r \in Request[w] :
       /\ r.method \in {"PUT", "DELETE"} => ~IsPrefix(Edit.file, r.path)
       /\ r.method = "PUT" => \A n \in 1 .. Len(r.path) :
            n < Len(r.path) \/ r.slash => Parent(SubSeq(r.path, 1, n)) # dir
  /\ \A k \in DOMAIN Config.index : Append(Parent(dir), Config.index[k]) # dir

\* What is hidden can be told: nothing else holds its bytes, nor does the record
\* that the editor writes to a file that is not hidden.  No index is hidden.
ASSUME HiddenAssumption ==
  /\ \A p \in Path \cup {<<>>} : \A k \in DOMAIN Config.index :
       Append(p, Config.index[k]) \notin Config.hidden
  /\ \A p \in Config.hidden : InitialFs[p].kind = "file" =>
       \A c \in ToSet(InitialDisk[InitialFs[p].ino].data) :
         /\ c.by # "hole"
         /\ Edit.file \notin Config.hidden => c # Cell(Edit.user, Edit.pass)
         /\ \A q \in Path \ Config.hidden : InitialFs[q].kind = "file" =>
              c \notin ToSet(InitialDisk[InitialFs[q].ino].data)

\* "**.htpasswd$" hides every passwords file of a directory, by path and by name.
ASSUME PasswordsHidden ==
  /\ Config.passwords \in Config.hiddenNames
  /\ \A p \in Path \ {<<>>} : Last(p) = Config.passwords => p \in Config.hidden

VARIABLES
  fs,      \* what each path is
  disk,    \* the contents of the files there have been
  now,     \* time(NULL)
  req,     \* the request of each worker
  job,     \* where the worker is, with what handle_request and its callees keep
  editor,  \* where mg_modify_passwords_file is
  gone,    \* clients that have left
  stop     \* ctx->stop_flag

vars == <<fs, disk, now, req, job, editor, gone, stop>>

IsDir(p)  == p = <<>> \/ fs[p].kind = "dir"
IsFile(p) == p # <<>> /\ fs[p].kind = "file"
Lines(p)  == disk[fs[p].ino].data
Contents(p) == IF IsFile(p) THEN Lines(p) ELSE <<>>

\* struct file after mg_stat: a file that is not there has the time 0.
NoFile  == [dir |-> FALSE, mtime |-> 0, size |-> 0]
Stat(p) ==
  CASE IsDir(p)  -> [dir |-> TRUE, mtime |-> 1, size |-> 0]
    [] IsFile(p) -> [dir |-> FALSE, mtime |-> disk[fs[p].ino].mtime, size |-> Len(Lines(p))]
    [] OTHER     -> NoFile

Exists(p) == Stat(p).mtime # 0

Init ==
  /\ fs = InitialFs /\ disk = InitialDisk /\ now = 1
  /\ req \in [Worker -> UNION {Request[w] : w \in Worker}]
  /\ \A w \in Worker : req[w] \in Request[w]
  /\ job = [w \in Worker |->
       [pc |-> "idle", path |-> <<>>, file |-> NoFile, passed |-> "no", gap |-> FALSE,
        ino |-> 0, off |-> 0, left |-> 0, cl |-> 0, sent |-> <<>>, names |-> {},
        replies |-> <<>>, status |-> 0, depth |-> 1, pend |-> <<>>, consumed |-> 0,
        stack |-> <<>>, was |-> <<>>, lost |-> FALSE, shared |-> FALSE]]
  /\ editor = "idle"
  /\ gone = {} /\ stop = FALSE

At(w, l)      == job[w].pc = l
Goto(w, l)    == job' = [job EXCEPT ![w].pc = l]
Answer(w, st) == job' = [job EXCEPT ![w].pc = "end", ![w].replies = Append(@, st)]
Files         == <<fs, disk>>
World         == <<now, req, editor, gone, stop>>

IsPutOrDelete(r) == r.method \in {"PUT", "DELETE"}

----------------------------------------------------------------------------
\* From the URI to the handler.

\* mg_stat of the path as it was asked for: there is no "f/" when f is a file.
Asked(r) == IF r.slash /\ ~IsDir(r.path) THEN NoFile ELSE Stat(r.path)

\* convert_uri_to_file_name.  A path that is not there may be that of a CGI
\* program with more after it: the longest prefix that is one is taken.
Convert(w) ==
  LET p    == req[w].path
      cgis == {q \in Prefixes(p) : q \in Config.cgi /\ Exists(q)}
      none == Asked(req[w]).mtime = 0
      cgi  == CHOOSE q \in cgis : \A o \in cgis : Len(o) <= Len(q)
      path == IF none /\ cgis # {} THEN cgi ELSE p
      file == IF none /\ cgis # {} THEN Stat(cgi) ELSE Asked(req[w])
  IN  /\ At(w, "idle")
      /\ job' = [job EXCEPT ![w].pc = "authorize", ![w].path = path, ![w].file = file,
                            ![w].was = IF file = NoFile THEN <<>> ELSE Contents(path)]
      /\ UNCHANGED <<Files, World>>

\* The path that is handed on ends in '/': it does as it was asked for, and no
\* CGI program was found in it.
Slashed(w) ==
  /\ req[w].slash
  /\ job[w].file.mtime = 0 \/ (job[w].file.dir /\ job[w].path = req[w].path)

\* Mutant: a directory is guarded by the file next to it.
AuthFileBeside(w) == Append(Parent(job[w].path), Config.passwords)

\* The passwords file that guards a path: of the first prefix in PROTECT_URI,
\* when it opens; the global one; or the one in the directory.
AuthFile(w) ==
  LET uri   == req[w].path
      rules == {k \in DOMAIN Config.protect : IsPrefix(Config.protect[k].prefix, uri)}
      dir   == IF IsDir(job[w].path) \/ Slashed(w) THEN job[w].path ELSE Parent(job[w].path)
      own   == Append(dir, Config.passwords)
  IN  CASE rules # {} /\ IsFile(Config.protect[Min(rules)].file) -> Config.protect[Min(rules)].file
        [] OTHER -> IF Config.global # NoPath THEN Config.global ELSE own

Opens(p) == p \in Path /\ IsFile(p)

\* Mutant: a user who is not in the file need not prove anything.
AuthorizedUnlessKnown(r, lines) ==
  \A k \in DOMAIN lines : lines[k].by = r.cred.by => lines[k] = r.cred

\* authorize: the first line of the user decides.
Authorized(r, lines) ==
  \E k \in DOMAIN lines :
    /\ lines[k] = r.cred
    /\ \A j \in 1 .. k - 1 : lines[j].by # r.cred.by

\* What comes before the method is looked at: the callback, the redirection
\* to the SSL port, and check_authorization.
Authorize(w) ==
  LET r == req[w]  f == AuthFile(w) IN
  /\ At(w, "authorize")
  /\ CASE r.path \in Config.callback -> Answer(w, 200)
       [] r.path \notin Config.callback /\ Config.redirect -> Answer(w, 302)
       [] OTHER ->
            IF IsPutOrDelete(r) THEN Goto(w, "dispatch")
            ELSE IF ~Opens(f)
            THEN job' = [job EXCEPT ![w].pc = "dispatch", ![w].passed = "noFile",
                                    ![w].gap = editor = "removed"]
            ELSE IF Authorized(r, Lines(f))
            THEN job' = [job EXCEPT ![w].pc = "dispatch", ![w].passed = "cred"]
            ELSE Answer(w, 401)
  /\ UNCHANGED <<Files, World>>

\* substitute_index_file: the first of INDEX_FILES that is there.
Indexes(p) == {k \in DOMAIN Config.index : Append(p, Config.index[k]) \in Path
                                           /\ Exists(Append(p, Config.index[k]))}

Etag(f) == [mtime |-> f.mtime, size |-> f.size]
\* Mutant: the etag is the size alone.
IsNotModifiedBySize(r, f) == r.inm.size = f.size /\ r.inm.mtime # 0

IsNotModified(r, f) == r.inm = Etag(f) \/ f.mtime <= r.ims

\* What handle_request does with a path that is a file, once an index has
\* been substituted for a directory.
ServeFile(w, p, f, was) ==
  LET r == req[w]
      then(l) == job' = [job EXCEPT ![w].pc = l, ![w].path = p, ![w].file = f, ![w].was = was]
  IN  CASE p \in Config.cgi ->
             Answer(w, IF r.method \in {"POST", "HEAD", "GET"} THEN 200 ELSE 501)
        [] p \notin Config.cgi /\ p \in Config.ssi -> then("openSsi")
        [] OTHER -> IF IsNotModified(r, f)
                    THEN job' = [job EXCEPT ![w].pc = "end", ![w].path = p, ![w].file = f,
                                            ![w].was = was, ![w].replies = Append(@, 304)]
                    ELSE then("open")

\* The path that was handed on can name what is there: "f/" is no file.
Reached(w) == IsDir(job[w].path) \/ ~Slashed(w)

\* mg_remove: a file, or a directory that is empty.
Removable(p) ==
  IsFile(p) \/ (p # <<>> /\ IsDir(p)
                /\ \A q \in Path : Parent(q) = p => ~IsFile(q) /\ ~IsDir(q))

Delete(w) ==
  LET p == job[w].path IN
  IF Removable(p) /\ Reached(w)
  THEN /\ job' = [job EXCEPT ![w].pc = "end", ![w].passed = "put",
                             ![w].replies = Append(@, 200)]
       /\ fs' = [fs EXCEPT ![p] = [kind |-> "none", ino |-> 0]]
       /\ UNCHANGED disk
  ELSE Answer(w, 500) /\ UNCHANGED Files

\* is_authorized_for_put: no passwords file, no changes.
MayChange(w) == Opens(Config.put) /\ Authorized(req[w], Lines(Config.put))

\* PUT and DELETE.
Change(w) ==
  LET r == req[w] IN
  /\ At(w, "dispatch") /\ Config.root /\ IsPutOrDelete(r)
  /\ IF ~MayChange(w) THEN Answer(w, 401) /\ UNCHANGED Files
     ELSE IF r.method = "DELETE" THEN Delete(w)
     ELSE /\ job' = [job EXCEPT ![w].pc = "putDir", ![w].passed = "put",
                                ![w].status = IF Exists(job[w].path) /\ Reached(w)
                                               THEN 200 ELSE 201]
          /\ UNCHANGED Files
  /\ UNCHANGED World

\* Every other method.
Dispatch(w) ==
  LET r == req[w]  p == job[w].path  f == job[w].file
      ix == Indexes(p)  q == Append(p, Config.index[Min(ix)])
  IN  /\ At(w, "dispatch") /\ ~(Config.root /\ IsPutOrDelete(r))
      /\ CASE r.method = "OPTIONS" -> Answer(w, 200)
           [] r.method # "OPTIONS" /\ ~Config.root -> Answer(w, 404)
           [] OTHER ->
                IF f.mtime = 0 \/ p \in Config.hidden THEN Answer(w, 404)
                ELSE IF f.dir /\ ~r.slash THEN Answer(w, 301)
                ELSE IF r.method = "PROPFIND"
                THEN IF f.dir /\ Config.listing /\ ~r.depth0 THEN Goto(w, "propfind")
                     ELSE Answer(w, 207)
                ELSE IF ~f.dir THEN ServeFile(w, p, f, job[w].was)
                ELSE IF ix # {} THEN ServeFile(w, q, Stat(q), Contents(q))
                ELSE IF Config.listing THEN Goto(w, "list")
                ELSE Answer(w, 403)
      /\ UNCHANGED <<Files, World>>

----------------------------------------------------------------------------
\* Directories and files.

\* Mutant: hidden files are listed.
ShownAll(p) == {q \in Path : q # <<>> /\ Parent(q) = p /\ Exists(q)}

\* What scan_directory finds in a directory: it looks at d_name alone.
Shown(p) == {q \in Path : q # <<>> /\ Parent(q) = p /\ Exists(q)
                          /\ Last(q) \notin Config.hiddenNames}

\* scan_directory, for a listing (refused when the directory is gone by now)
\* and for PROPFIND (whose status line is out already).
Scan(w) ==
  /\ At(w, "list") \/ At(w, "propfind")
  /\ IF ~IsDir(job[w].path) /\ At(w, "list") THEN Answer(w, 500)
     ELSE job' = [job EXCEPT ![w].pc = "end", ![w].names = Shown(job[w].path),
                    ![w].replies = Append(@, IF At(w, "list") THEN 200 ELSE 207)]
  /\ UNCHANGED <<Files, World>>

\* parse_range_header took both ends, and the code asks for a last byte > 0.
Ranged(r) == r.range.n > 0 /\ r.range.r1 >= 0 /\ r.range.r2 > 0

\* Mutant: the size of the range is that of the whole file.
ContentLengthWhole(r, size) == size

\* cl, the Content-Length announced: a last byte beyond the end counts as one
\* byte more than there is, and a first one beyond it makes cl negative.
ContentLength(r, size) ==
  CASE ~Ranged(r)                   -> size
    [] Ranged(r) /\ r.range.n = 2   -> Min({r.range.r2, size}) - r.range.r1 + 1
    [] OTHER                        -> size - r.range.r1

\* Where fseeko puts the file: it fails before the beginning.
Seek(r) == Max({r.range.r1, 0})

\* handle_file_request: the size is the one that stat gave, the file whatever
\* the path names now; nothing can be read from a directory.  The first byte
\* that the header gives is where the file is read from, ranged or not.
Open(w) ==
  LET r == req[w]  p == job[w].path  cl == ContentLength(r, job[w].file.size) IN
  /\ At(w, "open")
  /\ IF ~IsFile(p) /\ ~IsDir(p) THEN Answer(w, 500)
     ELSE job' = [job EXCEPT
            ![w].pc = IF r.method = "HEAD" \/ IsDir(p) THEN "end" ELSE "send",
            ![w].ino = fs[p].ino, ![w].cl = cl, ![w].left = cl,
            ![w].off = Seek(r),
            ![w].replies = Append(@, IF Ranged(r) THEN 206 ELSE 200)]
  /\ UNCHANGED <<Files, World>>

\* The bytes of an open file from off on, at most n.
ReadAt(ino, off, n) == SubSeq(disk[ino].data, off + 1, Min({off + n, Len(disk[ino].data)}))

\* Mutant: only an error ends the copying, not the end of the file.
SendNoEof(w) ==
  LET j == job[w]  b == ReadAt(j.ino, j.off, Min({Chunk, j.left})) IN
  /\ At(w, "send")
  /\ IF j.left <= 0 \/ w \in gone THEN Goto(w, "end")
     ELSE job' = [job EXCEPT ![w].off = @ + Len(b), ![w].left = @ - Len(b),
                             ![w].sent = @ \o b]
  /\ UNCHANGED <<Files, World>>

\* send_file_data, a chunk at a time.
Send(w) ==
  LET j == job[w]  b == ReadAt(j.ino, j.off, Min({Chunk, j.left})) IN
  /\ At(w, "send")
  /\ IF j.left <= 0 \/ b = <<>> \/ w \in gone THEN Goto(w, "end")
     ELSE job' = [job EXCEPT ![w].off = @ + Len(b), ![w].left = @ - Len(b),
                             ![w].sent = @ \o b]
  /\ UNCHANGED <<Files, World>>

----------------------------------------------------------------------------
\* PUT.

\* put_dir looks at each directory of the path, the last one too when the
\* path ends in '/', and makes those that are not there.
PutDir(w) ==
  LET p == job[w].path  k == job[w].depth
      last == IF Slashed(w) THEN Len(p) ELSE Len(p) - 1
  IN  /\ At(w, "putDir")
      /\ IF k > last
         THEN IF Slashed(w) THEN Answer(w, job[w].status) ELSE Goto(w, "putOpen")
         ELSE job' = [job EXCEPT ![w].pc = IF Exists(SubSeq(p, 1, k)) THEN @ ELSE "mkdir",
                                 ![w].depth = IF Exists(SubSeq(p, 1, k)) THEN @ + 1 ELSE @]
      /\ UNCHANGED <<Files, World>>

\* mkdir: fails when another PUT has made the directory since it was looked at.
MkDir(w) ==
  LET q == SubSeq(job[w].path, 1, job[w].depth) IN
  /\ At(w, "mkdir")
  /\ IF fs[q].kind = "none" /\ IsDir(Parent(q))
     THEN /\ fs' = [fs EXCEPT ![q] = [kind |-> "dir", ino |-> 0]]
          /\ job' = [job EXCEPT ![w].pc = "putDir", ![w].depth = @ + 1]
     ELSE Answer(w, 500) /\ UNCHANGED fs
  /\ UNCHANGED <<disk, World>>

Empty == [data |-> <<>>, mtime |-> now]

\* Those who are writing to the file that w opens to write.
Writers(ino) ==
  {v \in Worker : job[v].ino = ino /\ job[v].pc \in {"forward", "body", "close"}}

\* fopen(path, "wb+"): the file is created or cut to nothing, even when
\* Content-Range says that only a part of it is coming.
PutOpen(w) ==
  LET p == job[w].path  r == req[w]
      ino == IF IsFile(p) THEN fs[p].ino ELSE Len(disk) + 1
      ws  == Writers(ino)
  IN  /\ At(w, "putOpen")
      /\ IF ~IsDir(Parent(p)) \/ IsDir(p) THEN Answer(w, 500) /\ UNCHANGED Files
         ELSE /\ fs' = [fs EXCEPT ![p] = [kind |-> "file", ino |-> ino]]
              /\ disk' = IF IsFile(p) THEN [disk EXCEPT ![ino] = Empty] ELSE Append(disk, Empty)
              /\ job' = [v \in Worker |->
                   IF v = w THEN [job[w] EXCEPT !.pc = "forward", !.ino = ino,
                                    !.off = Seek(r),
                                    !.status = IF r.range.n > 0 THEN 206 ELSE @,
                                    !.shared = ws # {}]
                   ELSE IF v \in ws THEN [job[v] EXCEPT !.shared = TRUE] ELSE job[v]]
      /\ UNCHANGED World

Body(w, from, to) == [k \in 1 .. to - from |-> Cell(w, from + k)]

\* The contents of a file once b has been written at off.
Written(data, off, b) ==
  [k \in 1 .. Max({Len(data), off + Len(b)}) |->
     IF k > off /\ k <= off + Len(b) THEN b[k - off]
     ELSE IF k <= Len(data) THEN data[k] ELSE Hole]

\* What stdio holds back for w, which is j from now on, is written.
Write(w, j) ==
  /\ disk' = IF j.pend = <<>> THEN disk
             ELSE [disk EXCEPT ![j.ino] = [data |-> Written(@.data, j.off, j.pend), mtime |-> now]]
  /\ job' = [job EXCEPT ![w] = [j EXCEPT !.off = @ + Len(j.pend), !.pend = <<>>]]

\* A write that fails: what was held back is lost.
WriteFails(w, j) ==
  /\ j.pend # <<>>
  /\ job' = [job EXCEPT ![w] = [j EXCEPT !.lost = TRUE, !.pend = <<>>]]
  /\ UNCHANGED disk

Replied(j, status) == [j EXCEPT !.pc = "close", !.replies = Append(@, status)]

\* push to a file: fwrite holds the bytes back, writes them or fails; j is
\* what w is after a push that succeeds, failed what it is after another.
Push(w, j, failed) ==
  \/ job' = [job EXCEPT ![w] = j] /\ UNCHANGED disk
  \/ Write(w, j)
  \/ WriteFails(w, failed)

\* forward_body_data, as in Cgi, with a file to write to: the buffered part
\* first, whatever becomes of it.
Forward(w) ==
  LET r == req[w]
      j == [job[w] EXCEPT !.pc = "body", !.consumed = r.buffered,
                          !.pend = Body(w, 0, r.buffered)]
  IN  /\ At(w, "forward")
      /\ CASE r.length = -1 ->
                job' = [job EXCEPT ![w] = Replied(@, 411)] /\ UNCHANGED disk
           [] r.length # -1 /\ r.expect = "other" ->
                job' = [job EXCEPT ![w] = Replied(@, 417)] /\ UNCHANGED disk
           [] OTHER -> Push(w, j, j)
      /\ UNCHANGED <<fs, World>>

\* The rest, in the pieces the client sends: it ends early when the client
\* leaves or the server stops, or when a write fails, this one or (ferror)
\* one before it.  The reply is sent before the file is closed.
Receive(w) ==
  LET j == job[w]  left == req[w].length - j.consumed IN
  /\ At(w, "body")
  /\ \/ /\ left = 0
        /\ job' = [job EXCEPT ![w] = Replied(j, j.status)] /\ UNCHANGED disk
     \/ /\ left > 0 /\ (stop \/ w \in gone \/ j.lost)
        /\ job' = [job EXCEPT ![w] = Replied(j, 577)] /\ UNCHANGED disk
     \/ /\ left > 0 /\ ~stop /\ ~j.lost
        /\ \E n \in 1 .. Min({left, Chunk}) :
             LET more == [j EXCEPT !.consumed = @ + n,
                                   !.pend = @ \o Body(w, j.consumed, j.consumed + n)]
             IN  Push(w, more, Replied(more, 577))
  /\ UNCHANGED <<fs, World>>

\* Mutant: the file is not closed, and what stdio holds back is not written.
LeaveOpen(w) == At(w, "close") /\ Goto(w, "end") /\ UNCHANGED <<Files, World>>

\* Mutant: the reply to a PUT is sent whether forward_body_data replied or not.
CloseAnswers(w) ==
  LET j == [job[w] EXCEPT !.pc = "end", !.replies = Append(@, job[w].status)] IN
  /\ At(w, "close")
  /\ Write(w, j) \/ WriteFails(w, j)
  /\ UNCHANGED <<fs, World>>

\* mg_fclose, whose failure nobody sees.
Close(w) ==
  LET j == [job[w] EXCEPT !.pc = "end"] IN
  /\ At(w, "close")
  /\ Write(w, j) \/ WriteFails(w, j)
  /\ UNCHANGED <<fs, World>>

----------------------------------------------------------------------------
\* Server-side includes.

Frame(ino, level, ssi) == [ino |-> ino, off |-> 0, level |-> level, ssi |-> ssi]

OpenSsi(w) ==
  LET p == job[w].path IN
  /\ At(w, "openSsi")
  /\ IF ~IsFile(p) THEN Answer(w, IF IsDir(p) THEN 200 ELSE 500)
     ELSE job' = [job EXCEPT ![w].pc = "ssi", ![w].replies = Append(@, 200),
                             ![w].stack = <<Frame(fs[p].ino, 0, TRUE)>>]
  /\ UNCHANGED <<Files, World>>

\* Mutant: the level is that of the including file.
IncludedSame(k, level) ==
  LET p == Config.includes[k] IN
  IF ~IsFile(p) THEN <<>>
  ELSE <<Frame(fs[p].ino, level, p \in Config.ssi)>>

\* The file that an include names, opened: nothing when the directive names
\* none, when it is not there, or when send_ssi_file finds the level too deep.
Included(k, level) ==
  LET p == Config.includes[k] IN
  IF k \notin DOMAIN Config.includes \/ ~IsFile(p) THEN <<>>
  ELSE IF p \notin Config.ssi THEN <<Frame(fs[p].ino, level, FALSE)>>
  ELSE IF level + 1 > MaxLevel THEN <<>> ELSE <<Frame(fs[p].ino, level + 1, TRUE)>>

\* One byte, or one include directive, of the innermost file.  A file that is
\* not an SSI file is sent as it is.
Ssi(w) ==
  LET st == job[w].stack  f == Last(st)  b == ReadAt(f.ino, f.off, 1)
      next == [f EXCEPT !.off = @ + 1]
  IN  /\ At(w, "ssi")
      /\ job' =
           CASE b = <<>> ->
                  [job EXCEPT ![w].stack = Front(st), ![w].pc = IF Len(st) = 1 THEN "end" ELSE @]
             [] b # <<>> /\ f.ssi /\ b[1].by = "include" ->
                  [job EXCEPT ![w].stack = Front(st) \o <<next>> \o Included(b[1].k, f.level)]
             [] OTHER ->
                  [job EXCEPT ![w].stack = Append(Front(st), next),
                              ![w].sent = IF w \in gone THEN @ ELSE @ \o b]
      /\ UNCHANGED <<Files, World>>

----------------------------------------------------------------------------
\* mg_modify_passwords_file, the clock, the clients and the application.

\* The lines but those of the user, in their order.
Kept(lines) ==
  LET keep == {k \in DOMAIN lines : lines[k].by # Edit.user}
      nth(n) == CHOOSE k \in keep : Cardinality({j \in keep : j < k}) = n - 1
  IN  [n \in 1 .. Cardinality(keep) |-> lines[nth(n)]]

\* The lines with the user's record replaced, removed or added.
Edited(lines) ==
  LET mine == {k \in DOMAIN lines : lines[k].by = Edit.user}
      new  == Cell(Edit.user, Edit.pass)
  IN  IF Edit.pass = 0 THEN Kept(lines)
      ELSE IF mine = {} THEN Append(lines, new)
      ELSE [k \in DOMAIN lines |-> IF k \in mine THEN new ELSE lines[k]]

\* fopen(fname, "a+"): the file is there from now on.  An edit that no request
\* can notice is left out.
Create ==
  /\ editor = "idle" /\ \E w \in Worker : IsPrefix(Parent(Edit.file), req[w].path)
  /\ editor' = "created"
  /\ IF IsFile(Edit.file) THEN UNCHANGED Files
     ELSE /\ fs' = [fs EXCEPT ![Edit.file] = [kind |-> "file", ino |-> Len(disk) + 1]]
          /\ disk' = Append(disk, Empty)
  /\ UNCHANGED <<now, req, job, gone, stop>>

\* Mutant: the file is opened to be written before it has been read.
CopyTruncates ==
  /\ editor = "created" /\ IsFile(Edit.file)
  /\ editor' = "copied"
  /\ fs' = [fs EXCEPT ![Edit.tmp] = [kind |-> "file", ino |-> Len(disk) + 1]]
  /\ disk' = Append([disk EXCEPT ![fs[Edit.file].ino].data = <<>>],
                    [data |-> Edited(Lines(Edit.file)), mtime |-> now])
  /\ UNCHANGED <<now, req, job, gone, stop>>

\* The edited lines go to the temporary file.
Copy ==
  /\ editor = "created" /\ IsFile(Edit.file)
  /\ editor' = "copied"
  /\ fs' = [fs EXCEPT ![Edit.tmp] = [kind |-> "file", ino |-> Len(disk) + 1]]
  /\ disk' = Append(disk, [data |-> Edited(Lines(Edit.file)), mtime |-> now])
  /\ UNCHANGED <<now, req, job, gone, stop>>

\* Either of the two fopen fails: 0 is returned.
CopyFails ==
  /\ editor = "created"
  /\ editor' = "failed"
  /\ UNCHANGED <<Files, now, req, job, gone, stop>>

RemoveOld ==
  /\ editor = "copied"
  /\ editor' = "removed"
  /\ fs' = [fs EXCEPT ![Edit.file] = [kind |-> "none", ino |-> 0]]
  /\ UNCHANGED <<disk, now, req, job, gone, stop>>

Rename ==
  /\ editor = "removed"
  /\ editor' = "done"
  /\ fs' = [fs EXCEPT ![Edit.file] = fs[Edit.tmp], ![Edit.tmp] = [kind |-> "none", ino |-> 0]]
  /\ UNCHANGED <<disk, now, req, job, gone, stop>>

\* The clock is read when a file is written, and left alone otherwise.
Tick ==
  /\ \E w \in Worker : job[w].pc \in {"putOpen", "body"}
  /\ now < MaxTime /\ now' = now + 1
  /\ UNCHANGED <<Files, req, job, editor, gone, stop>>

\* A client that leaves is only noticed by a recv or a send.
Leave(w) ==
  /\ w \notin gone /\ job[w].pc \in {"body", "send", "ssi"}
  /\ gone' = gone \cup {w}
  /\ UNCHANGED <<Files, now, req, job, editor, stop>>

\* pull() looks at stop_flag, and nothing else here does.
Stop ==
  /\ ~stop /\ \E w \in Worker : At(w, "body")
  /\ stop' = TRUE
  /\ UNCHANGED <<Files, now, req, job, editor, gone>>

Handle(w) ==
  \/ Convert(w) \/ Authorize(w) \/ Change(w) \/ Dispatch(w)
  \/ Scan(w) \/ Open(w) \/ Send(w)
  \/ PutDir(w) \/ MkDir(w) \/ PutOpen(w) \/ Forward(w) \/ Receive(w) \/ Close(w)
  \/ OpenSsi(w) \/ Ssi(w)

ModifyPasswords == Create \/ Copy \/ CopyFails \/ RemoveOld \/ Rename

Next ==
  \/ \E w \in Worker : Handle(w) \/ Leave(w)
  \/ ModifyPasswords \/ Tick \/ Stop

Spec == Init /\ [][Next]_vars

\* The workers are scheduled.
FairSpec == Spec /\ \A w \in Worker : WF_vars(Handle(w))

----------------------------------------------------------------------------
Place == {"idle", "authorize", "dispatch", "list", "propfind", "open", "send",
          "putDir", "mkdir", "putOpen", "forward", "body", "close", "openSsi", "ssi", "end"}

Ended(w)    == job[w].pc = "end"
OK(w)       == ToSet(job[w].replies) \cap {200, 201} # {}
Before(p)   == IF p \in Path /\ InitialFs[p].kind = "file"
               THEN InitialDisk[InitialFs[p].ino].data ELSE <<>>

\* Every variable has its type, every open file is on the disk, and
\* send_ssi_file is never deeper than its limit allows.
TypeOK ==
  /\ \A p \in Path : fs[p].kind \in {"none", "dir", "file"}
                     /\ (fs[p].kind = "file" => fs[p].ino \in DOMAIN disk)
  /\ \A k \in DOMAIN disk : disk[k].mtime \in 0 .. MaxTime
  /\ \A w \in Worker :
       /\ job[w].pc \in Place
       /\ job[w].path \in Path \cup {<<>>}
       /\ job[w].ino \in 0 .. Len(disk)
       /\ job[w].consumed \in 0 .. Max({req[w].length, 0})
       /\ \A k \in DOMAIN job[w].stack : job[w].stack[k].level <= MaxLevel
       /\ Len(job[w].stack) <= MaxLevel + 2
  /\ editor \in {"idle", "created", "copied", "removed", "done", "failed"}
  /\ gone \subseteq Worker /\ stop \in BOOLEAN

\* A GET gets the bytes of the file it asked for and as many as the header
\* announced, unless the file was changed after its size was taken, or the
\* client left, or the range it asked for has no end or does not lie within
\* the file.
GotFile ==
  \A w \in Worker :
    LET j == job[w]  r == req[w] IN
    /\ Len(j.sent) <= Max({j.cl, 0}) \/ j.path \in Config.ssi
    /\ /\ Ended(w) /\ j.ino # 0 /\ r.method = "GET" /\ w \notin gone
       /\ disk[j.ino].data = j.was
       /\ IF Ranged(r) THEN r.range.r1 <= r.range.r2 /\ r.range.r2 < Len(j.was)
                       ELSE r.range.r1 <= 0
       => /\ Len(j.sent) = j.cl
          /\ j.sent = IF Ranged(r) THEN SubSeq(j.was, r.range.r1 + 1, r.range.r2 + 1) ELSE j.was

\* A body announced as complete is stored: once the file is closed after a
\* 200 or 201, it holds the body, unless somebody else was writing to it too
\* or one of the writes whose result is not looked at failed.
PutStored ==
  [][\A w \in Worker :
       job[w].pc = "close" /\ job'[w].pc = "end" /\ OK(w) /\ ~job'[w].lost /\ ~job[w].shared
         => disk'[job[w].ino].data = Body(w, 0, req[w].length)]_vars

\* Files are changed by mg_modify_passwords_file, and by requests whose user
\* the PUT passwords file has let in.
ChangesAuthorized ==
  [][Files' # Files =>
       \/ editor' # editor
       \/ \E w \in Worker :
            /\ job'[w] # job[w] /\ job'[w].passed = "put"
            /\ IsPutOrDelete(req[w]) /\ req[w].cred \in ToSet(Before(Config.put))]_vars

\* The directory whose passwords file lets a request in: its path, or the
\* parent of its path when that was looked up as a file.
Guard(w) == IF job[w].file.dir \/ Slashed(w) THEN job[w].path ELSE Parent(job[w].path)

\* A directory with a passwords file, and the files in it, are only passed on
\* without a credential to a request that looked while
\* mg_modify_passwords_file had removed the file and not yet renamed the new.
Guarded ==
  \A w \in Worker :
    job[w].passed = "noFile" /\ Guard(w) = Parent(Edit.file) /\ Before(Edit.file) # <<>>
      => job[w].gap

\* An edit of one user's password refuses nobody else: who is let in by the
\* file before the edit and by the one after it is let in at every step.
OthersKept ==
  \A w \in Worker :
    LET old == Before(Edit.file) IN
    /\ Guard(w) = Parent(Edit.file) /\ ~IsPutOrDelete(req[w])
    /\ Authorized(req[w], old) /\ Authorized(req[w], Edited(old))
    => 401 \notin ToSet(job[w].replies)

\* No listing names a file whose bare name matches a hidden pattern, and no
\* bytes of a file whose path matches it are sent, except by an SSI file that
\* includes one, and while mg_modify_passwords_file is at work under the name
\* of its temporary, which no pattern covers.
HiddenKept ==
  \A w \in Worker :
    /\ \A q \in job[w].names : Last(q) \notin Config.hiddenNames
    /\ job[w].path \notin Config.ssi \cup {Edit.tmp} =>
         \A p \in Config.hidden : ToSet(Before(p)) \cap ToSet(job[w].sent) = {}

\* A client whose copy is the file as it was at first, and asks with its etag,
\* is told "not modified" when the file it would get is that one, or has been
\* rewritten with as many bytes in the very second the etag dates from.
NotModified ==
  \A w \in Worker :
    LET j == job[w]  p == job[w].path  old == Before(p) IN
    /\ 304 \in ToSet(j.replies) /\ req[w].ims = 0
    /\ p \in Path /\ InitialFs[p].kind = "file"
    /\ req[w].inm = [mtime |-> InitialDisk[InitialFs[p].ino].mtime, size |-> Len(old)]
    => j.was = old \/ (Len(j.was) = Len(old) /\ j.file.mtime = req[w].inm.mtime)

\* What handle_request lets out of the document root, and to whom.
AccessHeld == Guarded /\ OthersKept /\ HiddenKept

\* What a GET makes of a file: its bytes, or the truth that they are the same.
GetIsTrue == GotFile /\ NotModified

\* Every request ends, however its SSI files include each other, and has then
\* been answered with one status line, whatever failed on the way.
RequestsEnd ==
  \A w \in Worker :
    job[w].pc = "authorize" ~> Ended(w) /\ Len(job[w].replies) = 1

=============================================================================
