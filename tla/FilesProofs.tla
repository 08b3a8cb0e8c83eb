----------------------------- MODULE FilesProofs -----------------------------
(***************************************************************************)
(* Proofs about Files for any workers, requests, options, files and edits. *)
(***************************************************************************)
EXTENDS Files, StreamLemmas, FiniteSetTheorems, FunctionTheorems

-----------------------------------------------------------------------------
(* The inductive invariant *)

FileInfo  == [dir : BOOLEAN, mtime : Nat, size : Nat]
FrameType == [ino : Nat, off : Nat, level : Nat, ssi : BOOLEAN]

Job ==
  [pc : Place, path : Path \cup {<<>>}, file : FileInfo,
   passed : {"no", "noFile", "cred", "put"}, gap : BOOLEAN,
   ino : Nat, off : Nat, left : Int, cl : Int, sent : Seq(CellType),
   names : SUBSET Path, replies : Seq(Nat), status : Nat, depth : Nat,
   pend : Seq(CellType), consumed : Nat, stack : Seq(FrameType),
   was : Seq(CellType), lost : BOOLEAN, shared : BOOLEAN]

TypeInv ==
  /\ fs \in [Path -> FileType] /\ disk \in Seq(InodeType) /\ now \in 0 .. MaxTime
  /\ req \in [Worker -> RequestType] /\ \A w \in Worker : req[w] \in Request[w]
  /\ job \in [Worker -> Job]
  /\ editor \in {"idle", "created", "copied", "removed", "done", "failed"}
  /\ gone \subseteq Worker /\ stop \in BOOLEAN

\* Files are on the disk, and nothing else is.
FsInv ==
  \A p \in Path : IF fs[p].kind = "file" THEN fs[p].ino \in 1 .. Len(disk)
                                         ELSE fs[p].ino = 0

Inode(n) == n \in 1 .. Len(disk)

\* The handler has not been called yet, or has not opened anything.
Early == {"idle", "authorize", "dispatch", "list", "propfind", "open", "openSsi",
          "putDir", "mkdir", "putOpen"}
Putting == {"putDir", "mkdir", "putOpen"}
Writing == {"forward", "body", "close"}

\* What the places before the end say of a job.
PlaceInv(w) ==
  LET j == job[w] IN
  /\ j.pc \in Early => j.replies = <<>> /\ j.ino = 0 /\ j.sent = <<>>
  /\ j.pc \notin Writing \cup {"end"} =>
       j.pend = <<>> /\ j.consumed = 0 /\ ~j.lost /\ ~j.shared
  /\ j.pc # "ssi" => j.stack = <<>>
  /\ j.pc \in {"openSsi", "ssi"} => j.path \in Config.ssi /\ j.ino = 0
  /\ j.path = <<>> => j.pc = "idle" \/ j.file.dir
  /\ j.pc = "open" => j.path # <<>>
  /\ j.file.size = Len(j.was)
  /\ j.pc \in {"send", "ssi"} => \E c \in {200, 206} : j.replies = <<c>>
  /\ 304 \in ToSet(j.replies) => j.file.mtime # 0 /\ IsNotModified(req[w], j.file)

\* The file that w has open is the one it looked up.
Same(w) ==
  LET j == job[w] IN Inode(j.ino) /\ disk[j.ino].data = j.was /\ j.was # <<>>

\* What has been sent are bytes of the file that was looked up.
FromFile(j, from) ==
  \A i \in 1 .. Len(j.sent) : from + i <= Len(j.was) /\ j.sent[i] = j.was[from + i]

\* What a GET has been sent so far are the bytes of the file, if it is still
\* the one that was looked up; when it ends none is missing.
Sending(w) ==
  LET j == job[w]  from == Seek(req[w]) IN
  /\ Inode(j.ino) /\ j.cl = ContentLength(req[w], j.file.size)
  /\ j.left + Len(j.sent) = j.cl /\ j.off = from + Len(j.sent)
  /\ Len(j.sent) <= Max({j.cl, 0})
  /\ Same(w) => FromFile(j, from)

Sent(w) ==
  LET j == job[w]  from == Seek(req[w]) IN
  /\ Inode(j.ino) /\ j.cl = ContentLength(req[w], j.file.size)
  /\ Len(j.sent) <= Max({j.cl, 0})
  /\ Same(w) =>
       /\ FromFile(j, from)
       /\ w \notin gone => Len(j.sent) >= j.cl \/ Len(j.was) <= from + Len(j.sent)

SentInv(w) ==
  LET j == job[w] IN
  /\ Len(j.sent) <= Max({j.cl, 0}) \/ j.path \in Config.ssi
  /\ j.pc = "send" => Sending(w)
  /\ j.pc = "end" /\ req[w].method = "GET" /\ j.ino # 0 => Sent(w)

\* The cells of the body that have been written or lost.
Stored(j) == j.consumed - Len(j.pend)
Done(w)   == Stored(job[w])

\* The cells that stdio holds back are the last ones received; those before
\* are in the file, if nobody else writes to it and no write has failed.
StoreJob(w, j) ==
  LET r == req[w] IN
  /\ j.pc \in Putting \cup Writing => r.method = "PUT" /\ j.passed = "put"
  /\ j.pc \in Putting => j.status \in {200, 201}
  /\ j.pc \in Writing =>
       /\ Inode(j.ino)
       /\ j.status \in IF r.range.n > 0 THEN {206} ELSE {200, 201}
  /\ j.consumed <= Max({r.length, 0}) /\ Len(j.pend) <= j.consumed
  /\ \A i \in 1 .. Len(j.pend) : j.pend[i] = Cell(w, Stored(j) + i)
  /\ j.pc = "forward" => j.pend = <<>> /\ j.consumed = 0 /\ j.replies = <<>> /\ ~j.lost
  /\ j.pc = "body" => j.replies = <<>> /\ r.length >= 0
  /\ j.pc = "close" =>
       \E c \in {200, 201, 206, 411, 417, 577} :
         /\ j.replies = <<c>>
         /\ c \in {200, 201} => j.consumed = r.length /\ r.range.n = 0
  /\ j.pc \in Writing /\ ~j.shared /\ ~j.lost /\ r.range.n = 0 =>
       LET d == disk[j.ino].data IN
       j.off = Stored(j) /\ Len(d) = Stored(j) /\ \A i \in 1 .. Len(d) : d[i] = Cell(w, i)

StoreInv(w) == StoreJob(w, job[w])

\* The open SSI files, each included by the one before.
Frames(st) ==
  \A k \in 1 .. Len(st) :
    /\ Inode(st[k].ino) /\ st[k].level <= MaxLevel
    /\ IF st[k].ssi THEN st[k].level = k - 1
                    ELSE k = Len(st) /\ st[k].level = k - 2

StackInv(w) == Frames(job[w].stack) /\ (job[w].pc = "ssi" => job[w].stack # <<>>)

\* The file that w has, or had, open is one of those on the disk.
NoneOrInode(n) == n = 0 \/ Inode(n)
OnDisk(w)      == NoneOrInode(job[w].ino)

WorkerInv(w) == PlaceInv(w) /\ SentInv(w) /\ StoreInv(w) /\ StackInv(w) /\ OnDisk(w)

\* Two who write to the same file know it.
SharedInv ==
  \A v, w \in Worker :
    /\ v # w /\ job[v].pc \in Writing /\ job[w].pc \in Writing
    /\ job[v].ino = job[w].ino
    => job[v].shared

\* No cell of a body is in a file, nor was in one, before it has been written.
Past(c)    == \A v \in Worker : c.by = v => c.k <= Done(v)
AllPast(s) == \A i \in 1 .. Len(s) : Past(s[i])

PastInv ==
  /\ \A n \in 1 .. Len(disk) : AllPast(disk[n].data)
  /\ \A w \in Worker : AllPast(job[w].was)

IInv ==
  /\ TypeInv /\ FsInv /\ SharedInv /\ PastInv
  /\ \A w \in Worker : WorkerInv(w)

\* The PUT passwords file, when there is one.
PutFile == Config.put
HasPut  == PutFile \in Path /\ InitialFs[PutFile].kind = "file"
PutIno  == InitialFs[PutFile].ino

\* It is what it was, and no other path leads to it.
PutKept ==
  /\ PutFile \in Path => fs[PutFile] = InitialFs[PutFile]
  /\ Len(InitialDisk) <= Len(disk)
  /\ HasPut =>
       /\ disk[PutIno].data = InitialDisk[PutIno].data
       /\ \A p \in Path \ {PutFile} : fs[p].kind = "file" => fs[p].ino # PutIno

\* A request that changes files is about others, and has been let in.
PutJob(r, j) ==
  /\ j.pc # "idle" /\ IsPutOrDelete(r) => ~IsPrefix(PutFile, j.path)
  /\ j.passed = "put" => IsPutOrDelete(r) /\ r.cred \in ToSet(Before(PutFile))
  /\ HasPut /\ j.pc \in Writing => j.ino # PutIno
  /\ j.pc = "mkdir" => j.depth \in 0 .. Len(j.path)

PutFileInv == PutKept /\ \A w \in Worker : PutJob(req[w], job[w])

\* The guarded directory, the lines of its passwords file before the edit and
\* after it.
Dir      == Parent(Edit.file)
OldLines == Before(Edit.file)
NewLines == Edited(OldLines)
HasEdit  == InitialFs[Edit.file].kind = "file"

\* No other path leads to the file at p, and no PUT writes to it.
Alone(p) ==
  fs[p].kind = "file" =>
    /\ \A q \in Path \ {p} : fs[q].kind = "file" => fs[q].ino # fs[p].ino
    /\ \A w \in Worker : job[w].pc \in Writing => job[w].ino # fs[p].ino

\* The passwords file is there but between remove and rename, and holds the old
\* lines or the new; its temporary is there from the copy to the rename.
EditKept ==
  /\ IsDir(Dir)
  /\ fs[Edit.file].kind = IF editor = "removed" THEN "none" ELSE "file"
  /\ fs[Edit.tmp].kind = IF editor \in {"copied", "removed"} THEN "file" ELSE "none"
  /\ editor # "removed" =>
       Lines(Edit.file) = IF editor = "done" THEN NewLines ELSE OldLines
  /\ editor \in {"copied", "removed"} => Lines(Edit.tmp) = NewLines
  /\ Alone(Edit.file) /\ Alone(Edit.tmp)

\* What mkdir is called for: a directory on the way to the file of a PUT.
Making(r, j) ==
  j.pc = "mkdir" => j.depth \in 1 .. Len(j.path) /\ (j.depth < Len(j.path) \/ r.slash)

\* A request that changes files leaves the passwords file, its temporary and
\* the kinds of what is next to it alone.
Apart(r, j) ==
  /\ IsPutOrDelete(r) /\ j.pc # "idle" =>
       /\ ~IsPrefix(Edit.file, j.path) /\ ~IsPrefix(Edit.tmp, j.path)
       /\ r.method = "PUT" => \A n \in 1 .. Len(j.path) :
            n < Len(j.path) \/ r.slash => Parent(SubSeq(j.path, 1, n)) # Dir
  /\ Making(r, j) /\ j.depth \in Nat \ {0}

\* Both files let the request in.
LetInByBoth(r) == Authorized(r, OldLines) /\ Authorized(r, NewLines)

\* A request is let past the guarded directory by its passwords file alone.
GuardOf(r, j) ==
  IF j.file.dir \/ (r.slash /\ j.file.mtime = 0) THEN j.path ELSE Parent(j.path)

GuardJob(r, j) ==
  /\ j.pc \in {"idle", "authorize"} => j.passed = "no"
  /\ HasEdit /\ GuardOf(r, j) = Dir /\ j.passed = "noFile" => j.gap
  /\ HasEdit /\ GuardOf(r, j) = Dir /\ ~IsPutOrDelete(r) /\ LetInByBoth(r)
       => 401 \notin ToSet(j.replies)

\* What it was looked up as is still what check_authorization looks at.
Looks(r, j) ==
  HasEdit /\ j.pc = "authorize" =>
    /\ IsPrefix(Dir, j.path) => IsPrefix(Dir, r.path)
    /\ j.path = Dir => j.file.dir
    /\ j.path # <<>> /\ Parent(j.path) = Dir /\ IsDir(j.path) => j.file.dir

GuardInv ==
  /\ HasEdit => EditKept
  /\ \A w \in Worker :
       Apart(req[w], job[w]) /\ GuardJob(req[w], job[w]) /\ Looks(req[w], job[w])

\* Bytes of no hidden file.
Plain(c)     == \A p \in Config.hidden : c \notin ToSet(Before(p))
AllPlain(s)  == \A c \in ToSet(s) : Plain(c)
PlainFile(p) == fs[p].kind = "file" => AllPlain(disk[fs[p].ino].data)

\* Where what is hidden may be: in the files it was in at first, and in the
\* temporary of the editor.
HiddenFs ==
  /\ \A p \in Path \ (Config.hidden \cup {Edit.tmp}) : PlainFile(p)
  /\ Edit.file \notin Config.hidden => PlainFile(Edit.tmp)

\* Who is neither listed nor sent any of it.
Free(j) == j.path \notin Config.ssi \cup {Edit.tmp}

HiddenJob(j) ==
  /\ \A q \in j.names : Last(q) \notin Config.hiddenNames
  /\ j.pc = "open" => j.path \notin Config.hidden
  /\ Free(j) => AllPlain(j.sent)

SendsPlain(j) == Free(j) /\ j.pc = "send" => AllPlain(disk[j.ino].data)

HiddenInv == HiddenFs /\ \A w \in Worker : HiddenJob(job[w]) /\ SendsPlain(job[w])

-----------------------------------------------------------------------------
(* Types, field by field *)

\* The constants, one by one.
LEMMA Bounds ==
  /\ MaxLevel \in Nat /\ Chunk \in Nat \ {0} /\ MaxTime \in Nat \ {0}
  /\ Path \subseteq Seq(STRING) /\ Config \in ConfigType /\ Edit \in EditType
  /\ "hole" \notin Worker /\ Edit.user \notin Worker
  BY FilesAssumption DEF FilesAssumption

\* What a request may be; a number of a range that was not found is 0.
LEMMA RequestFacts ==
  ASSUME NEW w \in Worker, NEW r \in Request[w]
  PROVE  /\ r \in RequestType /\ r.length \in Int /\ r.length >= -1 /\ r.buffered \in Nat
         /\ r.length >= 0 => r.buffered <= r.length
         /\ r.path \in Path \cup {<<>>} /\ r.range.n \in 0 .. 2
         /\ r.range.r1 \in Int /\ r.range.r2 \in Int
         /\ r.range.n = 0 => r.range.r1 = 0
         /\ r.range.n < 2 => r.range.r2 = 0
<1>1. /\ r \in RequestType /\ r.length >= -1
      /\ r.length >= 0 => r.buffered <= r.length
      /\ r.range.n = 0 => r.range.r1 = 0
      /\ r.range.n < 2 => r.range.r2 = 0
  BY FilesAssumption DEF FilesAssumption
<1>2. /\ r.length \in Int /\ r.buffered \in Nat /\ r.path \in Path \cup {<<>>}
      /\ r.range \in [n : 0 .. 2, r1 : Int, r2 : Int]
  BY <1>1, Zenon DEF RequestType
<1>3. r.range.n \in 0 .. 2 /\ r.range.r1 \in Int /\ r.range.r2 \in Int
  BY <1>2
<1> QED BY <1>1, <1>2, <1>3

\* The fields of a job.
LEMMA JobFields ==
  ASSUME NEW j \in Job
  PROVE  /\ j.pc \in Place /\ j.path \in Path \cup {<<>>} /\ j.file \in FileInfo
         /\ j.ino \in Nat /\ j.off \in Nat /\ j.left \in Int /\ j.cl \in Int
         /\ j.sent \in Seq(CellType) /\ Len(j.sent) \in Nat
         /\ j.replies \in Seq(Nat) /\ j.status \in Nat /\ j.depth \in Nat
         /\ j.pend \in Seq(CellType) /\ Len(j.pend) \in Nat /\ j.consumed \in Nat
         /\ j.stack \in Seq(FrameType) /\ Len(j.stack) \in Nat
         /\ j.was \in Seq(CellType) /\ Len(j.was) \in Nat
<1>1. /\ j.pc \in Place /\ j.path \in Path \cup {<<>>} /\ j.file \in FileInfo
      /\ j.ino \in Nat /\ j.off \in Nat /\ j.left \in Int /\ j.cl \in Int
      /\ j.sent \in Seq(CellType)
      /\ j.replies \in Seq(Nat) /\ j.status \in Nat /\ j.depth \in Nat
      /\ j.pend \in Seq(CellType) /\ j.consumed \in Nat
      /\ j.stack \in Seq(FrameType) /\ j.was \in Seq(CellType)
  BY Zenon DEF Job
<1> QED BY <1>1, LenProperties

\* Each worker has a job and one of his requests.
LEMMA JobFacts ==
  ASSUME TypeInv, NEW w \in Worker
  PROVE  job[w] \in Job /\ req[w] \in Request[w] /\ Done(w) \in Int
<1>1. job[w] \in Job /\ req[w] \in Request[w]
  BY DEF TypeInv
<1>2. job[w].consumed \in Nat /\ Len(job[w].pend) \in Nat
  BY <1>1, JobFields
<1> QED BY <1>1, <1>2 DEF Done, Stored

\* Each file on the disk has a time and contents.
LEMMA DiskFacts ==
  ASSUME TypeInv, NEW n \in 1 .. Len(disk)
  PROVE  /\ disk[n] \in InodeType /\ disk[n].mtime \in Nat
         /\ disk[n].data \in Seq(CellType) /\ Len(disk[n].data) \in Nat
<1>1. disk[n] \in InodeType
  BY ElementOfSeq DEF TypeInv
<1>2. disk[n].mtime \in 0 .. MaxTime /\ disk[n].data \in Seq(CellType)
  BY <1>1 DEF InodeType
<1> QED BY <1>1, <1>2, LenProperties, Bounds

\* What a step makes of the jobs: that of worker w becomes k.
Becomes(w, k) ==
  /\ job' = [job EXCEPT ![w] = k] /\ k \in Job
  /\ job' \in [Worker -> Job] /\ job'[w] = k
  /\ \A v \in Worker \ {w} : job'[v] = job[v]

\* A step of one worker leaves the jobs of the others alone.
LEMMA BecomesFacts ==
  ASSUME TypeInv, NEW w \in Worker, NEW k \in Job, job' = [job EXCEPT ![w] = k]
  PROVE  Becomes(w, k)
<1>1. job \in [Worker -> Job]
  BY DEF TypeInv
<1> HIDE DEF Job
<1> QED BY <1>1 DEF Becomes

-----------------------------------------------------------------------------
(* What a step of one worker leaves the others *)

\* Nothing of worker v has changed but, perhaps, that it knows of another who
\* writes to its file; a file it writes to alone is as it was, and one it reads
\* does not become again what it was.
Undisturbed(v) ==
  LET j == job[v]  k == job'[v] IN
  /\ req'[v] = req[v] /\ (v \in gone => v \in gone')
  /\ k = j \/ (k = [j EXCEPT !.shared = TRUE] /\ j.pc \in Writing)
  /\ Len(disk) \in Nat /\ Len(disk') \in Nat /\ Len(disk) <= Len(disk')
  /\ j.pc \in Writing /\ ~k.shared => disk'[j.ino].data = disk[j.ino].data
  /\ Inode(j.ino) /\ disk'[j.ino].data = j.was /\ j.was # <<>> => disk[j.ino].data = j.was

\* A job that only differs in what it knows of others has stored the same.
LEMMA StoreKept ==
  ASSUME NEW w \in Worker, NEW J \in Job, NEW K \in Job, StoreJob(w, J), req'[w] = req[w],
         /\ K.pc = J.pc /\ K.passed = J.passed /\ K.ino = J.ino /\ K.status = J.status
         /\ K.pend = J.pend /\ K.consumed = J.consumed /\ K.replies = J.replies
         /\ K.lost = J.lost,
         J.pc \in Writing => J.ino \in 1 .. Len(disk'),
         K.pc \in Writing /\ ~K.shared /\ ~K.lost /\ req[w].range.n = 0 =>
           LET d == disk'[K.ino].data IN
           K.off = Stored(K) /\ Len(d) = Stored(K) /\ \A i \in 1 .. Len(d) : d[i] = Cell(w, i)
  PROVE  StoreJob(w, K)'
<1>1. Stored(K) = Stored(J)
  BY DEF Stored
<1>2. /\ \A i \in 1 .. Len(K.pend) : K.pend[i] = Cell(w, Stored(K) + i)
      /\ K.consumed <= Max({req'[w].length, 0}) /\ Len(K.pend) <= K.consumed
  BY <1>1 DEF StoreJob
<1>3. K.pc = "close" =>
      \E c \in {200, 201, 206, 411, 417, 577} :
         /\ K.replies = <<c>>
         /\ c \in {200, 201} => K.consumed = req'[w].length /\ req'[w].range.n = 0
  BY DEF StoreJob
<1>4. /\ K.pc \in Putting \cup Writing => req'[w].method = "PUT" /\ K.passed = "put"
      /\ K.pc \in Putting => K.status \in {200, 201}
      /\ K.pc \in Writing => K.status \in IF req'[w].range.n > 0 THEN {206} ELSE {200, 201}
      /\ K.pc = "forward" => K.pend = <<>> /\ K.consumed = 0 /\ K.replies = <<>> /\ ~K.lost
      /\ K.pc = "body" => K.replies = <<>> /\ req'[w].length >= 0
  BY DEF StoreJob
<1>5. K.pc \in Writing => K.ino \in 1 .. Len(disk')
  OBVIOUS
<1> QED BY <1>2, <1>3, <1>4, <1>5 DEF StoreJob, Inode

\* Who is not disturbed keeps his invariant.
LEMMA UndisturbedInv ==
  ASSUME NEW v \in Worker, WorkerInv(v), Undisturbed(v), job[v] \in Job
  PROVE  WorkerInv(v)'
<1> DEFINE j == job[v]
<1> DEFINE k == job'[v]
<1>1. /\ k.pc = j.pc /\ k.path = j.path /\ k.file = j.file /\ k.passed = j.passed
      /\ k.ino = j.ino /\ k.off = j.off /\ k.left = j.left /\ k.cl = j.cl
      /\ k.sent = j.sent /\ k.replies = j.replies /\ k.status = j.status
      /\ k.pend = j.pend /\ k.consumed = j.consumed /\ k.stack = j.stack
      /\ k.was = j.was /\ k.lost = j.lost
      /\ (k.shared <=> j.shared) \/ (j.pc \in Writing /\ k.shared)
  BY ZenonT(60) DEF Undisturbed, Job
<1>2. req'[v] = req[v] /\ (v \in gone => v \in gone')
  BY DEF Undisturbed
<1>3. \A n : Inode(n) => Inode(n)'
  BY DEF Undisturbed, Inode
<1>4. Done(v)' = Done(v)
  BY <1>1 DEF Done, Stored
<1>5. PlaceInv(v)'
  <2>1. PlaceInv(v)
    BY DEF WorkerInv
  <2> QED BY <1>1, <1>2, <2>1 DEF PlaceInv, IsNotModified
<1>6. SentInv(v)'
  <2>1. SentInv(v)
    BY DEF WorkerInv
  <2>2. Inode(j.ino) /\ disk'[j.ino].data = j.was /\ j.was # <<>> => disk[j.ino].data = j.was
    BY DEF Undisturbed
  <2>3. Inode(j.ino) /\ Same(v)' => Same(v)
    BY <1>1, <2>2 DEF Same
  <2>4. Sending(v) => Sending(v)'
    BY <1>1, <1>2, <1>3, <2>3 DEF Sending, FromFile
  <2>5. Sent(v) => Sent(v)'
    BY <1>1, <1>2, <1>3, <2>3 DEF Sent, FromFile
  <2> QED BY <1>1, <1>2, <2>1, <2>4, <2>5 DEF SentInv
<1>7. StoreInv(v)'
  <2>1. StoreInv(v)
    BY DEF WorkerInv
  <2>2. j.pc \in Writing /\ ~k.shared => disk'[j.ino].data = disk[j.ino].data
    BY DEF Undisturbed
  <2>3. Stored(k) = Stored(j)
    BY <1>1 DEF Stored
  <2>4. StoreJob(v, j)
    BY <2>1 DEF StoreInv
  <2>5. j.pc \in Writing => j.ino \in 1 .. Len(disk')
    BY <1>3, <2>4 DEF StoreJob, Inode
  <2>6. k.pc \in Writing /\ ~k.shared /\ ~k.lost /\ req[v].range.n = 0 =>
          LET d == disk'[k.ino].data IN
          k.off = Stored(k) /\ Len(d) = Stored(k) /\ \A i \in 1 .. Len(d) : d[i] = Cell(v, i)
    BY <1>1, <2>2, <2>3, <2>4 DEF StoreJob
  <2>7. PICK J \in Job, K \in Job : J = j /\ K = k
    <3>1. k \in Job
      BY ZenonT(60) DEF Undisturbed, Job
    <3> QED BY <3>1
  <2>8. StoreJob(v, K)'
    BY <1>1, <1>2, <2>4, <2>5, <2>6, <2>7, StoreKept
  <2> QED BY <2>7, <2>8 DEF StoreInv, StoreJob, Inode, Stored
<1>8. StackInv(v)'
  <2>1. StackInv(v)
    BY DEF WorkerInv
  <2> QED BY <1>1, <1>3, <2>1 DEF StackInv, Frames
<1>9. OnDisk(v)'
  <2>1. OnDisk(v)
    BY DEF WorkerInv
  <2> QED BY <1>1, <1>3, <2>1 DEF OnDisk, NoneOrInode
<1> QED BY <1>5, <1>6, <1>7, <1>8, <1>9 DEF WorkerInv

\* What has been written stays so.
LEMMA PastGrows ==
  ASSUME TypeInv, TypeInv', \A v \in Worker : Done(v) <= Done(v)',
         NEW s \in Seq(CellType), AllPast(s)
  PROVE  AllPast(s)'
<1> SUFFICES ASSUME NEW i \in 1 .. Len(s), NEW v \in Worker, s[i].by = v
             PROVE  s[i].k <= Done(v)'
  BY DEF AllPast, Past
<1>1. s[i].k <= Done(v)
  BY DEF AllPast, Past
<1>2. s[i].k \in Nat
  <2>1. s[i] \in CellType
    BY ElementOfSeq
  <2> QED BY <2>1 DEF CellType
<1>3. Done(v) \in Int /\ Done(v)' \in Int
  <2>1. Done(v) \in Int
    BY JobFacts
  <2>2. job'[v] \in Job
    BY DEF TypeInv
  <2>3. job'[v].consumed \in Nat /\ Len(job'[v].pend) \in Nat
    BY <2>2, JobFields
  <2> QED BY <2>1, <2>3 DEF Done, Stored
<1> QED BY <1>1, <1>2, <1>3

\* A step after which the contents of the files, the clock and the clients are
\* as before, and every worker but w is where it was.
Calm  == UNCHANGED <<disk, World>> /\ fs' \in [Path -> FileType] /\ FsInv'
Quiet == UNCHANGED <<Files, World>>

LEMMA QuietIsCalm ==
  ASSUME IInv, Quiet
  PROVE  Calm
  BY DEF IInv, TypeInv, FsInv, Quiet, Calm, Files, World

\* A step of one worker that writes to no file somebody has open.
LEMMA CalmInv ==
  ASSUME IInv, NEW w \in Worker, NEW k \in Job, job' = [job EXCEPT ![w] = k], Calm,
         WorkerInv(w)', Done(w) <= Stored(k), AllPast(k.was),
         k.pc \in Writing =>
           job[w].pc \in Writing /\ k.ino = job[w].ino /\ (job[w].shared => k.shared)
  PROVE  IInv'
<1>0. TypeInv /\ FsInv /\ SharedInv /\ PastInv
  BY DEF IInv
<1>1. Becomes(w, k)
  BY <1>0, BecomesFacts
<1>2. /\ job' \in [Worker -> Job] /\ job'[w] = k /\ \A v \in Worker \ {w} : job'[v] = job[v]
      /\ UNCHANGED <<disk, now, req, editor, gone, stop>>
  BY <1>1 DEF Becomes, Calm, World
<1>3. TypeInv'
  BY <1>0, <1>2 DEF TypeInv, Calm
<1>4. FsInv'
  BY DEF Calm
<1>5. ASSUME NEW v \in Worker PROVE WorkerInv(v)'
  <2>1. CASE v = w
    BY <2>1
  <2>2. CASE v # w
    <3>1. WorkerInv(v) /\ job[v] \in Job /\ disk \in Seq(InodeType)
      BY <1>0, JobFacts DEF IInv, TypeInv
    <3>2. Undisturbed(v)
      BY <1>2, <2>2, <3>1, LenProperties DEF Undisturbed
    <3> QED BY <3>1, <3>2, UndisturbedInv
  <2> QED BY <2>1, <2>2
<1>6. SharedInv'
  <2> SUFFICES ASSUME NEW u \in Worker, NEW v \in Worker, u # v,
                      job'[u].pc \in Writing, job'[v].pc \in Writing,
                      job'[u].ino = job'[v].ino
               PROVE  job'[u].shared
    BY DEF SharedInv
  <2>1. /\ job[u].pc \in Writing /\ job[v].pc \in Writing
        /\ job'[u].ino = job[u].ino /\ job'[v].ino = job[v].ino
        /\ job[u].shared => job'[u].shared
    BY <1>2
  <2> QED BY <1>0, <2>1 DEF SharedInv
<1>7. \A v \in Worker : Done(v) <= Done(v)'
  <2> SUFFICES ASSUME NEW v \in Worker PROVE Done(v) <= Done(v)'
    OBVIOUS
  <2>1. CASE v = w
    BY <1>2, <2>1 DEF Done, Stored
  <2>2. CASE v # w
    <3>1. Done(v)' = Done(v) /\ Done(v) \in Int
      BY <1>0, <1>2, <2>2, JobFacts DEF Done, Stored
    <3> QED BY <3>1
  <2> QED BY <2>1, <2>2
<1>8. PastInv'
  <2>1. ASSUME NEW n \in 1 .. Len(disk) PROVE AllPast(disk[n].data)'
    <3>1. disk[n].data \in Seq(CellType) /\ AllPast(disk[n].data) /\ disk' = disk
      BY <1>0, <1>2, DiskFacts DEF PastInv
    <3>2. \A s \in Seq(CellType) : AllPast(s) => AllPast(s)'
      BY <1>0, <1>3, <1>7, PastGrows
    <3> QED BY <3>1, <3>2 DEF AllPast
  <2>2. ASSUME NEW v \in Worker PROVE AllPast(job[v].was)'
    <3>1. job'[v].was \in Seq(CellType)
      BY <1>2, JobFields
    <3>2. AllPast(job'[v].was)
      BY <1>0, <1>2 DEF PastInv
    <3>3. \A s \in Seq(CellType) : AllPast(s) => AllPast(s)'
      BY <1>0, <1>3, <1>7, PastGrows
    <3> QED BY <3>1, <3>2, <3>3 DEF AllPast
  <2> QED BY <1>2, <2>1, <2>2 DEF PastInv
<1> QED BY <1>3, <1>4, <1>5, <1>6, <1>8 DEF IInv

\* A step of one worker that changes no file.
LEMMA QuietInv ==
  ASSUME IInv, NEW w \in Worker, NEW k \in Job, job' = [job EXCEPT ![w] = k], Quiet,
         WorkerInv(w)', Done(w) <= k.consumed - Len(k.pend), AllPast(k.was),
         k.pc \in Writing =>
           job[w].pc \in Writing /\ k.ino = job[w].ino /\ (job[w].shared => k.shared)
  PROVE  IInv'
<1>1. Calm /\ Done(w) <= Stored(k)
  BY QuietIsCalm DEF Stored
<1> QED BY <1>1, CalmInv

-----------------------------------------------------------------------------
(* Steps before anything is opened *)

\* A job that has opened nothing.
EarlyJob(w, k) ==
  /\ k.pc \in Early \cup {"end"}
  /\ k.ino = 0 /\ k.sent = <<>> /\ k.pend = <<>> /\ k.consumed = 0 /\ k.stack = <<>>
  /\ ~k.lost /\ ~k.shared
  /\ k.pc \in Early => k.replies = <<>>
  /\ 304 \in ToSet(k.replies) => k.file.mtime # 0 /\ IsNotModified(req[w], k.file)
  /\ k.pc = "openSsi" => k.path \in Config.ssi
  /\ k.path = <<>> => k.pc = "idle" \/ k.file.dir
  /\ k.pc = "open" => k.path # <<>>
  /\ k.file.size = Len(k.was) /\ AllPast(k.was)
  /\ k.pc \in Putting =>
       req[w].method = "PUT" /\ k.passed = "put" /\ k.status \in {200, 201}

LEMMA EmptyToSet == ToSet(<<>>) = {}
  BY DEF ToSet

\* Before anything is opened, a job is as it was made.
LEMMA IsEarly ==
  ASSUME IInv, NEW w \in Worker, job[w].pc \in Early
  PROVE  EarlyJob(w, job[w])
<1>1. PlaceInv(w) /\ StoreInv(w) /\ AllPast(job[w].was)
  BY DEF IInv, WorkerInv, PastInv
<1>2. job[w].replies = <<>>
  BY <1>1 DEF PlaceInv
<1>3. job[w].pc \notin Writing \cup {"end", "ssi"}
  BY DEF Early, Writing
<1>4. job[w].pc \in Putting =>
        req[w].method = "PUT" /\ job[w].passed = "put" /\ job[w].status \in {200, 201}
  BY <1>1 DEF StoreInv, StoreJob
<1> QED BY <1>1, <1>2, <1>3, <1>4, EmptyToSet DEF PlaceInv, EarlyJob

\* Who writes nothing has stored nothing.
LEMMA IdleStore ==
  ASSUME NEW w \in Worker, NEW k \in Job, job'[w] = k, req'[w] \in Request[w],
         k.pc \notin Writing, k.pc \notin Putting, k.pend = <<>>, k.consumed = 0
  PROVE  StoreInv(w)'
<1>1. PICK n \in Int : n = req'[w].length
  BY RequestFacts
<1>2. Max({n, 0}) >= 0
  BY MaxOfTwo
<1>3. k.pc \notin {"forward", "body", "close"} /\ Len(<<>>) = 0 /\ \A i \in 1 .. 0 : FALSE
  BY EmptySeq DEF Writing
<1> QED BY <1>1, <1>2, <1>3 DEF StoreInv, StoreJob

LEMMA EarlyInv ==
  ASSUME NEW w \in Worker, NEW k \in Job, EarlyJob(w, k), job'[w] = k, req'[w] \in Request[w],
         req'[w] = req[w]
  PROVE  WorkerInv(w)'
<1>1. /\ k.pc \in Early \cup {"end"}
      /\ k.ino = 0 /\ k.sent = <<>> /\ k.pend = <<>> /\ k.consumed = 0 /\ k.stack = <<>>
  BY DEF EarlyJob
<1>2. k.pc \notin Writing \cup {"send", "ssi"}
  BY <1>1 DEF Early, Writing
<1>3. Len(<<>>) = 0 /\ \A i \in 1 .. 0 : FALSE
  BY EmptySeq
<1>4. PlaceInv(w)'
  BY <1>1, <1>2 DEF PlaceInv, EarlyJob, IsNotModified
<1>5. SentInv(w)'
  <2>1. k.cl \in Int
    BY JobFields
  <2>2. Max({k.cl, 0}) >= 0
    BY <2>1, MaxOfTwo
  <2> QED BY <1>1, <1>2, <1>3, <2>2 DEF SentInv
<1>6. StoreInv(w)'
  <2>1. req'[w].length \in Int
    BY RequestFacts
  <2>2. Max({req'[w].length, 0}) >= 0
    BY <2>1, MaxOfTwo
  <2>3. k.pc \in Putting =>
          req'[w].method = "PUT" /\ k.passed = "put" /\ k.status \in {200, 201}
    BY DEF EarlyJob
  <2>4. k.pc \notin {"forward", "body", "close"}
    BY <1>2 DEF Writing
  <2> QED BY <1>1, <1>2, <1>3, <2>2, <2>3, <2>4 DEF StoreInv, StoreJob
<1>7. StackInv(w)'
  BY <1>1, <1>2, <1>3 DEF StackInv, Frames
<1>8. OnDisk(w)'
  BY <1>1 DEF OnDisk, NoneOrInode
<1> QED BY <1>4, <1>5, <1>6, <1>7, <1>8 DEF WorkerInv

\* Steps before anything is opened, files changed or not.
LEMMA EarlyCalm ==
  ASSUME IInv, NEW w \in Worker, NEW k \in Job, job' = [job EXCEPT ![w] = k], Calm,
         job[w].pc \in Early, EarlyJob(w, k)
  PROVE  IInv'
<1>1. TypeInv /\ req[w] \in Request[w]
  BY DEF IInv, TypeInv
<1>2. job'[w] = k /\ req' = req
  BY <1>1, BecomesFacts DEF Becomes, Calm, World
<1>3. WorkerInv(w)'
  BY <1>1, <1>2, EarlyInv
<1>4. Done(w) <= Stored(k)
  <2>1. job[w].consumed = 0 /\ job[w].pend = <<>> /\ k.consumed = 0 /\ k.pend = <<>>
    BY IsEarly DEF EarlyJob
  <2> QED BY <2>1, EmptySeq DEF Done, Stored
<1>5. AllPast(k.was) /\ k.pc \notin Writing
  BY DEF EarlyJob, Early, Writing
<1> QED BY <1>3, <1>4, <1>5, CalmInv

LEMMA EarlyStep ==
  ASSUME IInv, NEW w \in Worker, NEW k \in Job, job' = [job EXCEPT ![w] = k], Quiet,
         job[w].pc \in Early, EarlyJob(w, k)
  PROVE  IInv'
<1>1. Calm
  BY QuietIsCalm
<1> QED BY <1>1, EarlyCalm

\* A request that is answered with an error at once.
LEMMA AnswerInv ==
  ASSUME IInv, NEW w \in Worker, NEW st \in Nat, st # 304, Answer(w, st), Quiet,
         job[w].pc \in Early \ {"idle"}
  PROVE  IInv'
<1> DEFINE k == [job[w] EXCEPT !.pc = "end", !.replies = <<st>>]
<1>1. TypeInv /\ job[w] \in Job
  BY JobFacts DEF IInv
<1>2. EarlyJob(w, job[w])
  BY IsEarly
<1>3. job[w].replies = <<>> /\ Append(<<>>, st) = <<st>> /\ <<st>> \in Seq(Nat)
  BY <1>2 DEF EarlyJob
<1>4. job' = [job EXCEPT ![w] = k]
  <2>1. job' = [job EXCEPT ![w].pc = "end", ![w].replies = Append(@, st)]
    BY DEF Answer
  <2>2. job \in [Worker -> Job]
    BY <1>1 DEF TypeInv
  <2> HIDE DEF Job
  <2> QED BY <1>3, <2>1, <2>2
<1>5. k \in Job
  BY <1>1, <1>3 DEF Job, Place
<1>6. EarlyJob(w, k)
  <2>1. ToSet(<<st>>) = {st}
    BY DEF ToSet
  <2>2. /\ k.pc = "end" /\ k.replies = <<st>> /\ k.ino = job[w].ino /\ k.sent = job[w].sent
        /\ k.pend = job[w].pend /\ k.consumed = job[w].consumed /\ k.stack = job[w].stack
        /\ k.lost = job[w].lost /\ k.shared = job[w].shared /\ k.path = job[w].path
        /\ k.file = job[w].file /\ k.was = job[w].was
    BY <1>1 DEF Job
  <2>3. "end" \notin Early /\ "end" \notin Putting /\ "idle" # job[w].pc
    BY DEF Early, Putting
  <2> HIDE DEF k
  <2> QED BY <1>2, <2>1, <2>2, <2>3 DEF EarlyJob
<1> HIDE DEF k
<1> QED BY <1>4, <1>5, <1>6, EarlyStep

-----------------------------------------------------------------------------
(* From the URI to the handler *)

\* A path is a file on the disk, or has none.
LEMMA FsFacts ==
  ASSUME IInv, NEW p \in Path
  PROVE  /\ fs[p].kind \in {"none", "dir", "file"} /\ fs[p].ino \in Nat
         /\ fs[p].kind = "file" => fs[p].ino \in 1 .. Len(disk)
         /\ fs[p].kind # "file" => fs[p].ino = 0
<1>1. fs[p] \in FileType
  BY DEF IInv, TypeInv
<1> QED BY <1>1 DEF IInv, FsInv, FileType

\* What stat and the contents of a path are at the same time.
LEMMA StatFacts ==
  ASSUME IInv, NEW p \in Path \cup {<<>>}
  PROVE  /\ Stat(p) \in FileInfo /\ Contents(p) \in Seq(CellType)
         /\ Stat(p).size = Len(Contents(p)) /\ AllPast(Contents(p))
         /\ p = <<>> => Stat(p).dir
<1>0. /\ <<>> \in Seq(CellType) /\ Len(<<>>) = 0 /\ AllPast(<<>>)
  BY EmptySeq DEF AllPast
<1>1. CASE IsDir(p)
  <2>1. Stat(p) = [dir |-> TRUE, mtime |-> 1, size |-> 0]
    BY <1>1 DEF Stat, IsFile, IsDir
  <2>2. Contents(p) = <<>>
    BY <1>1 DEF Contents, IsFile, IsDir
  <2> QED BY <1>0, <2>1, <2>2 DEF FileInfo
<1>2. CASE IsFile(p)
  <2>1. p \in Path /\ fs[p].ino \in 1 .. Len(disk) /\ p # <<>> /\ ~IsDir(p)
    BY <1>2, FsFacts DEF IsFile, IsDir
  <2> DEFINE d == disk[fs[p].ino]
  <2>2. d.mtime \in Nat /\ d.data \in Seq(CellType) /\ Len(d.data) \in Nat
    BY <2>1, DiskFacts DEF IInv
  <2>3. Stat(p) = [dir |-> FALSE, mtime |-> d.mtime, size |-> Len(d.data)]
    BY <1>2, <2>1 DEF Stat, Lines
  <2>4. Contents(p) = d.data
    BY <1>2 DEF Contents, Lines
  <2>5. AllPast(d.data)
    BY <2>1 DEF IInv, PastInv
  <2> HIDE DEF d
  <2> QED BY <2>1, <2>2, <2>3, <2>4, <2>5 DEF FileInfo
<1>3. CASE ~IsDir(p) /\ ~IsFile(p)
  <2>1. Stat(p) = [dir |-> FALSE, mtime |-> 0, size |-> 0]
    BY <1>3 DEF Stat, NoFile
  <2>2. Contents(p) = <<>> /\ p # <<>>
    BY <1>3 DEF Contents, IsDir
  <2> QED BY <1>0, <2>1, <2>2 DEF FileInfo
<1> QED BY <1>1, <1>2, <1>3

LEMMA ConfigFacts ==
  /\ Config.cgi \subseteq Path /\ Config.root \in BOOLEAN /\ Config.listing \in BOOLEAN
  /\ Config.index \in Seq(STRING) /\ Config.includes \in Seq(Path)
<1>1. Config \in ConfigType
  BY Bounds
<1> QED BY <1>1, Zenon DEF ConfigType

\* Of a set of sequences no longer than some bound there is a longest one.
LEMMA Longest ==
  ASSUME NEW S, S # {}, NEW b \in Nat, \A q \in S : Len(q) \in 0 .. b
  PROVE  \E q \in S : \A o \in S : Len(o) <= Len(q)
<1> DEFINE R == {b - Len(q) : q \in S}
<1>1. R \subseteq Nat /\ R # {}
  OBVIOUS
<1>2. Min(R) \in R /\ \A y \in R : Min(R) <= y
  BY <1>1, MinFacts
<1>3. PICK q \in S : Min(R) = b - Len(q)
  BY <1>2
<1>4. ASSUME NEW o \in S PROVE Len(o) <= Len(q)
  <2>1. b - Len(q) <= b - Len(o)
    BY <1>2, <1>3
  <2>2. Len(o) \in Nat /\ Len(q) \in Nat
    OBVIOUS
  <2> QED BY <2>1, <2>2
<1> QED BY <1>4

\* What stat says of a directory.
LEMMA StatDir ==
  ASSUME NEW p
  PROVE  Stat(p).dir <=> IsDir(p)
<1>1. IsDir(p) => ~IsFile(p)
  BY DEF IsDir, IsFile
<1>2. CASE IsDir(p)
  <2>1. Stat(p) = [dir |-> TRUE, mtime |-> 1, size |-> 0]
    BY <1>1, <1>2 DEF Stat
  <2> QED BY <1>2, <2>1
<1>3. CASE IsFile(p)
  <2>1. Stat(p) = [dir |-> FALSE, mtime |-> disk[fs[p].ino].mtime, size |-> Len(Lines(p))]
    BY <1>1, <1>3 DEF Stat
  <2> QED BY <1>1, <1>3, <2>1
<1>4. CASE ~IsDir(p) /\ ~IsFile(p)
  <2>1. Stat(p) = NoFile
    BY <1>4 DEF Stat
  <2> QED BY <1>4, <2>1 DEF NoFile
<1> QED BY <1>2, <1>3, <1>4

\* What a path may be looked up as, with its contents at that time.
FoundAs(path, file, was) ==
  /\ file.size = Len(was) /\ AllPast(was)
  /\ IsDir(path) => file.dir

\* The path a request is about: that of its URI, or a part of it.
LEMMA ConvertFacts ==
  ASSUME IInv, NEW w \in Worker, Convert(w)
  PROVE  \E path \in (Path \cup {<<>>}) \cap (Prefixes(req[w].path) \cup {req[w].path}),
           file \in FileInfo, was \in Seq(CellType) :
           /\ job[w].pc = "idle" /\ Quiet /\ FoundAs(path, file, was)
           /\ job' = [job EXCEPT ![w].pc = "authorize", ![w].path = path,
                                 ![w].file = file, ![w].was = was]
<1> DEFINE p    == req[w].path
<1> DEFINE cgis == {q \in Prefixes(p) : q \in Config.cgi /\ Exists(q)}
<1> DEFINE none == Asked(req[w]).mtime = 0
<1> DEFINE cgi  == CHOOSE q \in cgis : \A o \in cgis : Len(o) <= Len(q)
<1> DEFINE path == IF none /\ cgis # {} THEN cgi ELSE p
<1> DEFINE file == IF none /\ cgis # {} THEN Stat(cgi) ELSE Asked(req[w])
<1> DEFINE was  == IF file = NoFile THEN <<>> ELSE Contents(path)
<1>1. p \in Path \cup {<<>>}
  BY JobFacts, RequestFacts DEF IInv
<1>2. cgis \subseteq Path /\ cgis \subseteq Prefixes(p)
  BY ConfigFacts
<1>3. cgis # {} => \E q \in cgis : \A o \in cgis : Len(o) <= Len(q)
  <2>1. p \in Seq(STRING) /\ Len(p) \in Nat
    BY <1>1, Bounds, EmptySeq, LenProperties
  <2>2. \A n \in 0 .. Len(p) : Len(SubSeq(p, 1, n)) = n
    BY <2>1, CutFacts
  <2>3. \A q \in cgis : Len(q) \in 0 .. Len(p)
    BY <2>2 DEF Prefixes
  <2> HIDE DEF cgis, p
  <2> QED BY <2>1, <2>3, Longest
<1>4. path \in (Path \cup {<<>>}) \cap (Prefixes(p) \cup {p})
  <2> HIDE DEF cgis, p, none
  <2> QED BY <1>1, <1>2, <1>3
<1>5. /\ job[w].pc = "idle" /\ Quiet
      /\ job' = [job EXCEPT ![w].pc = "authorize", ![w].path = path,
                            ![w].file = file, ![w].was = was]
  BY Zenon DEF Convert, Quiet, At
<1>6. file = Stat(path) \/ (file = NoFile /\ ~IsDir(path))
  <2>1. Asked(req[w]) = Stat(p) \/ (Asked(req[w]) = NoFile /\ ~IsDir(p))
    BY DEF Asked
  <2> HIDE DEF cgis, p, none, cgi
  <2> QED BY <2>1
<1> HIDE DEF path, file
<1>7. FoundAs(path, file, was) /\ file \in FileInfo /\ was \in Seq(CellType)
  <2>1. /\ Stat(path) \in FileInfo /\ Contents(path) \in Seq(CellType)
        /\ Stat(path).size = Len(Contents(path)) /\ AllPast(Contents(path))
        /\ path = <<>> => Stat(path).dir
    BY <1>4, StatFacts
  <2>2. IsDir(path) => Stat(path).dir
    BY StatDir
  <2>3. /\ NoFile \in FileInfo /\ NoFile.size = Len(<<>>) /\ <<>> \in Seq(CellType)
        /\ AllPast(<<>>)
    BY EmptySeq DEF NoFile, FileInfo, AllPast
  <2>4. CASE file = NoFile
    <3>1. was = <<>>
      BY <2>4
    <3>2. ~IsDir(path)
      BY <1>6, <2>2, <2>4 DEF NoFile
    <3> QED BY <2>3, <2>4, <3>1, <3>2 DEF FoundAs, IsDir
  <2>5. CASE file # NoFile
    <3>1. was = Contents(path) /\ file = Stat(path)
      BY <1>6, <2>5
    <3> QED BY <2>1, <2>2, <3>1 DEF FoundAs
  <2> QED BY <2>4, <2>5
<1> HIDE DEF was
<1> QED BY Zenon, <1>4, <1>5, <1>7

LEMMA ConvertInv ==
  ASSUME IInv, NEW w \in Worker, Convert(w)
  PROVE  IInv'
<1>1. PICK path \in Path \cup {<<>>},
           file \in FileInfo, was \in Seq(CellType) :
        /\ job[w].pc = "idle" /\ Quiet /\ FoundAs(path, file, was)
        /\ job' = [job EXCEPT ![w].pc = "authorize", ![w].path = path,
                              ![w].file = file, ![w].was = was]
  BY Zenon, ConvertFacts
<1> DEFINE k == [job[w] EXCEPT !.pc = "authorize", !.path = path,
                               !.file = file, !.was = was]
<1>2. TypeInv /\ job[w] \in Job /\ job \in [Worker -> Job]
  BY JobFacts DEF IInv, TypeInv
<1>3. job' = [job EXCEPT ![w] = k]
  <2> HIDE DEF Job
  <2> QED BY <1>1, <1>2
<1>4. /\ file \in FileInfo /\ was \in Seq(CellType)
      /\ file.size = Len(was) /\ AllPast(was) /\ (path = <<>> => file.dir)
  BY <1>1 DEF FoundAs, IsDir
<1>5. k \in Job
  BY <1>2, <1>4 DEF Job, Place
<1>6. EarlyJob(w, k)
  <2>1. EarlyJob(w, job[w]) /\ job[w].pc \in Early
    BY <1>1, IsEarly DEF Early
  <2>2. /\ k.pc = "authorize" /\ k.replies = job[w].replies /\ k.ino = job[w].ino
        /\ k.sent = job[w].sent /\ k.pend = job[w].pend /\ k.consumed = job[w].consumed
        /\ k.stack = job[w].stack /\ k.lost = job[w].lost /\ k.shared = job[w].shared
        /\ k.path = path /\ k.file = file /\ k.was = was
    BY <1>2 DEF Job
  <2>3. "authorize" \in Early /\ "authorize" \notin Putting
    BY DEF Early, Putting
  <2> HIDE DEF k
  <2> QED BY <1>4, <2>1, <2>2, <2>3, EmptyToSet DEF EarlyJob
<1>7. job[w].pc \in Early
  BY <1>1 DEF Early
<1> HIDE DEF k
<1> QED BY <1>1, <1>3, <1>5, <1>6, <1>7, EarlyStep

\* An early job that goes on and keeps what it has looked up.
LEMMA OnwardInv ==
  ASSUME IInv, NEW w \in Worker, NEW k \in Job, job' = [job EXCEPT ![w] = k], Quiet,
         job[w].pc \in Early \ {"idle"},
         k.pc \in {"dispatch", "list", "propfind"},
         /\ k.path = job[w].path /\ k.file = job[w].file /\ k.was = job[w].was
         /\ k.ino = job[w].ino /\ k.sent = job[w].sent /\ k.pend = job[w].pend
         /\ k.consumed = job[w].consumed /\ k.stack = job[w].stack
         /\ k.lost = job[w].lost /\ k.shared = job[w].shared /\ k.replies = job[w].replies
  PROVE  IInv'
<1>1. EarlyJob(w, job[w])
  BY IsEarly
<1>2. k.pc \in Early /\ k.pc \notin Putting /\ k.pc # "idle" /\ k.pc # "open" /\ k.pc # "openSsi"
  BY DEF Early, Putting
<1>3. EarlyJob(w, k)
  BY <1>1, <1>2 DEF EarlyJob
<1> QED BY <1>3, EarlyStep

LEMMA GotoInv ==
  ASSUME IInv, NEW w \in Worker, NEW l \in {"dispatch", "list", "propfind"}, Goto(w, l), Quiet,
         job[w].pc \in Early \ {"idle"}
  PROVE  IInv'
<1> DEFINE k == [job[w] EXCEPT !.pc = l]
<1>1. job[w] \in Job /\ job \in [Worker -> Job]
  BY JobFacts DEF IInv, TypeInv
<1>2. job' = [job EXCEPT ![w] = k]
  <2> HIDE DEF Job
  <2> QED BY <1>1 DEF Goto
<1>3. k \in Job
  BY <1>1 DEF Job, Place
<1>4. /\ k.pc = l /\ k.path = job[w].path /\ k.file = job[w].file /\ k.was = job[w].was
      /\ k.ino = job[w].ino /\ k.sent = job[w].sent /\ k.pend = job[w].pend
      /\ k.consumed = job[w].consumed /\ k.stack = job[w].stack
      /\ k.lost = job[w].lost /\ k.shared = job[w].shared /\ k.replies = job[w].replies
  BY <1>1 DEF Job
<1> HIDE DEF k
<1> QED BY <1>2, <1>3, <1>4, OnwardInv

\* check_authorization lets the request in.
LEMMA PassInv ==
  ASSUME IInv, NEW w \in Worker, NEW a \in {"noFile", "cred"}, NEW b \in BOOLEAN,
         job' = [job EXCEPT ![w] = [job[w] EXCEPT !.pc = "dispatch", !.passed = a, !.gap = b]],
         Quiet, job[w].pc \in Early \ {"idle"}
  PROVE  IInv'
<1> DEFINE k == [job[w] EXCEPT !.pc = "dispatch", !.passed = a, !.gap = b]
<1>1. job[w] \in Job
  BY JobFacts DEF IInv
<1>2. k \in Job
  BY <1>1 DEF Job, Place
<1>3. /\ k.pc = "dispatch" /\ k.path = job[w].path /\ k.file = job[w].file
      /\ k.was = job[w].was
      /\ k.ino = job[w].ino /\ k.sent = job[w].sent /\ k.pend = job[w].pend
      /\ k.consumed = job[w].consumed /\ k.stack = job[w].stack
      /\ k.lost = job[w].lost /\ k.shared = job[w].shared /\ k.replies = job[w].replies
  BY <1>1 DEF Job
<1> HIDE DEF k
<1> QED BY <1>2, <1>3, OnwardInv DEF k

\* The outcomes of authorize.
LEMMA AuthorizeFacts ==
  ASSUME IInv, NEW w \in Worker, Authorize(w)
  PROVE  /\ job[w].pc = "authorize" /\ Quiet
         /\ \/ \E st \in {200, 302, 401} : Answer(w, st)
            \/ Goto(w, "dispatch")
            \/ job' = [job EXCEPT ![w].pc = "dispatch", ![w].passed = "noFile",
                                  ![w].gap = (editor = "removed")]
            \/ job' = [job EXCEPT ![w].pc = "dispatch", ![w].passed = "cred"]
<1>1. job[w].pc = "authorize" /\ Quiet
  BY ZenonT(60) DEF Authorize, At, Quiet
<1> QED BY <1>1 DEF Authorize

LEMMA AuthorizeInv ==
  ASSUME IInv, NEW w \in Worker, Authorize(w)
  PROVE  IInv'
<1>1. job[w].pc \in Early \ {"idle"} /\ Quiet
  BY Zenon, AuthorizeFacts DEF Early
<1>2. job[w] \in Job /\ job \in [Worker -> Job] /\ job[w].gap \in BOOLEAN
  <2>1. job[w] \in Job /\ job \in [Worker -> Job]
    BY JobFacts DEF IInv, TypeInv
  <2> QED BY <2>1, Zenon DEF Job
<1>3. CASE \E st \in {200, 302, 401} : Answer(w, st)
  BY <1>1, <1>3, AnswerInv
<1>4. CASE Goto(w, "dispatch")
  BY <1>1, <1>4, GotoInv
<1>5. CASE job' = [job EXCEPT ![w].pc = "dispatch", ![w].passed = "noFile",
                              ![w].gap = (editor = "removed")]
  <2>1. PICK b \in BOOLEAN : b = (editor = "removed")
    OBVIOUS
  <2>2. job' = [job EXCEPT ![w] = [job[w] EXCEPT !.pc = "dispatch", !.passed = "noFile",
                                                 !.gap = b]]
    <3> HIDE DEF Job
    <3> QED BY <1>2, <1>5, <2>1
  <2> QED BY Zenon, <1>1, <2>2, PassInv
<1>6. CASE job' = [job EXCEPT ![w].pc = "dispatch", ![w].passed = "cred"]
  <2>1. [job[w] EXCEPT !.pc = "dispatch", !.passed = "cred"] =
          [job[w] EXCEPT !.pc = "dispatch", !.passed = "cred", !.gap = job[w].gap]
    BY <1>2 DEF Job
  <2>2. job' = [job EXCEPT ![w] = [job[w] EXCEPT !.pc = "dispatch", !.passed = "cred",
                                                 !.gap = job[w].gap]]
    <3> HIDE DEF Job
    <3> QED BY <1>2, <1>6, <2>1
  <2> QED BY Zenon, <1>1, <1>2, <2>2, PassInv
<1> QED BY ZenonT(60), <1>3, <1>4, <1>5, <1>6, AuthorizeFacts

\* What a path that is served is known by.
Looked(p, f, was) ==
  /\ p \in Path /\ p # <<>> /\ f \in FileInfo /\ f.mtime # 0
  /\ was \in Seq(CellType) /\ f.size = Len(was) /\ AllPast(was)

\* What was looked up is what will be served.
LEMMA ServeTakes ==
  ASSUME IInv, NEW w \in Worker, NEW p, NEW f, NEW was, Looked(p, f, was),
         NEW l \in {"open", "openSsi", "end"}, NEW replies \in Seq(Nat),
         job' = [job EXCEPT ![w] = [job[w] EXCEPT !.pc = l, !.path = p, !.file = f,
                                                  !.was = was, !.replies = replies]],
         l = "openSsi" => p \in Config.ssi,
         l = "end" => IsNotModified(req[w], f),
         l # "end" => replies = job[w].replies,
         Quiet, job[w].pc = "dispatch"
  PROVE  IInv'
<1> DEFINE k == [job[w] EXCEPT !.pc = l, !.path = p, !.file = f, !.was = was,
                               !.replies = replies]
<1>1. job[w] \in Job
  BY JobFacts DEF IInv
<1>2. k \in Job
  BY <1>1 DEF Job, Place, Looked
<1>3. /\ k.pc = l /\ k.path = p /\ k.file = f /\ k.was = was /\ k.replies = replies
      /\ k.ino = job[w].ino /\ k.sent = job[w].sent /\ k.pend = job[w].pend
      /\ k.consumed = job[w].consumed /\ k.stack = job[w].stack
      /\ k.lost = job[w].lost /\ k.shared = job[w].shared
  BY <1>1 DEF Job
<1>4. job[w].pc \in Early /\ l \in Early \cup {"end"} /\ l \notin Putting
      /\ (l \in Early => l # "end")
  BY DEF Early, Putting
<1>5. EarlyJob(w, job[w])
  BY <1>4, IsEarly
<1>6. job[w].replies = <<>>
  BY <1>4, <1>5 DEF EarlyJob
<1> HIDE DEF k
<1>7. EarlyJob(w, k)
  BY <1>3, <1>4, <1>5, <1>6, EmptyToSet DEF EarlyJob, Looked
<1> QED BY <1>2, <1>4, <1>7, EarlyStep DEF k

LEMMA ServeFileInv ==
  ASSUME IInv, NEW w \in Worker, NEW p, NEW f, NEW was, Looked(p, f, was),
         ServeFile(w, p, f, was), Quiet, job[w].pc = "dispatch"
  PROVE  IInv'
<1>1. job[w] \in Job /\ job \in [Worker -> Job] /\ job[w].replies = <<>>
      /\ job[w].pc \in Early \ {"idle"}
  <2>1. job[w].pc \in Early \ {"idle"}
    BY DEF Early
  <2> QED BY <2>1, IsEarly, JobFacts DEF IInv, TypeInv, EarlyJob
<1>2. <<>> \in Seq(Nat)
  OBVIOUS
<1>3. CASE p \in Config.cgi
  BY <1>1, <1>3, AnswerInv DEF ServeFile
<1>4. CASE p \notin Config.cgi /\ p \in Config.ssi
  <2>1. job' = [job EXCEPT ![w].pc = "openSsi", ![w].path = p, ![w].file = f, ![w].was = was]
    BY <1>4 DEF ServeFile
  <2>2. [job[w] EXCEPT !.pc = "openSsi", !.path = p, !.file = f, !.was = was] =
          [job[w] EXCEPT !.pc = "openSsi", !.path = p, !.file = f, !.was = was,
                         !.replies = job[w].replies]
    BY <1>1 DEF Job
  <2>3. job' = [job EXCEPT ![w] = [job[w] EXCEPT !.pc = "openSsi", !.path = p, !.file = f,
                                       !.was = was, !.replies = job[w].replies]]
    <3> HIDE DEF Job
    <3> QED BY <1>1, <2>1, <2>2
  <2> QED BY Zenon, <1>1, <1>2, <1>4, <2>3, ServeTakes
<1>5. CASE p \notin Config.cgi /\ p \notin Config.ssi /\ IsNotModified(req[w], f)
  <2>1. job' = [job EXCEPT ![w].pc = "end", ![w].path = p, ![w].file = f,
                           ![w].was = was, ![w].replies = Append(@, 304)]
    BY <1>5 DEF ServeFile
  <2>2. PICK c \in Seq(Nat) : c = Append(job[w].replies, 304)
    <3>1. job[w].replies \in Seq(Nat)
      BY <1>1, JobFields
    <3>2. Append(job[w].replies, 304) \in Seq(Nat)
      BY <3>1, AppendProperties
    <3> QED BY <3>2
  <2>3. job' = [job EXCEPT ![w] = [job[w] EXCEPT !.pc = "end", !.path = p, !.file = f,
                                                 !.was = was, !.replies = c]]
    <3> HIDE DEF Job
    <3> QED BY ZenonT(60), <1>1, <2>1, <2>2
  <2> QED BY Zenon, <1>5, <2>3, ServeTakes
<1>6. CASE p \notin Config.cgi /\ p \notin Config.ssi /\ ~IsNotModified(req[w], f)
  <2>1. job' = [job EXCEPT ![w].pc = "open", ![w].path = p, ![w].file = f, ![w].was = was]
    BY <1>6 DEF ServeFile
  <2>2. [job[w] EXCEPT !.pc = "open", !.path = p, !.file = f, !.was = was] =
          [job[w] EXCEPT !.pc = "open", !.path = p, !.file = f, !.was = was,
                         !.replies = job[w].replies]
    BY <1>1 DEF Job
  <2>3. job' = [job EXCEPT ![w] = [job[w] EXCEPT !.pc = "open", !.path = p, !.file = f,
                                       !.was = was, !.replies = job[w].replies]]
    <3> HIDE DEF Job
    <3> QED BY <1>1, <2>1, <2>2
  <2> QED BY Zenon, <1>1, <1>2, <2>3, ServeTakes
<1> QED BY <1>3, <1>4, <1>5, <1>6

\* The first of the index files that is there.
LEMMA IndexFacts ==
  ASSUME IInv, NEW w \in Worker, Indexes(job[w].path) # {}
  PROVE  LET q == Append(job[w].path, Config.index[Min(Indexes(job[w].path))]) IN
           Looked(q, Stat(q), Contents(q))
<1> DEFINE p  == job[w].path
<1> DEFINE ix == Indexes(p)
<1> DEFINE q  == Append(p, Config.index[Min(ix)])
<1>1. ix \subseteq Nat
  BY ConfigFacts, LenProperties DEF Indexes
<1>2. Min(ix) \in ix
  BY <1>1, MinFacts
<1>3. q \in Path /\ Exists(q)
  BY <1>2 DEF Indexes
<1>4. q # <<>>
  <2>1. p \in Seq(STRING)
    <3>1. p \in Path \cup {<<>>}
      BY JobFacts, JobFields DEF IInv
    <3> QED BY <3>1, Bounds, EmptySeq
  <2>2. Config.index[Min(ix)] \in STRING
    <3>1. Min(ix) \in DOMAIN Config.index
      BY <1>2 DEF Indexes
    <3> HIDE DEF ix
    <3> QED BY <3>1, ConfigFacts
  <2>3. Len(q) = Len(p) + 1 /\ Len(p) \in Nat
    <3> HIDE DEF ix, p
    <3> QED BY <2>1, <2>2, AppendProperties, LenProperties
  <2> HIDE DEF q
  <2> QED BY <2>3, EmptySeq
<1>5. Stat(q).mtime # 0
  BY <1>3 DEF Exists
<1> HIDE DEF q
<1>6. Looked(q, Stat(q), Contents(q))
  BY <1>3, <1>4, <1>5, StatFacts DEF Looked
<1> QED BY <1>6 DEF q

LEMMA DispatchInv ==
  ASSUME IInv, NEW w \in Worker, Dispatch(w)
  PROVE  IInv'
<1> DEFINE p == job[w].path
<1> DEFINE f == job[w].file
<1> DEFINE q == Append(p, Config.index[Min(Indexes(p))])
<1>1. job[w].pc = "dispatch" /\ Quiet
  BY Zenon DEF Dispatch, At, Quiet
<1>2. job[w].pc \in Early \ {"idle"}
  BY <1>1 DEF Early
<1>3. \/ \E st \in {200, 301, 403, 404, 207} : Answer(w, st)
      \/ \E l \in {"propfind", "list"} : Goto(w, l)
      \/ f.mtime # 0 /\ ~f.dir /\ ServeFile(w, p, f, job[w].was)
      \/ Indexes(p) # {} /\ ServeFile(w, q, Stat(q), Contents(q))
  <2> HIDE DEF q
  <2>1. \/ Answer(w, 200) \/ Answer(w, 404) \/ Answer(w, 301) \/ Answer(w, 207) \/ Answer(w, 403)
        \/ Goto(w, "propfind") \/ Goto(w, "list")
        \/ f.mtime # 0 /\ ~f.dir /\ ServeFile(w, p, f, job[w].was)
        \/ Indexes(p) # {} /\ ServeFile(w, q, Stat(q), Contents(q))
    BY DEF Dispatch, q
  <2> QED BY <2>1
<1>4. CASE \E st \in {200, 301, 403, 404, 207} : Answer(w, st)
  BY <1>1, <1>2, <1>4, AnswerInv
<1>5. CASE \E l \in {"propfind", "list"} : Goto(w, l)
  BY <1>1, <1>2, <1>5, GotoInv
<1>6. CASE f.mtime # 0 /\ ~f.dir /\ ServeFile(w, p, f, job[w].was)
  <2>1. EarlyJob(w, job[w]) /\ job[w] \in Job
    BY <1>2, IsEarly, JobFacts DEF IInv
  <2>2. Looked(p, f, job[w].was)
    BY <1>1, <1>6, <2>1, JobFields DEF EarlyJob, Looked
  <2> QED BY <1>1, <1>6, <2>2, ServeFileInv
<1>7. CASE Indexes(p) # {} /\ ServeFile(w, q, Stat(q), Contents(q))
  <2>1. Looked(q, Stat(q), Contents(q))
    BY <1>7, IndexFacts
  <2> HIDE DEF q
  <2> QED BY <1>1, <1>7, <2>1, ServeFileInv
<1> QED BY <1>3, <1>4, <1>5, <1>6, <1>7

-----------------------------------------------------------------------------
(* Directories and files *)

LEMMA ScanInv ==
  ASSUME IInv, NEW w \in Worker, Scan(w)
  PROVE  IInv'
<1>1. job[w].pc \in {"list", "propfind"} /\ Quiet
  BY Zenon DEF Scan, At, Quiet
<1>2. job[w].pc \in Early \ {"idle"}
  BY <1>1 DEF Early
<1>3. job[w] \in Job /\ job \in [Worker -> Job] /\ EarlyJob(w, job[w])
  BY <1>2, IsEarly, JobFacts DEF IInv, TypeInv
<1>4. PICK shown \in SUBSET Path : shown = Shown(job[w].path)
  BY DEF Shown
<1>5. PICK st \in Nat : st # 304 /\ st = IF At(w, "list") THEN 200 ELSE 207
  <2>1. CASE At(w, "list")
    BY <2>1
  <2>2. CASE ~At(w, "list")
    BY <2>2
  <2> QED BY <2>1, <2>2
<1>6. \/ Answer(w, 500)
      \/ job' = [job EXCEPT ![w].pc = "end", ![w].names = shown, ![w].replies = Append(@, st)]
  BY <1>4, <1>5 DEF Scan
<1>7. CASE Answer(w, 500)
  BY <1>1, <1>2, <1>7, AnswerInv
<1>8. CASE job' = [job EXCEPT ![w].pc = "end", ![w].names = shown,
                              ![w].replies = Append(@, st)]
  <2> DEFINE k == [job[w] EXCEPT !.pc = "end", !.names = shown, !.replies = <<st>>]
  <2>1. job[w].replies = <<>> /\ Append(<<>>, st) = <<st>> /\ <<st>> \in Seq(Nat)
    BY <1>2, <1>3 DEF EarlyJob
  <2>2. job' = [job EXCEPT ![w] = k]
    <3> HIDE DEF Job
    <3> QED BY <1>3, <1>8, <2>1
  <2>3. k \in Job
    BY <1>3, <2>1 DEF Job, Place
  <2>4. EarlyJob(w, k)
    <3>1. ToSet(<<st>>) = {st}
      BY DEF ToSet
    <3>2. /\ k.pc = "end" /\ k.replies = <<st>> /\ k.ino = job[w].ino /\ k.sent = job[w].sent
          /\ k.pend = job[w].pend /\ k.consumed = job[w].consumed /\ k.stack = job[w].stack
          /\ k.lost = job[w].lost /\ k.shared = job[w].shared /\ k.path = job[w].path
          /\ k.file = job[w].file /\ k.was = job[w].was
      BY <1>3 DEF Job
    <3>3. "end" \notin Early /\ "end" \notin Putting /\ "idle" # job[w].pc
      BY <1>1 DEF Early, Putting
    <3> HIDE DEF k
    <3> QED BY <1>3, <1>5, <3>1, <3>2, <3>3 DEF EarlyJob
  <2>5. job[w].pc \in Early
    BY <1>2
  <2> HIDE DEF k
  <2> QED BY <1>1, <2>2, <2>3, <2>4, <2>5, EarlyStep
<1> QED BY <1>6, <1>7, <1>8

\* The length that is announced, and where the file is read from, are numbers.
LEMMA LengthFacts ==
  ASSUME NEW r, r.range.n \in 0 .. 2, r.range.r1 \in Int, r.range.r2 \in Int, NEW size \in Nat
  PROVE  /\ ContentLength(r, size) \in Int /\ Seek(r) \in Nat
         /\ Seek(r) = IF r.range.r1 >= 0 THEN r.range.r1 ELSE 0
<1>1. Seek(r) = IF r.range.r1 >= 0 THEN r.range.r1 ELSE 0
  BY MaxOfTwo DEF Seek
<1>2. Min({r.range.r2, size}) \in Int
  BY MinOfTwo
<1>3. CASE ~Ranged(r)
  BY <1>1, <1>3 DEF ContentLength
<1>4. CASE Ranged(r) /\ r.range.n = 2
  BY <1>1, <1>2, <1>4 DEF ContentLength
<1>5. CASE Ranged(r) /\ r.range.n # 2
  <2>1. ContentLength(r, size) = size - r.range.r1
    BY <1>5 DEF ContentLength
  <2> QED BY <1>1, <2>1
<1> QED BY <1>3, <1>4, <1>5

\* A job that has opened a file to send it, or a directory.
HasOpened(w, k) ==
  /\ k.pc = "send" => Inode(k.ino)
  /\ k.pc = "end" /\ req[w].method = "GET" => k.ino = 0
  /\ NoneOrInode(k.ino)

\* handle_file_request up to its first byte.
LEMMA OpenedInv ==
  ASSUME IInv, NEW w \in Worker, NEW k \in Job, job' = [job EXCEPT ![w] = k], Quiet,
         job[w].pc = "open", NEW st \in Nat, st \in {200, 206}, k.replies = <<st>>,
         k.pc \in {"end", "send"}, k.path # <<>>,
         /\ k.sent = <<>> /\ k.pend = <<>> /\ k.consumed = 0 /\ k.stack = <<>>
         /\ ~k.lost /\ ~k.shared /\ k.file = job[w].file /\ k.was = job[w].was,
         HasOpened(w, k),
         /\ k.cl = ContentLength(req[w], k.file.size) /\ k.left = k.cl
         /\ k.off = Seek(req[w])
  PROVE  IInv'
<1>1. job[w].pc \in Early
  BY DEF Early
<1>2. TypeInv /\ EarlyJob(w, job[w]) /\ req[w] \in Request[w] /\ req[w] \in RequestType
  BY <1>1, IsEarly, JobFacts DEF IInv, TypeInv
<1>3. job'[w] = k /\ req' = req /\ disk' = disk /\ gone' = gone
  BY ZenonT(60), <1>2, BecomesFacts DEF Becomes, Quiet, Files, World
<1>4. /\ k.pc \notin Writing /\ k.pc \notin Early /\ k.pc \notin Putting
      /\ k.pc \notin {"ssi", "openSsi", "forward", "body", "close"}
  BY DEF Writing, Early, Putting
<1>5. Len(<<>>) = 0 /\ \A i \in 1 .. 0 : FALSE
  BY EmptySeq
<1>6. PlaceInv(w)'
  <2>1. ToSet(<<st>>) = {st}
    BY DEF ToSet
  <2>2. k.file.size = Len(k.was)
    BY <1>2 DEF EarlyJob
  <2> QED BY <1>3, <1>4, <2>1, <2>2 DEF PlaceInv
<1>7. SentInv(w)'
  <2>1. k.cl \in Int /\ k.off \in Nat
    BY JobFields
  <2>2. Max({k.cl, 0}) >= 0
    BY <2>1, MaxOfTwo
  <2>3. Inode(k.ino) => Inode(k.ino)'
    BY <1>3 DEF Inode
  <2>4. k.left + 0 = k.cl /\ k.off = Seek(req[w]) + 0
    BY <2>1
  <2>5. k.pc = "send" => Sending(w)'
    <3>1. FromFile(k, Seek(req[w]))
      BY <1>5 DEF FromFile
    <3>2. k.left + Len(k.sent) = k.cl /\ k.off = Seek(req[w]) + Len(k.sent)
      BY <1>5, <2>4
    <3>3. k.pc = "send" => Inode(k.ino)
      BY DEF HasOpened
    <3>4. Len(k.sent) <= Max({k.cl, 0})
      BY <1>5, <2>2
    <3> QED BY ZenonT(60), <1>3, <3>1, <3>2, <3>3, <3>4 DEF Sending, Inode
  <2>6. Len(k.sent) <= Max({k.cl, 0})
    BY <1>5, <2>2
  <2>7. ~(k.pc = "end" /\ req[w].method = "GET" /\ k.ino # 0)
    BY DEF HasOpened
  <2> QED BY ZenonT(60), <1>3, <2>5, <2>6, <2>7 DEF SentInv
<1>8. StoreInv(w)'
  BY <1>2, <1>3, <1>4, IdleStore
<1>9. StackInv(w)'
  BY <1>3, <1>4, <1>5 DEF StackInv, Frames
<1>13. OnDisk(w)'
  BY <1>3 DEF HasOpened, OnDisk, NoneOrInode, Inode
<1>10. WorkerInv(w)'
  BY <1>6, <1>7, <1>8, <1>9, <1>13 DEF WorkerInv
<1>11. Done(w) <= k.consumed - Len(k.pend)
  BY <1>2, <1>5 DEF Done, Stored, EarlyJob
<1>12. AllPast(k.was)
  BY <1>2 DEF EarlyJob
<1> QED BY <1>4, <1>10, <1>11, <1>12, QuietInv

LEMMA OpenInv ==
  ASSUME IInv, NEW w \in Worker, Open(w)
  PROVE  IInv'
<1> DEFINE r == req[w]
<1> DEFINE p == job[w].path
<1>1. job[w].pc = "open" /\ Quiet
  BY Zenon DEF Open, At, Quiet
<1>2. job[w].pc \in Early \ {"idle"}
  BY <1>1 DEF Early
<1>3. job[w] \in Job /\ job \in [Worker -> Job] /\ EarlyJob(w, job[w]) /\ r \in Request[w]
  BY <1>2, IsEarly, JobFacts DEF IInv, TypeInv
<1>4. CASE ~IsFile(p) /\ ~IsDir(p)
  <2>1. Answer(w, 500)
    BY <1>4 DEF Open
  <2> QED BY <1>1, <1>2, <2>1, AnswerInv
<1>5. CASE IsFile(p) \/ IsDir(p)
  <2>1. p \in Path /\ p # <<>>
    BY <1>1, <1>3, JobFields DEF EarlyJob
  <2>2. PICK ino \in Nat : /\ ino = fs[p].ino
                           /\ (IsFile(p) => Inode(ino)) /\ (IsDir(p) => ino = 0)
    <3>1. /\ fs[p].ino \in Nat
          /\ fs[p].kind = "file" => fs[p].ino \in 1 .. Len(disk)
          /\ fs[p].kind # "file" => fs[p].ino = 0
      BY <2>1, FsFacts
    <3> QED BY <2>1, <3>1 DEF Inode, IsFile, IsDir
  <2>3. PICK cl \in Int : cl = ContentLength(r, job[w].file.size)
    <3>1. job[w].file.size \in Nat
      BY <1>3, JobFields DEF FileInfo
    <3>2. r.range.n \in 0 .. 2 /\ r.range.r1 \in Int /\ r.range.r2 \in Int
      BY <1>3, RequestFacts
    <3>3. ContentLength(r, job[w].file.size) \in Int
      BY <3>1, <3>2, LengthFacts
    <3> QED BY <3>3
  <2>4. PICK off \in Nat : off = Seek(r)
    <3>1. r.range.n \in 0 .. 2 /\ r.range.r1 \in Int /\ r.range.r2 \in Int /\ 0 \in Nat
      BY <1>3, RequestFacts
    <3>2. Seek(r) \in Nat
      BY <3>1, LengthFacts
    <3> QED BY <3>2
  <2>5. PICK l \in {"end", "send"} : l = IF r.method = "HEAD" \/ IsDir(p) THEN "end" ELSE "send"
    OBVIOUS
  <2>6. PICK st \in Nat : st \in {200, 206} /\ st = IF Ranged(r) THEN 206 ELSE 200
    <3>1. CASE Ranged(r)
      BY <3>1
    <3>2. CASE ~Ranged(r)
      BY <3>2
    <3> QED BY <3>1, <3>2
  <2> DEFINE k == [job[w] EXCEPT !.pc = l, !.ino = ino, !.cl = cl, !.left = cl,
                                 !.off = off, !.replies = <<st>>]
  <2>7. job[w].replies = <<>> /\ Append(<<>>, st) = <<st>> /\ <<st>> \in Seq(Nat)
    BY <1>2, <1>3 DEF EarlyJob
  <2>8. job' = [job EXCEPT ![w] = k]
    <3>1. job' = [job EXCEPT ![w].pc = l, ![w].ino = ino, ![w].cl = cl, ![w].left = cl,
                             ![w].off = off, ![w].replies = Append(@, st)]
      BY ZenonT(60), <1>5, <2>2, <2>3, <2>4, <2>5, <2>6 DEF Open
    <3> HIDE DEF Job
    <3> QED BY <1>3, <2>7, <3>1
  <2>9. k \in Job
    BY <1>3, <2>7 DEF Job, Place
  <2>10. /\ k.pc = l /\ k.ino = ino /\ k.cl = cl /\ k.left = cl /\ k.off = off
         /\ k.replies = <<st>> /\ k.sent = <<>> /\ k.pend = <<>> /\ k.consumed = 0
         /\ k.stack = <<>> /\ ~k.lost /\ ~k.shared /\ k.path = p /\ k.file = job[w].file
         /\ k.was = job[w].was
    BY <1>3 DEF Job, EarlyJob
  <2>11. k.pc = "send" => Inode(k.ino)
    BY <1>5, <2>2, <2>5, <2>10
  <2>12. k.pc = "end" /\ r.method = "GET" => k.ino = 0
    BY <2>2, <2>5, <2>10
  <2>13. /\ k.pc \in {"end", "send"} /\ k.path # <<>> /\ k.left = k.cl
         /\ k.cl = ContentLength(req[w], k.file.size) /\ k.off = Seek(req[w])
    BY <2>1, <2>3, <2>4, <2>10
  <2>14. NoneOrInode(k.ino)
    <3>1. k.ino = ino
      BY <2>10
    <3>2. NoneOrInode(ino)
      BY <1>5, <2>2 DEF NoneOrInode
    <3> HIDE DEF k
    <3> QED BY <3>1, <3>2
  <2>15. HasOpened(w, k)
    BY <2>11, <2>12, <2>14 DEF HasOpened
  <2> HIDE DEF k
  <2> QED BY ZenonT(60), <1>1, <2>6, <2>8, <2>9, <2>10, <2>13, <2>15, OpenedInv
<1> QED BY <1>4, <1>5

\* What a read of at most n bytes returns.
LEMMA ReadFacts ==
  ASSUME IInv, NEW ino, Inode(ino), NEW off \in Nat, NEW n \in Nat
  PROVE  LET d == disk[ino].data  b == ReadAt(ino, off, n) IN
         /\ b \in Seq(CellType) /\ Len(b) \in 0 .. n
         /\ \A i \in 1 .. Len(b) : off + i <= Len(d) /\ b[i] = d[off + i]
         /\ n > 0 /\ b = <<>> => Len(d) <= off
<1> DEFINE d == disk[ino].data
<1> DEFINE b == ReadAt(ino, off, n)
<1>1. d \in Seq(CellType) /\ Len(d) \in Nat
  BY DiskFacts DEF IInv, Inode
<1> HIDE DEF d
<1> DEFINE to == Min({off + n, Len(d)})
<1>2. b = SubSeq(d, off + 1, to)
  BY DEF ReadAt, d
<1>3. to = IF off + n <= Len(d) THEN off + n ELSE Len(d)
  BY <1>1, MinOfTwo
<1>4. to \in Nat /\ to <= Len(d) /\ to <= off + n /\ (n > 0 /\ to <= off => Len(d) <= off)
  BY <1>1, <1>3
<1> HIDE DEF to
<1>5. CASE to <= off
  <2>1. b = <<>>
    BY <1>1, <1>2, <1>4, <1>5
  <2>2. <<>> \in Seq(CellType) /\ Len(<<>>) = 0
    BY EmptySeq
  <2> HIDE DEF b
  <2> QED BY <1>4, <1>5, <2>1, <2>2 DEF b, d
<1>6. CASE off < to
  <2>1. \A i \in off + 1 .. to : d[i] \in CellType
    BY <1>1, <1>4, ElementOfSeq
  <2>2. /\ b \in Seq(CellType) /\ Len(b) = to - off
        /\ \A i \in 1 .. to - off : b[i] = d[off + 1 + i - 1]
    <3>1. off + 1 \in Int /\ to \in Int
      BY <1>4
    <3>2. /\ SubSeq(d, off + 1, to) \in Seq(CellType)
          /\ Len(SubSeq(d, off + 1, to)) =
               IF off + 1 <= to THEN to - (off + 1) + 1 ELSE 0
          /\ \A i \in 1 .. to - (off + 1) + 1 : SubSeq(d, off + 1, to)[i] = d[off + 1 + i - 1]
      BY <2>1, <3>1, SubSeqProperties
    <3>3. off + 1 <= to /\ to - (off + 1) + 1 = to - off
      BY <1>4, <1>6
    <3> QED BY <1>2, <3>2, <3>3
  <2> HIDE DEF b
  <2>3. \A i \in 1 .. Len(b) : off + i <= Len(d) /\ b[i] = d[off + i]
    <3> SUFFICES ASSUME NEW i \in 1 .. Len(b) PROVE off + i <= Len(d) /\ b[i] = d[off + i]
      OBVIOUS
    <3>1. i \in 1 .. to - off /\ off + 1 + i - 1 = off + i
      BY <1>4, <1>6, <2>2
    <3> QED BY <1>1, <1>4, <2>2, <3>1
  <2>4. Len(b) \in 0 .. n /\ b # <<>>
    BY <1>4, <1>6, <2>2, EmptySeq
  <2> QED BY <2>2, <2>3, <2>4 DEF b, d
<1> QED BY <1>4, <1>5, <1>6

\* A GET goes on, or ends with what it has sent.
LEMMA SentMore ==
  ASSUME IInv, NEW w \in Worker, NEW k \in Job, job' = [job EXCEPT ![w] = k], Quiet,
         job[w].pc = "send", k.pc \in {"send", "end"},
         /\ k.path = job[w].path /\ k.file = job[w].file /\ k.was = job[w].was
         /\ k.ino = job[w].ino /\ k.pend = job[w].pend /\ k.consumed = job[w].consumed
         /\ k.stack = job[w].stack /\ k.lost = job[w].lost /\ k.shared = job[w].shared
         /\ k.replies = job[w].replies,
         SentInv(w)'
  PROVE  IInv'
<1>1. /\ TypeInv /\ PlaceInv(w) /\ StoreInv(w) /\ StackInv(w) /\ req[w] \in Request[w]
      /\ AllPast(job[w].was)
  BY DEF IInv, WorkerInv, TypeInv, PastInv
<1>2. job'[w] = k /\ req' = req /\ disk' = disk
  BY <1>1, BecomesFacts DEF Becomes, Quiet, Files, World
<1>3. /\ k.pc \notin Writing /\ k.pc \notin Early /\ k.pc \notin Putting
      /\ k.pc \notin {"ssi", "openSsi", "forward", "body", "close", "open", "idle"}
      /\ job[w].pc \notin Writing \cup {"end"} /\ job[w].pc # "ssi" /\ job[w].pc # "idle"
  BY DEF Writing, Early, Putting
<1>4. \E c \in {200, 206} : k.replies = <<c>>
  BY <1>1 DEF PlaceInv
<1>5. 304 \notin ToSet(k.replies)
  BY <1>4 DEF ToSet
<1>6. PlaceInv(w)'
  BY <1>1, <1>2, <1>3, <1>4, <1>5 DEF PlaceInv
<1>7. k.pend = <<>> /\ k.consumed = 0 /\ k.stack = <<>> /\ Len(<<>>) = 0
  BY <1>1, <1>3, EmptySeq DEF PlaceInv
<1>8. StoreInv(w)'
  BY <1>1, <1>2, <1>3, <1>7, IdleStore
<1>9. StackInv(w)'
  <2>1. \A i \in 1 .. 0 : FALSE
    OBVIOUS
  <2> QED BY <1>2, <1>3, <1>7, <2>1 DEF StackInv, Frames
<1>12. OnDisk(w)'
  <2>1. OnDisk(w)
    BY DEF IInv, WorkerInv
  <2> QED BY <1>2, <2>1 DEF OnDisk, NoneOrInode, Inode
<1>10. WorkerInv(w)'
  BY <1>6, <1>8, <1>9, <1>12 DEF WorkerInv
<1>11. Done(w) <= k.consumed - Len(k.pend)
  <2>1. job[w].consumed = 0 /\ job[w].pend = <<>>
    BY <1>7
  <2> QED BY <1>7, <2>1 DEF Done, Stored
<1> QED BY <1>1, <1>3, <1>10, <1>11, QuietInv

LEMMA SendInv ==
  ASSUME IInv, NEW w \in Worker, Send(w)
  PROVE  IInv'
<1> DEFINE r == req[w]
<1>1. job[w].pc = "send" /\ Quiet
  BY Zenon DEF Send, At, Quiet
<1>2. TypeInv /\ job[w] \in Job /\ job \in [Worker -> Job] /\ r \in Request[w]
  BY JobFacts DEF IInv, TypeInv
<1>3. PICK left \in Int : left = job[w].left
  BY <1>2, JobFields
<1>4. PICK off \in Nat : off = job[w].off
  BY <1>2, JobFields
<1>5. PICK cl \in Int : cl = job[w].cl
  BY <1>2, JobFields
<1>6. PICK s \in Seq(CellType) : s = job[w].sent
  BY <1>2, JobFields
<1>7. PICK was \in Seq(CellType) : was = job[w].was
  BY <1>2, JobFields
<1>8. PICK n \in Nat : n = Len(s)
  BY LenProperties
<1>9. PICK from \in Nat : from = Seek(r)
  <2>1. r.range.n \in 0 .. 2 /\ r.range.r1 \in Int /\ r.range.r2 \in Int /\ 0 \in Nat
    BY <1>2, RequestFacts
  <2>2. Seek(r) \in Nat
    BY <2>1, LengthFacts
  <2> QED BY <2>2
<1> DEFINE d == disk[job[w].ino].data
<1>10. /\ Inode(job[w].ino) /\ cl = ContentLength(r, job[w].file.size)
       /\ left + n = cl /\ off = from + n /\ n <= Max({cl, 0})
       /\ d = was /\ was # <<>> => FromFile(job[w], from)
  <2>1. Sending(w)
    BY <1>1 DEF IInv, WorkerInv, SentInv
  <2> QED BY <1>3, <1>4, <1>5, <1>6, <1>7, <1>8, <1>9, <2>1 DEF Sending, Same
<1>11. UNCHANGED <<fs, disk, now, req, editor, gone, stop>>
  BY <1>1 DEF Quiet, Files, World
<1>12. PICK m \in Nat : left > 0 => m = Min({Chunk, left}) /\ m > 0 /\ m <= left
  <2>1. CASE left > 0
    <3>1. Chunk \in Nat /\ Chunk > 0
      BY Bounds
    <3>2. Min({Chunk, left}) = IF Chunk <= left THEN Chunk ELSE left
      BY <3>1, MinOfTwo
    <3>3. Min({Chunk, left}) \in Nat /\ Min({Chunk, left}) > 0 /\ Min({Chunk, left}) <= left
      BY <2>1, <3>1, <3>2
    <3> QED BY <3>3
  <2>2. CASE ~(left > 0)
    <3>1. 0 \in Nat
      OBVIOUS
    <3> QED BY <2>2, <3>1
  <2> QED BY <2>1, <2>2
<1>13. PICK b \in Seq(CellType) :
         /\ b = ReadAt(job[w].ino, off, m) /\ Len(b) \in 0 .. m
         /\ \A i \in 1 .. Len(b) : off + i <= Len(d) /\ b[i] = d[off + i]
         /\ m > 0 /\ b = <<>> => Len(d) <= off
  <2>0. Inode(job[w].ino)
    BY <1>10
  <2>1. /\ ReadAt(job[w].ino, off, m) \in Seq(CellType)
        /\ Len(ReadAt(job[w].ino, off, m)) \in 0 .. m
        /\ \A i \in 1 .. Len(ReadAt(job[w].ino, off, m)) :
             off + i <= Len(d) /\ ReadAt(job[w].ino, off, m)[i] = d[off + i]
        /\ m > 0 /\ ReadAt(job[w].ino, off, m) = <<>> => Len(d) <= off
    BY <2>0, ReadFacts, Zenon
  <2> QED BY <2>1
<1>14. \/ (left <= 0 \/ b = <<>> \/ w \in gone) /\ Goto(w, "end")
       \/ /\ left > 0
          /\ job' = [job EXCEPT ![w].off = off + Len(b), ![w].left = left - Len(b),
                                ![w].sent = s \o b]
  <2>1. CASE left <= 0
    BY <1>3, <2>1 DEF Send
  <2>2. CASE left > 0
    <3>1. b = ReadAt(job[w].ino, job[w].off, Min({Chunk, job[w].left}))
      BY <1>3, <1>4, <1>12, <1>13, <2>2
    <3> QED BY <1>3, <1>4, <1>6, <2>2, <3>1 DEF Send
  <2> QED BY SMTT(30), <2>1, <2>2
<1>15. CASE (left <= 0 \/ b = <<>> \/ w \in gone) /\ Goto(w, "end")
  <2> DEFINE k == [job[w] EXCEPT !.pc = "end"]
  <2>1. job' = [job EXCEPT ![w] = k]
    <3> HIDE DEF Job
    <3> QED BY <1>2, <1>15 DEF Goto
  <2>2. k \in Job
    BY <1>2 DEF Job, Place
  <2>3. /\ k.pc = "end" /\ k.path = job[w].path /\ k.file = job[w].file /\ k.was = job[w].was
        /\ k.ino = job[w].ino /\ k.pend = job[w].pend /\ k.consumed = job[w].consumed
        /\ k.stack = job[w].stack /\ k.lost = job[w].lost /\ k.shared = job[w].shared
        /\ k.replies = job[w].replies /\ k.sent = job[w].sent /\ k.cl = job[w].cl
    BY <1>2 DEF Job
  <2> HIDE DEF k
  <2>4. job'[w] = k
    BY <1>2, <2>1, <2>2, BecomesFacts DEF Becomes
  <2>5. Len(s) >= cl \/ Len(d) <= from + Len(s) \/ w \in gone
    BY <1>8, <1>10, <1>12, <1>13, <1>15
  <2>6. Sent(w)'
    <3>1. Same(w)' <=> Same(w)
      BY <1>11, <2>3, <2>4 DEF Same, Inode
    <3>2. Same(w) => d = was /\ was # <<>>
      BY <1>7 DEF Same
    <3>3. FromFile(job[w], from) => FromFile(k, from)
      BY <2>3 DEF FromFile
    <3>4. k.ino \in 1 .. Len(disk')
      BY <1>10, <1>11, <2>3 DEF Inode
    <3> QED BY <1>5, <1>6, <1>7, <1>8, <1>9, <1>10, <1>11, <2>3, <2>4, <2>5, <3>1, <3>2, <3>3, <3>4
            DEF Sent, Inode
  <2>7. SentInv(w)'
    <3>1. Len(k.sent) <= Max({k.cl, 0})
      BY <1>5, <1>6, <1>8, <1>10, <2>3
    <3> QED BY <2>3, <2>4, <2>6, <3>1 DEF SentInv
  <2> QED BY <1>1, <2>1, <2>2, <2>3, <2>7, SentMore
<1>16. CASE /\ left > 0
            /\ job' = [job EXCEPT ![w].off = off + Len(b), ![w].left = left - Len(b),
                                  ![w].sent = s \o b]
  <2>1. PICK c \in Nat : c = Len(b) /\ c <= left
    BY <1>12, <1>13, <1>16
  <2>2. PICK o \in Nat : o = off + c
    OBVIOUS
  <2>3. PICK l \in Int : l = left - c
    OBVIOUS
  <2>4. PICK t \in Seq(CellType) :
          /\ t = s \o b /\ Len(t) = n + c
          /\ \A i \in 1 .. n : t[i] = s[i]
          /\ \A i \in n + 1 .. n + c : t[i] = b[i - n]
    <3>1. /\ s \o b \in Seq(CellType) /\ Len(s \o b) = Len(s) + Len(b)
          /\ \A i \in 1 .. Len(s) + Len(b) :
               (s \o b)[i] = IF i <= Len(s) THEN s[i] ELSE b[i - Len(s)]
      BY ConcatProperties
    <3>2. \A i \in 1 .. n : (s \o b)[i] = s[i]
      BY <1>8, <2>1, <3>1
    <3>3. \A i \in n + 1 .. n + c : (s \o b)[i] = b[i - n]
      BY <1>8, <2>1, <3>1
    <3> QED BY <1>8, <2>1, <3>1, <3>2, <3>3
  <2> DEFINE k == [job[w] EXCEPT !.off = o, !.left = l, !.sent = t]
  <2>5. job' = [job EXCEPT ![w] = k]
    <3>1. job' = [job EXCEPT ![w].off = o, ![w].left = l, ![w].sent = t]
      BY <1>16, <2>1, <2>2, <2>3, <2>4
    <3> HIDE DEF Job
    <3> QED BY <1>2, <3>1
  <2>6. k \in Job
    BY <1>2 DEF Job, Place
  <2>7. /\ k.pc = "send" /\ k.path = job[w].path /\ k.file = job[w].file /\ k.was = job[w].was
        /\ k.ino = job[w].ino /\ k.pend = job[w].pend /\ k.consumed = job[w].consumed
        /\ k.stack = job[w].stack /\ k.lost = job[w].lost /\ k.shared = job[w].shared
        /\ k.replies = job[w].replies /\ k.sent = t /\ k.cl = job[w].cl
        /\ k.off = o /\ k.left = l
    BY <1>1, <1>2 DEF Job
  <2> HIDE DEF k
  <2>8. job'[w] = k
    BY <1>2, <2>5, <2>6, BecomesFacts DEF Becomes
  <2>9. Len(t) <= Max({cl, 0})
    <3>1. Max({cl, 0}) = IF cl >= 0 THEN cl ELSE 0
      BY SMTT(30), MaxOfTwo
    <3>2. n + c <= cl
      BY <1>10, <2>1
    <3> QED BY <2>4, <3>1, <3>2
  <2>10. d = was /\ was # <<>> => FromFile(k, from)
    <3> SUFFICES ASSUME d = was, was # <<>>, NEW i \in 1 .. Len(t)
                 PROVE  from + i <= Len(was) /\ t[i] = was[from + i]
      BY <1>7, <2>7 DEF FromFile
    <3>1. CASE i <= n
      <4>1. i \in 1 .. n
        BY <2>4, <3>1
      <4>2. from + i <= Len(was) /\ s[i] = was[from + i]
        BY <1>6, <1>7, <1>8, <1>10, <4>1 DEF FromFile
      <4> QED BY <2>4, <4>1, <4>2
    <3>2. CASE i > n
      <4>1. i \in n + 1 .. n + c /\ i - n \in 1 .. Len(b) /\ off + (i - n) = from + i
        BY <1>10, <2>1, <2>4, <3>2
      <4>2. off + (i - n) <= Len(d) /\ b[i - n] = d[off + (i - n)]
        BY <1>13, <4>1
      <4> QED BY <2>4, <4>1, <4>2
    <3> QED BY SMTT(30), <2>4, <3>1, <3>2
  <2>11. l + Len(t) = cl /\ o = from + Len(t)
    <3>1. left + n = cl /\ off = from + n
      BY <1>10
    <3>2. Len(t) = n + c
      BY <2>4
    <3> QED BY SMTT(30), <2>2, <2>3, <3>1, <3>2
  <2>12. Sending(w)'
    <3>1. Same(w)' <=> Same(w)
      BY <1>11, <2>7, <2>8 DEF Same, Inode
    <3>2. Same(w) => d = was /\ was # <<>>
      BY <1>7 DEF Same
    <3>3. k.ino \in 1 .. Len(disk')
      BY <1>10, <1>11, <2>7 DEF Inode
    <3> QED BY <1>5, <1>9, <1>10, <1>11, <2>7, <2>8, <2>9, <2>10, <2>11, <3>1, <3>2, <3>3
            DEF Sending, Inode
  <2>13. SentInv(w)'
    BY <1>5, <2>7, <2>8, <2>9, <2>12 DEF SentInv
  <2> QED BY <1>1, <2>5, <2>6, <2>7, <2>13, SentMore
<1> QED BY <1>14, <1>15, <1>16

-----------------------------------------------------------------------------
(* Server-side includes *)

\* send_ssi_file goes on with another stack of open files.
LEMMA SsiMore ==
  ASSUME IInv, NEW w \in Worker, NEW k \in Job, job' = [job EXCEPT ![w] = k], Quiet,
         job[w].pc \in {"openSsi", "ssi"}, k.pc \in {"ssi", "end"},
         /\ k.path = job[w].path /\ k.file = job[w].file /\ k.was = job[w].was
         /\ k.ino = job[w].ino /\ k.pend = job[w].pend /\ k.consumed = job[w].consumed
         /\ k.lost = job[w].lost /\ k.shared = job[w].shared,
         \E c \in {200, 206} : k.replies = <<c>>,
         Frames(k.stack), k.pc = "ssi" => k.stack # <<>>, k.pc = "end" => k.stack = <<>>
  PROVE  IInv'
<1>1. /\ TypeInv /\ PlaceInv(w) /\ StoreInv(w) /\ req[w] \in Request[w]
      /\ AllPast(job[w].was)
  BY DEF IInv, WorkerInv, TypeInv, PastInv
<1>2. job'[w] = k /\ req' = req /\ disk' = disk
  BY <1>1, BecomesFacts DEF Becomes, Quiet, Files, World
<1>3. /\ k.pc \notin Writing /\ k.pc \notin Early /\ k.pc \notin Putting
      /\ k.pc \notin {"openSsi", "forward", "body", "close", "open", "idle", "send"}
      /\ job[w].pc \notin Writing \cup {"end"} /\ job[w].pc # "idle"
  BY DEF Writing, Early, Putting
<1>4. 304 \notin ToSet(k.replies)
  BY DEF ToSet
<1>5. k.pend = <<>> /\ k.consumed = 0 /\ ~k.lost /\ ~k.shared /\ k.ino = 0
      /\ k.path \in Config.ssi /\ Len(<<>>) = 0
  BY <1>1, <1>3, EmptySeq DEF PlaceInv
<1>6. PlaceInv(w)'
  BY <1>1, <1>2, <1>3, <1>4, <1>5 DEF PlaceInv
<1>7. SentInv(w)'
  BY <1>2, <1>3, <1>5 DEF SentInv
<1>8. StoreInv(w)'
  BY <1>1, <1>2, <1>3, <1>5, IdleStore
<1>9. StackInv(w)'
  BY <1>2 DEF StackInv, Frames, Inode
<1>12. OnDisk(w)'
  BY <1>2, <1>5 DEF OnDisk, NoneOrInode
<1>10. WorkerInv(w)'
  BY <1>6, <1>7, <1>8, <1>9, <1>12 DEF WorkerInv
<1>11. Done(w) <= k.consumed - Len(k.pend)
  <2>1. job[w].consumed = 0 /\ job[w].pend = <<>>
    BY <1>5
  <2> QED BY <1>5, <2>1 DEF Done, Stored
<1> QED BY ZenonT(60), <1>1, <1>3, <1>10, <1>11, QuietInv

LEMMA OpenSsiInv ==
  ASSUME IInv, NEW w \in Worker, OpenSsi(w)
  PROVE  IInv'
<1> DEFINE p == job[w].path
<1>1. job[w].pc = "openSsi" /\ Quiet
  BY Zenon DEF OpenSsi, At, Quiet
<1>2. job[w].pc \in Early \ {"idle"}
  BY <1>1 DEF Early
<1>3. job[w] \in Job /\ job \in [Worker -> Job] /\ EarlyJob(w, job[w])
  BY <1>2, IsEarly, JobFacts DEF IInv, TypeInv
<1>4. CASE ~IsFile(p)
  <2>1. PICK st \in Nat : st # 304 /\ st = IF IsDir(p) THEN 200 ELSE 500
    <3>1. CASE IsDir(p)
      BY <3>1
    <3>2. CASE ~IsDir(p)
      BY <3>2
    <3> QED BY <3>1, <3>2
  <2>2. Answer(w, st)
    BY <1>4, <2>1 DEF OpenSsi
  <2> QED BY <1>1, <1>2, <2>1, <2>2, AnswerInv
<1>5. CASE IsFile(p)
  <2>1. p \in Path
    BY <1>3, <1>5, JobFields DEF IsFile
  <2>2. PICK ino \in Nat : ino = fs[p].ino /\ Inode(ino)
    BY <1>5, <2>1, FsFacts DEF IsFile, Inode
  <2>3. PICK f \in FrameType : f = Frame(ino, 0, TRUE)
    BY DEF Frame, FrameType
  <2>4. f.ino = ino /\ f.level = 0 /\ f.ssi
    BY <2>3 DEF Frame
  <2>5. PICK t \in Seq(FrameType) : t = <<f>> /\ t # <<>> /\ Len(t) = 1 /\ t[1] = f
    <3>1. <<f>> \in Seq(FrameType) /\ <<f>> # <<>> /\ Len(<<f>>) = 1 /\ <<f>>[1] = f
      OBVIOUS
    <3> QED BY <3>1
  <2>6. PICK c \in Seq(Nat) : c = <<200>> /\ c = Append(job[w].replies, 200)
    <3>1. job[w].replies = <<>> /\ Append(<<>>, 200) = <<200>> /\ <<200>> \in Seq(Nat)
      BY <1>2, <1>3 DEF EarlyJob
    <3> QED BY <3>1
  <2> DEFINE k == [job[w] EXCEPT !.pc = "ssi", !.replies = c, !.stack = t]
  <2>7. job' = [job EXCEPT ![w] = k]
    <3>1. job' = [job EXCEPT ![w].pc = "ssi", ![w].replies = Append(@, 200),
                             ![w].stack = t]
      BY <1>5, <2>2, <2>3, <2>5 DEF OpenSsi
    <3> HIDE DEF Job
    <3> QED BY ZenonT(60), <1>3, <2>6, <3>1
  <2>8. k \in Job
    BY <1>3 DEF Job, Place
  <2>9. /\ k.pc = "ssi" /\ k.path = job[w].path /\ k.file = job[w].file /\ k.was = job[w].was
        /\ k.ino = job[w].ino /\ k.pend = job[w].pend /\ k.consumed = job[w].consumed
        /\ k.lost = job[w].lost /\ k.shared = job[w].shared
        /\ k.replies = c /\ k.stack = t
    BY <1>3 DEF Job
  <2>10. Frames(t)
    <3> SUFFICES ASSUME NEW i \in 1 .. 1
                 PROVE  /\ Inode(t[i].ino) /\ t[i].level <= MaxLevel
                        /\ t[i].ssi /\ t[i].level = i - 1
      BY <2>5 DEF Frames
    <3>1. MaxLevel \in Nat /\ i = 1
      BY Bounds
    <3> QED BY <2>2, <2>4, <2>5, <3>1
  <2>11. \E st \in {200, 206} : k.replies = <<st>>
    BY <2>6, <2>9
  <2>12. /\ Frames(k.stack) /\ k.stack # <<>> /\ k.pc \in {"ssi", "end"} /\ k.pc # "end"
         /\ job[w].pc \in {"openSsi", "ssi"}
    BY <1>1, <2>5, <2>9, <2>10
  <2> HIDE DEF k
  <2> QED BY <1>1, <2>7, <2>8, <2>9, <2>11, <2>12, SsiMore
<1> QED BY <1>4, <1>5

\* A stack of open files taken apart.
LEMMA FramesFacts ==
  ASSUME NEW st \in Seq(FrameType), st # <<>>, Frames(st)
  PROVE  /\ Front(st) \in Seq(FrameType) /\ Len(Front(st)) = Len(st) - 1 /\ Len(st) \in Nat \ {0}
         /\ Last(st) \in FrameType /\ Inode(Last(st).ino) /\ Last(st).level <= MaxLevel
         /\ IF Last(st).ssi THEN Last(st).level = Len(st) - 1
                            ELSE Last(st).level = Len(st) - 2
         /\ \A i \in 1 .. Len(st) - 1 :
              /\ Front(st)[i].ssi /\ Front(st)[i].level = i - 1 /\ Front(st)[i].level <= MaxLevel
              /\ Inode(Front(st)[i].ino)
<1>1. Len(st) \in Nat \ {0} /\ \A i \in 1 .. Len(st) : st[i] \in FrameType
  BY EmptySeq, LenProperties, ElementOfSeq
<1>2. /\ Front(st) \in Seq(FrameType) /\ Len(Front(st)) = Len(st) - 1
      /\ \A i \in 1 .. Len(st) - 1 : Front(st)[i] = st[i]
  <2>1. Len(st) - 1 \in 0 .. Len(st)
    BY <1>1
  <2> QED BY ZenonT(60), <2>1, CutFacts DEF Front
<1>3. Last(st) = st[Len(st)] /\ Len(st) \in 1 .. Len(st)
  BY <1>1 DEF Last
<1>4. \A i \in 1 .. Len(st) - 1 : st[i].ssi /\ st[i].level = i - 1
  <2> SUFFICES ASSUME NEW i \in 1 .. Len(st) - 1 PROVE st[i].ssi /\ st[i].level = i - 1
    OBVIOUS
  <2>1. i \in 1 .. Len(st) /\ i # Len(st)
    BY <1>1
  <2> QED BY <2>1 DEF Frames
<1>5. \A i \in 1 .. Len(st) - 1 : st[i].level <= MaxLevel /\ Inode(st[i].ino)
  BY <1>1 DEF Frames
<1>6. /\ Inode(st[Len(st)].ino) /\ st[Len(st)].level <= MaxLevel
      /\ IF st[Len(st)].ssi THEN st[Len(st)].level = Len(st) - 1
                            ELSE st[Len(st)].level = Len(st) - 2
  BY <1>3 DEF Frames
<1> QED BY <1>1, <1>2, <1>3, <1>4, <1>5, <1>6

\* An SSI file, or what it includes, put on top of SSI files.
LEMMA PushFrame ==
  ASSUME NEW s \in Seq(FrameType), Frames(s), \A i \in 1 .. Len(s) : s[i].ssi,
         NEW g \in FrameType, Inode(g.ino), g.level <= MaxLevel,
         IF g.ssi THEN g.level = Len(s) ELSE g.level = Len(s) - 1
  PROVE  LET u == s \o <<g>> IN
         /\ u \in Seq(FrameType) /\ u # <<>> /\ Frames(u) /\ Len(u) = Len(s) + 1
         /\ g.ssi => \A i \in 1 .. Len(u) : u[i].ssi
<1>1. PICK n \in Nat : n = Len(s)
  BY LenProperties
<1>2. PICK u \in Seq(FrameType) :
        /\ u = s \o <<g>> /\ Len(u) = n + 1 /\ u[n + 1] = g
        /\ \A i \in 1 .. n : u[i] = s[i]
  <2>1. <<g>> \in Seq(FrameType) /\ Len(<<g>>) = 1 /\ <<g>>[1] = g
    OBVIOUS
  <2>2. /\ s \o <<g>> \in Seq(FrameType) /\ Len(s \o <<g>>) = Len(s) + Len(<<g>>)
        /\ \A i \in 1 .. Len(s) + Len(<<g>>) :
             (s \o <<g>>)[i] = IF i <= Len(s) THEN s[i] ELSE <<g>>[i - Len(s)]
    BY <2>1, ConcatProperties
  <2>3. Len(s \o <<g>>) = n + 1
    BY <1>1, <2>1, <2>2
  <2>4. (s \o <<g>>)[n + 1] = g
    <3>1. n + 1 \in 1 .. Len(s) + Len(<<g>>) /\ ~(n + 1 <= Len(s)) /\ (n + 1) - Len(s) = 1
      BY <1>1, <2>1
    <3> QED BY <2>1, <2>2, <3>1
  <2>5. \A i \in 1 .. n : (s \o <<g>>)[i] = s[i]
    BY <1>1, <2>1, <2>2
  <2> QED BY <2>2, <2>3, <2>4, <2>5
<1>3. u # <<>>
  BY <1>1, <1>2, EmptySeq
<1>4. Frames(u)
  <2> SUFFICES ASSUME NEW i \in 1 .. n + 1
               PROVE  /\ Inode(u[i].ino) /\ u[i].level <= MaxLevel
                      /\ IF u[i].ssi THEN u[i].level = i - 1
                                     ELSE i = n + 1 /\ u[i].level = i - 2
    BY <1>2 DEF Frames
  <2>1. CASE i = n + 1
    <3>1. i - 1 = n /\ i - 2 = n - 1
      BY <2>1
    <3> QED BY <1>1, <1>2, <2>1, <3>1
  <2>2. CASE i # n + 1
    <3>1. i \in 1 .. n
      BY <2>2
    <3>2. s[i].ssi /\ Inode(s[i].ino) /\ s[i].level <= MaxLevel /\ s[i].level = i - 1
      BY <1>1, <3>1 DEF Frames
    <3> QED BY <1>2, <3>1, <3>2
  <2> QED BY <2>1, <2>2
<1>5. ASSUME g.ssi, NEW i \in 1 .. n + 1 PROVE u[i].ssi
  <2>1. CASE i = n + 1
    BY <1>2, <1>5, <2>1
  <2>2. CASE i # n + 1
    <3>1. i \in 1 .. n
      BY <2>2
    <3> QED BY <1>1, <1>2, <3>1
  <2> QED BY <2>1, <2>2
<1> QED BY <1>1, <1>2, <1>3, <1>4, <1>5

\* What an SSI file includes.
LEMMA IncludedFacts ==
  ASSUME IInv, NEW k, NEW level \in Nat, level <= MaxLevel
  PROVE  \/ Included(k, level) = <<>>
         \/ \E g \in FrameType :
              /\ Included(k, level) = <<g>> /\ Inode(g.ino) /\ g.level <= MaxLevel
              /\ g.level = IF g.ssi THEN level + 1 ELSE level
<1> DEFINE p == Config.includes[k]
<1>1. CASE k \notin DOMAIN Config.includes \/ ~IsFile(p)
  BY <1>1 DEF Included
<1>2. CASE k \in DOMAIN Config.includes /\ IsFile(p)
  <2>1. p \in Path
    BY <1>2, ConfigFacts
  <2> HIDE DEF p
  <2>2. PICK ino \in Nat : ino = fs[p].ino /\ Inode(ino)
    BY <1>2, <2>1, FsFacts DEF IsFile, Inode
  <2>3. MaxLevel \in Nat
    BY Bounds
  <2>4. CASE p \notin Config.ssi
    <3> DEFINE g == Frame(ino, level, FALSE)
    <3>1. g \in FrameType /\ g.ino = ino /\ g.level = level /\ g.ssi = FALSE
      BY DEF Frame, FrameType
    <3>2. Included(k, level) = <<g>>
      BY <1>2, <2>2, <2>4 DEF Included, p
    <3> HIDE DEF g
    <3> QED BY <2>2, <3>1, <3>2
  <2>5. CASE p \in Config.ssi /\ level + 1 > MaxLevel
    BY <1>2, <2>5 DEF Included, p
  <2>6. CASE p \in Config.ssi /\ ~(level + 1 > MaxLevel)
    <3> DEFINE g == Frame(ino, level + 1, TRUE)
    <3>1. g \in FrameType /\ g.ino = ino /\ g.level = level + 1 /\ g.ssi = TRUE
      BY DEF Frame, FrameType
    <3>2. Included(k, level) = <<g>>
      BY <1>2, <2>2, <2>6 DEF Included, p
    <3>3. level + 1 <= MaxLevel
      BY <2>3, <2>6
    <3> HIDE DEF g
    <3> QED BY <2>2, <3>1, <3>2, <3>3
  <2> QED BY <2>4, <2>5, <2>6
<1> QED BY <1>1, <1>2

LEMMA SsiInv ==
  ASSUME IInv, NEW w \in Worker, Ssi(w)
  PROVE  IInv'
<1>1. job[w].pc = "ssi" /\ Quiet
  BY Zenon DEF Ssi, At, Quiet
<1>2. TypeInv /\ job[w] \in Job /\ job \in [Worker -> Job]
  BY JobFacts DEF IInv, TypeInv
<1>3. PICK st \in Seq(FrameType) : st = job[w].stack /\ st # <<>> /\ Frames(st)
  <2>1. StackInv(w)
    BY DEF IInv, WorkerInv
  <2> QED BY <1>1, <1>2, <2>1, JobFields DEF StackInv
<1>4. PICK n \in Nat : n = Len(st) /\ n > 0
  BY <1>3, FramesFacts
<1>5. PICK front \in Seq(FrameType) :
        /\ front = Front(st) /\ Len(front) = n - 1
        /\ \A i \in 1 .. n - 1 :
             /\ front[i].ssi /\ front[i].level = i - 1 /\ front[i].level <= MaxLevel
             /\ Inode(front[i].ino)
  BY <1>3, <1>4, FramesFacts
<1>6. PICK f \in FrameType :
        /\ f = Last(st) /\ Inode(f.ino) /\ f.level <= MaxLevel
        /\ IF f.ssi THEN f.level = n - 1 ELSE f.level = n - 2
  BY <1>3, <1>4, FramesFacts
<1>7. f.ino \in Nat /\ f.off \in Nat /\ f.level \in Nat /\ f.ssi \in BOOLEAN
  BY DEF FrameType
<1>8. PICK b \in Seq(CellType) : b = ReadAt(f.ino, f.off, 1)
  <2>1. 1 \in Nat
    OBVIOUS
  <2>2. ReadAt(f.ino, f.off, 1) \in Seq(CellType)
    BY <1>6, <1>7, <2>1, ReadFacts
  <2> QED BY <2>2
<1>9. PICK next \in FrameType :
        /\ next = [f EXCEPT !.off = @ + 1]
        /\ next.ino = f.ino /\ next.level = f.level /\ next.ssi = f.ssi
  <2>1. [f EXCEPT !.off = @ + 1] \in FrameType
    <3>1. PICK o \in Nat : o = f.off + 1
      BY <1>7
    <3>2. [f EXCEPT !.off = o] \in FrameType
      BY DEF FrameType
    <3> QED BY <3>1, <3>2
  <2>2. /\ [f EXCEPT !.off = @ + 1].ino = f.ino /\ [f EXCEPT !.off = @ + 1].level = f.level
        /\ [f EXCEPT !.off = @ + 1].ssi = f.ssi
    BY DEF FrameType
  <2> QED BY <2>1, <2>2
<1>10. Frames(front) /\ \A i \in 1 .. Len(front) : front[i].ssi
  BY <1>4, <1>5 DEF Frames
<1>11. PICK top \in Seq(FrameType) :
         /\ top = front \o <<next>> /\ top # <<>> /\ Frames(top) /\ Len(top) = n
         /\ f.ssi => \A i \in 1 .. Len(top) : top[i].ssi
  <2>1. IF next.ssi THEN next.level = Len(front) ELSE next.level = Len(front) - 1
    BY <1>4, <1>5, <1>6, <1>9
  <2>2. Inode(next.ino) /\ next.level <= MaxLevel
    BY <1>6, <1>9
  <2>3. /\ front \o <<next>> \in Seq(FrameType) /\ front \o <<next>> # <<>>
        /\ Frames(front \o <<next>>) /\ Len(front \o <<next>>) = Len(front) + 1
        /\ next.ssi => \A i \in 1 .. Len(front \o <<next>>) : (front \o <<next>>)[i].ssi
    BY <1>10, <2>1, <2>2, PushFrame, Zenon
  <2>4. Len(front) + 1 = n
    BY <1>4, <1>5
  <2> QED BY <1>9, <2>3, <2>4
<1>12. PlaceInv(w) /\ job[w].pend = job[w].pend
  BY DEF IInv, WorkerInv
<1>13. \E c \in {200, 206} : job[w].replies = <<c>>
  BY <1>1, <1>12 DEF PlaceInv
\* What the step makes of the stack, the place and what has been sent.
<1> DEFINE K(l, t, s) == [job[w] EXCEPT !.pc = l, !.stack = t, !.sent = s]
<1>14. ASSUME NEW l \in {"ssi", "end"}, NEW t \in Seq(FrameType), NEW s \in Seq(CellType),
              job' = [job EXCEPT ![w] = K(l, t, s)],
              Frames(t), l = "ssi" => t # <<>>, l = "end" => t = <<>>
       PROVE  IInv'
  <2> DEFINE k == K(l, t, s)
  <2>1. k \in Job
    BY <1>2 DEF Job, Place
  <2>2. /\ k.pc = l /\ k.path = job[w].path /\ k.file = job[w].file /\ k.was = job[w].was
        /\ k.ino = job[w].ino /\ k.pend = job[w].pend /\ k.consumed = job[w].consumed
        /\ k.lost = job[w].lost /\ k.shared = job[w].shared
        /\ k.replies = job[w].replies /\ k.stack = t
    BY <1>2 DEF Job
  <2>3. job' = [job EXCEPT ![w] = k]
    BY <1>14
  <2> HIDE DEF k
  <2>4. \E c \in {200, 206} : k.replies = <<c>>
    BY <1>13, <2>2
  <2>5. /\ Frames(k.stack) /\ k.pc \in {"ssi", "end"}
        /\ (k.pc = "ssi" => k.stack # <<>>) /\ (k.pc = "end" => k.stack = <<>>)
        /\ job[w].pc \in {"openSsi", "ssi"}
    BY <1>1, <1>14, <2>2
  <2> QED BY <1>1, <2>1, <2>2, <2>3, <2>4, <2>5, SsiMore
<1>15. PICK s0 \in Seq(CellType) : s0 = job[w].sent
  BY <1>2, JobFields
<1>16. CASE b = <<>>
  <2>1. PICK l \in {"ssi", "end"} : l = IF n = 1 THEN "end" ELSE "ssi"
    BY SMTT(30)
  <2>2. job' = [job EXCEPT ![w].stack = front, ![w].pc = l]
    BY Zenon, <1>1, <1>3, <1>4, <1>5, <1>6, <1>8, <1>16, <2>1 DEF Ssi
  <2>3. [job[w] EXCEPT !.stack = front, !.pc = l] = K(l, front, s0)
    BY <1>2, <1>15 DEF Job
  <2>4. job' = [job EXCEPT ![w] = K(l, front, s0)]
    <3> HIDE DEF Job, K
    <3> QED BY <1>2, <2>2, <2>3
  <2>5. (l = "ssi" => front # <<>>) /\ (l = "end" => front = <<>>)
    <3>1. CASE n = 1
      BY <1>5, <2>1, <3>1, EmptySeq
    <3>2. CASE n # 1
      <4>1. Len(front) > 0
        BY <1>4, <1>5, <3>2
      <4> QED BY <2>1, <3>2, <4>1, EmptySeq
    <3> QED BY <3>1, <3>2
  <2> QED BY Zenon, <1>10, <1>14, <2>4, <2>5
<1>17. CASE b # <<>> /\ f.ssi /\ b[1].by = "include"
  <2>1. job' = [job EXCEPT ![w].stack = front \o <<next>> \o Included(b[1].k, f.level)]
    BY <1>3, <1>5, <1>6, <1>8, <1>9, <1>17, Zenon DEF Ssi
  <2>2. PICK t \in Seq(FrameType) :
          t = front \o <<next>> \o Included(b[1].k, f.level) /\ t # <<>> /\ Frames(t)
    <3>1. CASE Included(b[1].k, f.level) = <<>>
      <4>1. top \o <<>> = top
        BY ConcatEmptySeq
      <4> QED BY <1>11, <3>1, <4>1
    <3>2. CASE \E g \in FrameType :
                 /\ Included(b[1].k, f.level) = <<g>> /\ Inode(g.ino) /\ g.level <= MaxLevel
                 /\ g.level = IF g.ssi THEN f.level + 1 ELSE f.level
      <4>1. PICK g \in FrameType :
              /\ Included(b[1].k, f.level) = <<g>> /\ Inode(g.ino) /\ g.level <= MaxLevel
              /\ g.level = IF g.ssi THEN f.level + 1 ELSE f.level
        BY <3>2
      <4>2. IF g.ssi THEN g.level = Len(top) ELSE g.level = Len(top) - 1
        BY <1>4, <1>6, <1>7, <1>11, <1>17, <4>1
      <4>3. /\ top \o <<g>> \in Seq(FrameType) /\ top \o <<g>> # <<>> /\ Frames(top \o <<g>>)
        BY <1>11, <1>17, <4>1, <4>2, PushFrame
      <4> QED BY <1>11, <4>1, <4>3
    <3> QED BY ZenonT(60), <1>6, <1>7, <3>1, <3>2, IncludedFacts
  <2>3. [job[w] EXCEPT !.stack = t] = K("ssi", t, s0)
    BY <1>1, <1>2, <1>15 DEF Job
  <2>4. job' = [job EXCEPT ![w] = K("ssi", t, s0)]
    <3> HIDE DEF Job, K
    <3> QED BY <1>2, <2>1, <2>2, <2>3
  <2> QED BY Zenon, <1>14, <2>2, <2>4
<1>18. CASE b # <<>> /\ ~(f.ssi /\ b[1].by = "include")
  <2>1. PICK s1 \in Seq(CellType) : s1 = IF w \in gone THEN s0 ELSE s0 \o b
    <3>1. s0 \o b \in Seq(CellType)
      BY ConcatProperties
    <3> QED BY Zenon, <3>1
  <2>2. job' = [job EXCEPT ![w].stack = Append(front, next), ![w].sent = s1]
    BY Zenon, <1>3, <1>5, <1>6, <1>8, <1>9, <1>15, <1>18, <2>1 DEF Ssi
  <2>3. Append(front, next) = top
    BY <1>11
  <2>4. [job[w] EXCEPT !.stack = top, !.sent = s1] = K("ssi", top, s1)
    BY <1>1, <1>2 DEF Job
  <2>5. job' = [job EXCEPT ![w] = K("ssi", top, s1)]
    <3> HIDE DEF Job, K
    <3> QED BY <1>2, <2>2, <2>3, <2>4
  <2> QED BY Zenon, <1>11, <1>14, <2>5
<1> QED BY <1>16, <1>17, <1>18

-----------------------------------------------------------------------------
(* PUT and DELETE, before the file is opened *)

\* A path made a directory, or removed.
LEMMA NotFile ==
  ASSUME IInv, NEW p, NEW kind \in {"none", "dir"}, fs' = [fs EXCEPT ![p] = [kind |-> kind, ino |-> 0]],
         UNCHANGED <<disk, World>>
  PROVE  Calm
<1>1. fs \in [Path -> FileType] /\ FsInv
  BY DEF IInv, TypeInv
<1>2. [kind |-> kind, ino |-> 0] \in FileType
  BY DEF FileType
<1>3. fs' \in [Path -> FileType]
  BY <1>1, <1>2
<1>4. FsInv'
  <2> SUFFICES ASSUME NEW q \in Path
               PROVE  IF fs'[q].kind = "file" THEN fs'[q].ino \in 1 .. Len(disk')
                                              ELSE fs'[q].ino = 0
    BY DEF FsInv
  <2>1. disk' = disk
    OBVIOUS
  <2>2. CASE q = p
    <3>1. fs'[q] = [kind |-> kind, ino |-> 0]
      BY <1>1, <2>2
    <3> QED BY <3>1
  <2>3. CASE q # p
    <3>1. fs'[q] = fs[q]
      BY <1>1, <2>3
    <3> QED BY <1>1, <2>1, <3>1 DEF FsInv
  <2> QED BY <2>2, <2>3
<1> QED BY <1>3, <1>4 DEF Calm

\* put_dir goes on, or hands over to the opening of the file.
LEMMA PuttingInv ==
  ASSUME IInv, NEW w \in Worker, NEW k \in Job, job' = [job EXCEPT ![w] = k], Calm,
         job[w].pc \in Early, job[w].pc # "idle", req[w].method = "PUT",
         k.pc \in Putting, k.passed = "put", k.status \in {200, 201},
         /\ k.path = job[w].path /\ k.file = job[w].file /\ k.was = job[w].was
         /\ k.ino = job[w].ino /\ k.sent = job[w].sent /\ k.pend = job[w].pend
         /\ k.consumed = job[w].consumed /\ k.stack = job[w].stack
         /\ k.lost = job[w].lost /\ k.shared = job[w].shared /\ k.replies = job[w].replies
  PROVE  IInv'
<1>1. k.pc \in Early /\ k.pc \notin {"idle", "open", "openSsi"}
  BY DEF Putting, Early
<1>2. EarlyJob(w, job[w])
  BY IsEarly
<1>3. EarlyJob(w, k)
  BY <1>1, <1>2 DEF EarlyJob
<1> QED BY <1>3, EarlyCalm

LEMMA PutDirInv ==
  ASSUME IInv, NEW w \in Worker, PutDir(w)
  PROVE  IInv'
<1>1. job[w].pc = "putDir" /\ Quiet
  BY Zenon DEF PutDir, At, Quiet
<1>2. job[w].pc \in Early \ {"idle"} /\ job[w].pc \in Putting
  BY <1>1 DEF Early, Putting
<1>3. job[w] \in Job /\ job \in [Worker -> Job] /\ EarlyJob(w, job[w]) /\ Calm
  BY <1>1, <1>2, IsEarly, JobFacts, QuietIsCalm DEF IInv, TypeInv
<1>4. PICK status \in Nat : status \in {200, 201} /\ status = job[w].status /\ status # 304
  <2>1. job[w].status \in {200, 201}
    BY <1>2, <1>3 DEF EarlyJob
  <2>2. job[w].status \in Nat /\ job[w].status # 304
    BY <2>1
  <2> QED BY <2>1, <2>2
<1>5. PICK n \in Nat : n = job[w].depth
  BY <1>3, JobFields
<1>6. req[w].method = "PUT" /\ job[w].passed = "put" /\ job[w].status \in {200, 201}
  BY <1>2, <1>3 DEF EarlyJob
<1>7. ASSUME NEW l \in Putting, NEW m \in Nat,
             job' = [job EXCEPT ![w].pc = l, ![w].depth = m]
      PROVE  IInv'
  <2> DEFINE k == [job[w] EXCEPT !.pc = l, !.depth = m]
  <2>1. l \in Place
    BY DEF Putting, Place
  <2>2. k \in Job
    BY <1>3, <2>1 DEF Job
  <2>3. /\ k.pc = l /\ k.passed = job[w].passed /\ k.status = job[w].status
        /\ k.path = job[w].path /\ k.file = job[w].file /\ k.was = job[w].was
        /\ k.ino = job[w].ino /\ k.sent = job[w].sent /\ k.pend = job[w].pend
        /\ k.consumed = job[w].consumed /\ k.stack = job[w].stack
        /\ k.lost = job[w].lost /\ k.shared = job[w].shared /\ k.replies = job[w].replies
    BY <1>3 DEF Job
  <2>4. job' = [job EXCEPT ![w] = k]
    <3> HIDE DEF Job
    <3> QED BY <1>3, <1>7
  <2> HIDE DEF k
  <2>5. k.pc \in Putting /\ k.passed = "put" /\ k.status \in {200, 201}
    BY <1>6, <2>3
  <2> QED BY <1>2, <1>3, <1>6, <2>2, <2>3, <2>4, <2>5, PuttingInv
<1>8. "putDir" \in Putting /\ "mkdir" \in Putting /\ "putOpen" \in Putting /\ n + 1 \in Nat
  BY DEF Putting
<1>9. \/ Answer(w, status)
      \/ Goto(w, "putOpen")
      \/ job' = [job EXCEPT ![w].pc = "putDir", ![w].depth = n + 1]
      \/ job' = [job EXCEPT ![w].pc = "mkdir", ![w].depth = n]
  <2> DEFINE e == Exists(SubSeq(job[w].path, 1, job[w].depth))
  <2>1. \/ Answer(w, status)
        \/ Goto(w, "putOpen")
        \/ job' = [job EXCEPT ![w].pc = IF e THEN @ ELSE "mkdir",
                              ![w].depth = IF e THEN @ + 1 ELSE @]
    BY <1>4 DEF PutDir
  <2> HIDE DEF e
  <2>2. CASE e
    BY <1>1, <1>5, <2>1, <2>2
  <2>3. CASE ~e
    BY <1>1, <1>5, <2>1, <2>3
  <2> QED BY <2>2, <2>3
<1>10. CASE Answer(w, status)
  BY <1>1, <1>2, <1>4, <1>10, AnswerInv
<1>11. CASE Goto(w, "putOpen")
  <2>1. [job[w] EXCEPT !.pc = "putOpen"] = [job[w] EXCEPT !.pc = "putOpen", !.depth = n]
    BY <1>3, <1>5 DEF Job
  <2>2. job' = [job EXCEPT ![w].pc = "putOpen", ![w].depth = n]
    <3> HIDE DEF Job
    <3> QED BY <1>3, <1>11, <2>1 DEF Goto
  <2> QED BY <1>7, <1>8, <2>2
<1> QED BY <1>7, <1>8, <1>9, <1>10, <1>11

LEMMA MkDirInv ==
  ASSUME IInv, NEW w \in Worker, MkDir(w)
  PROVE  IInv'
<1> DEFINE q == SubSeq(job[w].path, 1, job[w].depth)
<1>1. job[w].pc = "mkdir" /\ UNCHANGED <<disk, World>>
  BY Zenon DEF MkDir, At
<1>2. job[w].pc \in Early \ {"idle"} /\ job[w].pc \in Putting
  BY <1>1 DEF Early, Putting
<1>3. job[w] \in Job /\ job \in [Worker -> Job] /\ EarlyJob(w, job[w])
  BY <1>1, <1>2, IsEarly, JobFacts DEF IInv, TypeInv
<1>4. CASE Answer(w, 500) /\ UNCHANGED fs
  <2>1. Quiet
    BY <1>1, <1>4 DEF Quiet, Files
  <2> QED BY <1>2, <1>4, <2>1, AnswerInv
<1>5. CASE /\ fs' = [fs EXCEPT ![q] = [kind |-> "dir", ino |-> 0]]
           /\ job' = [job EXCEPT ![w].pc = "putDir", ![w].depth = @ + 1]
  <2>1. Calm
    <3> HIDE DEF q
    <3> QED BY <1>1, <1>5, NotFile
  <2>2. PICK n \in Nat : n = job[w].depth + 1
    <3>1. job[w].depth \in Nat
      BY <1>3, JobFields
    <3> QED BY <3>1
  <2> DEFINE k == [job[w] EXCEPT !.pc = "putDir", !.depth = n]
  <2>3. k \in Job
    BY <1>3 DEF Job, Place
  <2>4. /\ k.pc = "putDir" /\ k.passed = job[w].passed /\ k.status = job[w].status
        /\ k.path = job[w].path /\ k.file = job[w].file /\ k.was = job[w].was
        /\ k.ino = job[w].ino /\ k.sent = job[w].sent /\ k.pend = job[w].pend
        /\ k.consumed = job[w].consumed /\ k.stack = job[w].stack
        /\ k.lost = job[w].lost /\ k.shared = job[w].shared /\ k.replies = job[w].replies
    BY <1>3 DEF Job
  <2>5. job' = [job EXCEPT ![w] = k]
    <3> HIDE DEF Job
    <3> QED BY <1>3, <1>5, <2>2
  <2> HIDE DEF k
  <2>6. /\ k.pc \in Putting /\ k.passed = "put" /\ k.status \in {200, 201}
        /\ req[w].method = "PUT"
    BY <1>2, <1>3, <2>4 DEF EarlyJob, Putting
  <2> QED BY <1>2, <2>1, <2>3, <2>4, <2>5, <2>6, PuttingInv
<1> QED BY <1>4, <1>5 DEF MkDir

LEMMA DeleteInv ==
  ASSUME IInv, NEW w \in Worker, Delete(w), UNCHANGED World, job[w].pc = "dispatch"
  PROVE  IInv'
<1> DEFINE p == job[w].path
<1>1. job[w].pc \in Early \ {"idle"} /\ job[w].pc \in Early
  BY DEF Early
<1>2. job[w] \in Job /\ job \in [Worker -> Job] /\ EarlyJob(w, job[w])
  BY <1>1, IsEarly, JobFacts DEF IInv, TypeInv
<1>3. CASE Removable(p) /\ Reached(w)
  <2>1. /\ job' = [job EXCEPT ![w].pc = "end", ![w].passed = "put", ![w].replies = Append(@, 200)]
        /\ fs' = [fs EXCEPT ![p] = [kind |-> "none", ino |-> 0]] /\ disk' = disk
    BY <1>3 DEF Delete
  <2>2. Calm
    <3> HIDE DEF p
    <3> QED BY <2>1, NotFile
  <2>3. PICK c \in Seq(Nat) : c = <<200>> /\ c = Append(job[w].replies, 200)
    <3>1. job[w].replies = <<>> /\ Append(<<>>, 200) = <<200>> /\ <<200>> \in Seq(Nat)
      BY <1>1, <1>2 DEF EarlyJob
    <3> QED BY <3>1
  <2> DEFINE k == [job[w] EXCEPT !.pc = "end", !.passed = "put", !.replies = c]
  <2>4. job' = [job EXCEPT ![w] = k]
    <3> HIDE DEF Job
    <3> QED BY <1>2, <2>1, <2>3
  <2>5. k \in Job
    BY <1>2 DEF Job, Place
  <2>6. /\ k.pc = "end" /\ k.replies = c /\ k.ino = job[w].ino /\ k.sent = job[w].sent
        /\ k.pend = job[w].pend /\ k.consumed = job[w].consumed /\ k.stack = job[w].stack
        /\ k.lost = job[w].lost /\ k.shared = job[w].shared /\ k.path = job[w].path
        /\ k.file = job[w].file /\ k.was = job[w].was
    BY <1>2 DEF Job
  <2>7. 304 \notin ToSet(c)
    BY <2>3 DEF ToSet
  <2>8. "end" \notin Early /\ "end" \notin Putting
    BY DEF Early, Putting
  <2> HIDE DEF k
  <2>9. EarlyJob(w, k)
    BY <1>1, <1>2, <2>6, <2>7, <2>8 DEF EarlyJob
  <2> QED BY <1>1, <2>2, <2>4, <2>5, <2>9, EarlyCalm
<1>4. CASE ~(Removable(p) /\ Reached(w))
  <2>1. Answer(w, 500) /\ Quiet
    BY <1>4 DEF Delete, Quiet
  <2> QED BY <1>1, <2>1, AnswerInv
<1> QED BY <1>3, <1>4

LEMMA ChangeInv ==
  ASSUME IInv, NEW w \in Worker, Change(w)
  PROVE  IInv'
<1>1. job[w].pc = "dispatch" /\ UNCHANGED World /\ IsPutOrDelete(req[w])
  BY Zenon DEF Change, At
<1>2. job[w].pc \in Early \ {"idle"}
  BY <1>1 DEF Early
<1>3. job[w] \in Job /\ job \in [Worker -> Job]
  BY JobFacts DEF IInv, TypeInv
<1>4. CASE Answer(w, 401) /\ UNCHANGED Files
  <2>1. Quiet
    BY <1>1, <1>4 DEF Quiet
  <2> QED BY <1>2, <1>4, <2>1, AnswerInv
<1>5. CASE Delete(w)
  BY <1>1, <1>5, DeleteInv
<1>6. CASE /\ req[w].method # "DELETE" /\ UNCHANGED Files
           /\ job' = [job EXCEPT ![w].pc = "putDir", ![w].passed = "put",
                                 ![w].status = IF Exists(job[w].path) /\ Reached(w) THEN 200 ELSE 201]
  <2>1. Quiet
    BY <1>1, <1>6 DEF Quiet
  <2>2. Calm
    BY <2>1, QuietIsCalm
  <2>3. PICK status \in Nat :
          status \in {200, 201} /\ status = IF Exists(job[w].path) /\ Reached(w) THEN 200 ELSE 201
    <3>1. CASE Exists(job[w].path) /\ Reached(w)
      BY <3>1
    <3>2. CASE ~(Exists(job[w].path) /\ Reached(w))
      BY <3>2
    <3> QED BY <3>1, <3>2
  <2> DEFINE k == [job[w] EXCEPT !.pc = "putDir", !.passed = "put", !.status = status]
  <2>4. k \in Job
    BY <1>3 DEF Job, Place
  <2>5. /\ k.pc = "putDir" /\ k.passed = "put" /\ k.status = status
        /\ k.path = job[w].path /\ k.file = job[w].file /\ k.was = job[w].was
        /\ k.ino = job[w].ino /\ k.sent = job[w].sent /\ k.pend = job[w].pend
        /\ k.consumed = job[w].consumed /\ k.stack = job[w].stack
        /\ k.lost = job[w].lost /\ k.shared = job[w].shared /\ k.replies = job[w].replies
    BY <1>3 DEF Job
  <2>6. job' = [job EXCEPT ![w] = k]
    <3>1. job' = [job EXCEPT ![w].pc = "putDir", ![w].passed = "put", ![w].status = status]
      BY <1>6, <2>3
    <3> HIDE DEF Job
    <3> QED BY <1>3, <3>1
  <2> HIDE DEF k
  <2>7. /\ k.pc \in Putting /\ k.status \in {200, 201} /\ req[w].method = "PUT"
    BY <1>1, <1>6, <2>3, <2>5 DEF IsPutOrDelete, Putting
  <2> QED BY <1>2, <2>2, <2>4, <2>5, <2>6, <2>7, PuttingInv
<1> QED BY <1>4, <1>5, <1>6 DEF Change

-----------------------------------------------------------------------------
(* PUT, from the opening of the file to its closing *)

\* After the step, nothing of s is still to be written.
NowPast(s) == \A i \in 1 .. Len(s) : \A v \in Worker : s[i].by = v => s[i].k <= Done(v)'

\* Cells that had been written have been written.
LEMMA StillPast ==
  ASSUME TypeInv, TypeInv', \A v \in Worker : Done(v) <= Done(v)',
         NEW s \in Seq(CellType), AllPast(s)
  PROVE  NowPast(s)
<1>1. AllPast(s)'
  BY PastGrows
<1> QED BY <1>1 DEF AllPast, Past, NowPast

\* A step that changes files, and leaves most of the workers undisturbed.
LEMMA StepInv ==
  ASSUME IInv, TypeInv', FsInv', SharedInv',
         \A v \in Worker : Undisturbed(v) \/ (WorkerInv(v)' /\ job'[v].was = job[v].was),
         \A v \in Worker : Done(v) <= Done(v)',
         \A n \in 1 .. Len(disk') : NowPast(disk'[n].data)
  PROVE  IInv'
<1>1. TypeInv /\ PastInv
  BY DEF IInv
<1>2. \A v \in Worker : WorkerInv(v)'
  <2> SUFFICES ASSUME NEW v \in Worker PROVE WorkerInv(v)'
    OBVIOUS
  <2>1. CASE WorkerInv(v)'
    BY <2>1
  <2>2. CASE Undisturbed(v)
    <3>1. WorkerInv(v) /\ job[v] \in Job /\ Undisturbed(v)
      BY <1>1, <2>2, JobFacts DEF IInv
    <3> QED BY <3>1, UndisturbedInv
  <2> QED BY <2>1, <2>2
<1>3. ASSUME NEW v \in Worker PROVE NowPast(job'[v].was)
  <2>1. job[v].was \in Seq(CellType) /\ AllPast(job[v].was)
    BY <1>1, JobFacts, JobFields DEF PastInv
  <2>2. job'[v].was = job[v].was
    <3>1. CASE Undisturbed(v)
      <4>1. job[v] \in Job
        BY <1>1, JobFacts
      <4> QED BY <3>1, <4>1 DEF Undisturbed, Job
    <3> QED BY <3>1
  <2>3. NowPast(job[v].was)
    BY <1>1, <2>1, StillPast
  <2> QED BY <2>2, <2>3
<1>4. PastInv'
  BY <1>3 DEF PastInv, AllPast, Past, NowPast
<1> QED BY <1>2, <1>4 DEF IInv

LEMMA PutOpenInv ==
  ASSUME IInv, NEW w \in Worker, PutOpen(w)
  PROVE  IInv'
<1> DEFINE r == req[w]
<1> DEFINE p == job[w].path
<1>1. job[w].pc = "putOpen" /\ UNCHANGED <<now, req, editor, gone, stop>>
  BY Zenon DEF PutOpen, At, World
<1>2. job[w].pc \in Early \ {"idle"} /\ job[w].pc \in Putting /\ job[w].pc \notin Writing
  BY <1>1 DEF Early, Putting, Writing
<1>3. /\ TypeInv /\ FsInv /\ SharedInv /\ PastInv
      /\ job[w] \in Job /\ job \in [Worker -> Job] /\ EarlyJob(w, job[w]) /\ r \in Request[w]
  BY <1>2, IsEarly, JobFacts DEF IInv, TypeInv
<1>4. CASE ~IsDir(Parent(p)) \/ IsDir(p)
  <2>1. Answer(w, 500) /\ Quiet
    BY <1>4, Zenon DEF PutOpen, Quiet
  <2> QED BY <1>2, <2>1, AnswerInv
<1>5. CASE IsDir(Parent(p)) /\ ~IsDir(p)
  <2> DEFINE ino0 == IF IsFile(p) THEN fs[p].ino ELSE Len(disk) + 1
  <2>1. p \in Path /\ disk \in Seq(InodeType) /\ Len(disk) \in Nat
    <3>1. p \in Path \cup {<<>>}
      BY <1>3, JobFields
    <3> QED BY <1>3, <1>5, <3>1, LenProperties DEF IsDir, TypeInv
  <2>2. PICK ino \in Nat : ino = ino0 /\ (IsFile(p) => ino \in 1 .. Len(disk))
    <3>1. CASE IsFile(p)
      BY <2>1, <3>1, FsFacts DEF IsFile
    <3>2. CASE ~IsFile(p)
      BY <2>1, <3>2
    <3> QED BY <3>1, <3>2
  <2>3. PICK ws \in SUBSET Worker : ws = Writers(ino)
    BY DEF Writers
  <2>4. PICK off \in Nat : off = Seek(r) /\ (r.range.n = 0 => off = 0)
    <3>1. r.range.n \in 0 .. 2 /\ r.range.r1 \in Int /\ r.range.r2 \in Int /\ 0 \in Nat
          /\ (r.range.n = 0 => r.range.r1 = 0)
      BY <1>3, RequestFacts
    <3>2. Seek(r) \in Nat /\ Seek(r) = IF r.range.r1 >= 0 THEN r.range.r1 ELSE 0
      BY <3>1, LengthFacts
    <3> QED BY <3>1, <3>2
  <2>5. PICK status \in Nat : /\ status = IF r.range.n > 0 THEN 206 ELSE job[w].status
                              /\ status \in IF r.range.n > 0 THEN {206} ELSE {200, 201}
    <3>1. job[w].status \in {200, 201}
      BY <1>2, <1>3 DEF EarlyJob
    <3>2. job[w].status \in Nat
      BY <3>1
    <3>3. CASE r.range.n > 0
      BY <3>3
    <3>4. CASE ~(r.range.n > 0)
      BY <3>1, <3>2, <3>4
    <3> QED BY <3>3, <3>4
  <2>6. PICK shared \in BOOLEAN : shared = (ws # {})
    OBVIOUS
  <2> DEFINE k == [job[w] EXCEPT !.pc = "forward", !.ino = ino, !.off = off,
                                 !.status = status, !.shared = shared]
  <2> HIDE DEF ino0
  <2>7. /\ fs' = [fs EXCEPT ![p] = [kind |-> "file", ino |-> ino]]
        /\ disk' = IF IsFile(p) THEN [disk EXCEPT ![ino] = Empty] ELSE Append(disk, Empty)
        /\ job' = [v \in Worker |->
             IF v = w THEN k ELSE IF v \in ws THEN [job[v] EXCEPT !.shared = TRUE] ELSE job[v]]
    <3>1. /\ fs' = [fs EXCEPT ![p] = [kind |-> "file", ino |-> ino0]]
          /\ disk' = IF IsFile(p) THEN [disk EXCEPT ![ino0] = Empty] ELSE Append(disk, Empty)
          /\ job' = [v \in Worker |->
               IF v = w THEN [job[w] EXCEPT !.pc = "forward", !.ino = ino0, !.off = Seek(r),
                                !.status = IF r.range.n > 0 THEN 206 ELSE @,
                                !.shared = Writers(ino0) # {}]
               ELSE IF v \in Writers(ino0) THEN [job[v] EXCEPT !.shared = TRUE] ELSE job[v]]
      BY <1>5, ZenonT(60) DEF PutOpen, ino0
    <3>2. job' = [v \in Worker |->
               IF v = w THEN [job[w] EXCEPT !.pc = "forward", !.ino = ino, !.off = off,
                                !.status = status, !.shared = shared]
               ELSE IF v \in ws THEN [job[v] EXCEPT !.shared = TRUE] ELSE job[v]]
      BY ZenonT(60), <2>2, <2>3, <2>4, <2>5, <2>6, <3>1
    <3> QED BY Zenon, <2>2, <3>1, <3>2
  <2>8. k \in Job
    BY <1>3 DEF Job, Place
  <2>9. /\ k.pc = "forward" /\ k.ino = ino /\ k.off = off /\ k.status = status
        /\ k.shared = shared
        /\ k.path = p /\ k.file = job[w].file /\ k.was = job[w].was /\ k.passed = "put"
        /\ k.sent = <<>> /\ k.pend = <<>> /\ k.consumed = 0 /\ k.stack = <<>>
        /\ k.lost = FALSE /\ k.replies = <<>> /\ k.cl = job[w].cl
    <3>1. job[w].passed = "put" /\ job[w].replies = <<>>
      BY <1>2, <1>3 DEF EarlyJob
    <3> QED BY <1>3, <3>1 DEF Job, EarlyJob
  <2> HIDE DEF k
  <2>10. ASSUME NEW v \in Worker \ {w}
         PROVE  job'[v] = IF v \in ws THEN [job[v] EXCEPT !.shared = TRUE] ELSE job[v]
    BY <2>7
  <2>11. job' \in [Worker -> Job] /\ job'[w] = k
    <3>1. ASSUME NEW v \in Worker PROVE [job[v] EXCEPT !.shared = TRUE] \in Job
      <4>1. job[v] \in Job
        BY <1>3
      <4> QED BY <4>1 DEF Job
    <3> QED BY <1>3, <2>7, <2>8, <3>1
  <2>12. PICK size \in Nat :
           /\ size = Len(disk') /\ Len(disk) <= size /\ disk' \in Seq(InodeType)
           /\ ino \in 1 .. size /\ disk'[ino].data = <<>>
           /\ \A n \in 1 .. Len(disk) : n # ino => disk'[n] = disk[n]
           /\ \A n \in 1 .. size : n # ino => n \in 1 .. Len(disk)
    <3>1. Empty \in InodeType /\ Empty.data = <<>>
      <4>1. now \in 0 .. MaxTime
        BY <1>3 DEF TypeInv
      <4> QED BY <4>1 DEF Empty, InodeType
    <3> HIDE DEF p
    <3>2. CASE IsFile(p)
      <4>1. disk' = [disk EXCEPT ![ino] = Empty] /\ ino \in 1 .. Len(disk)
        BY <2>2, <2>7, <3>2
      <4>2. PICK e \in InodeType : e = Empty
        BY <3>1
      <4>3. /\ [disk EXCEPT ![ino] = e] \in Seq(InodeType)
            /\ Len([disk EXCEPT ![ino] = e]) = Len(disk)
            /\ \A j \in 1 .. Len(disk) :
                 [disk EXCEPT ![ino] = e][j] = IF j = ino THEN e ELSE disk[j]
        BY <2>1, <4>1, ExceptSeq
      <4>4. /\ disk' \in Seq(InodeType) /\ Len(disk') = Len(disk)
            /\ disk'[ino] = Empty /\ \A n \in 1 .. Len(disk) : n # ino => disk'[n] = disk[n]
        BY <4>1, <4>2, <4>3
      <4>5. ino \in 1 .. Len(disk') /\ disk'[ino].data = <<>> /\ Len(disk') \in Nat
        BY <2>1, <3>1, <4>1, <4>4
      <4> QED BY <4>4, <4>5
    <3>3. CASE ~IsFile(p)
      <4>1. disk' = Append(disk, Empty) /\ ino = Len(disk) + 1
        BY <2>2, <2>7, <3>3 DEF ino0
      <4>2. /\ disk' \in Seq(InodeType) /\ Len(disk') = Len(disk) + 1
            /\ disk'[Len(disk) + 1] = Empty
            /\ \A n \in 1 .. Len(disk) : disk'[n] = disk[n]
        BY <2>1, <3>1, <4>1, AppendProperties
      <4> QED BY <2>1, <3>1, <4>1, <4>2
    <3> QED BY <3>2, <3>3
  <2>13. TypeInv'
    <3>1. [kind |-> "file", ino |-> ino] \in FileType
      BY DEF FileType
    <3>2. fs' \in [Path -> FileType]
      BY <1>3, <2>7, <3>1 DEF TypeInv
    <3> QED BY <1>1, <1>3, <2>11, <2>12, <3>2 DEF TypeInv
  <2>14. FsInv'
    <3> SUFFICES ASSUME NEW q \in Path
                 PROVE  IF fs'[q].kind = "file" THEN fs'[q].ino \in 1 .. Len(disk')
                                                ELSE fs'[q].ino = 0
      BY DEF FsInv
    <3>1. fs \in [Path -> FileType]
      BY <1>3 DEF TypeInv
    <3> HIDE DEF p
    <3>2. CASE q = p
      <4>1. fs'[q] = [kind |-> "file", ino |-> ino]
        BY <2>7, <3>1, <3>2
      <4> QED BY <2>12, <4>1
    <3>3. CASE q # p
      <4>1. fs'[q] = fs[q]
        BY <2>7, <3>1, <3>3
      <4>2. /\ fs[q].kind = "file" => fs[q].ino \in 1 .. Len(disk)
            /\ fs[q].kind # "file" => fs[q].ino = 0
        BY FsFacts
      <4>3. 1 .. Len(disk) \subseteq 1 .. Len(disk')
        BY <2>1, <2>12
      <4> QED BY <4>1, <4>2, <4>3
    <3> QED BY <3>2, <3>3
  <2>15. ASSUME NEW v \in Worker
         PROVE  v \in ws <=> job[v].ino = ino /\ job[v].pc \in Writing
    BY <2>3 DEF Writers, Writing
  <2>16. ASSUME NEW v \in Worker \ {w} PROVE Undisturbed(v)
    <3> DEFINE j == job[v]
    <3>1. j \in Job
      BY <1>3
    <3>2. job'[v] = j \/ (job'[v] = [j EXCEPT !.shared = TRUE] /\ j.pc \in Writing)
      BY <2>10, <2>15
    <3>3. j.pc \in Writing /\ ~job'[v].shared => disk'[j.ino].data = disk[j.ino].data
      <4> SUFFICES ASSUME j.pc \in Writing, ~job'[v].shared
                   PROVE  disk'[j.ino].data = disk[j.ino].data
        OBVIOUS
      <4>1. v \notin ws
        <5>1. v \in ws => job'[v].shared = TRUE
          BY <2>10, <3>1 DEF Job
        <5> QED BY <5>1
      <4>2. j.ino # ino
        BY <2>15, <4>1
      <4>3. j.ino \in 1 .. Len(disk)
        BY ZenonT(60) DEF IInv, WorkerInv, StoreInv, StoreJob, Inode
      <4> QED BY <2>12, <4>2, <4>3
    <3>4. Inode(j.ino) /\ disk'[j.ino].data = j.was /\ j.was # <<>> => disk[j.ino].data = j.was
      BY <2>12 DEF Inode
    <3> HIDE DEF j
    <3> QED BY <1>1, <2>1, <2>12, <3>2, <3>3, <3>4 DEF Undisturbed, j
  <2>17. WorkerInv(w)'
    <3>1. Len(<<>>) = 0 /\ \A i \in 1 .. 0 : FALSE
      BY EmptySeq
    <3>2. k.pc \notin Early /\ k.pc \in Writing /\ k.pc \notin {"ssi", "openSsi", "open", "send", "end", "idle", "body", "close"}
          /\ k.pc \notin Putting
      BY <2>9 DEF Early, Writing, Putting
    <3>3. PlaceInv(w)'
      <4>1. 304 \notin ToSet(k.replies)
        BY <2>9, EmptyToSet
      <4>2. k.path # <<>> /\ k.file.size = Len(k.was)
        BY <1>3, <1>5, <2>9 DEF EarlyJob, IsDir
      <4> QED BY <2>9, <2>11, <3>2, <4>1, <4>2 DEF PlaceInv
    <3>4. SentInv(w)'
      <4>1. PICK c \in Int : c = k.cl
        BY <2>8, JobFields
      <4>2. Max({c, 0}) >= 0
        BY MaxOfTwo
      <4> QED BY <2>9, <2>11, <3>1, <3>2, <4>1, <4>2 DEF SentInv
    <3>5. StoreInv(w)'
      <4>1. PICK n \in Int : n = r.length
        BY <1>3, RequestFacts
      <4>2. Max({n, 0}) >= 0
        BY MaxOfTwo
      <4>3. req'[w] = r /\ r.method = "PUT"
        <5>1. req' = req
          BY <1>1
        <5>2. r.method = "PUT"
          BY <1>2, <1>3 DEF EarlyJob
        <5> QED BY <5>1, <5>2
      <4>4. Stored(k) = 0
        <5>1. k.consumed = 0 /\ Len(k.pend) = 0
          BY <2>9, <3>1
        <5> QED BY <5>1 DEF Stored
      <4>5. r.range.n = 0 => k.off = 0
        BY <2>4, <2>9
      <4>6. k.ino \in 1 .. Len(disk') /\ disk'[k.ino].data = <<>>
        BY <2>9, <2>12
      <4>7. k.status \in IF r.range.n > 0 THEN {206} ELSE {200, 201}
        BY <2>5, <2>9
      <4> HIDE DEF r
      <4> QED BY <2>9, <2>11, <3>1, <3>2, <4>1, <4>2, <4>3, <4>4, <4>5, <4>6, <4>7
              DEF StoreInv, StoreJob, Inode, Stored
    <3>6. StackInv(w)'
      BY <2>9, <2>11, <3>1, <3>2 DEF StackInv, Frames
    <3>7. OnDisk(w)'
      BY <2>9, <2>11, <2>12 DEF OnDisk, NoneOrInode, Inode
    <3> QED BY <3>3, <3>4, <3>5, <3>6, <3>7 DEF WorkerInv
  <2>18. ASSUME NEW v \in Worker \ {w}
         PROVE  /\ job'[v].pc = job[v].pc /\ job'[v].ino = job[v].ino
                /\ job'[v].consumed = job[v].consumed /\ job'[v].pend = job[v].pend
                /\ job[v].shared => job'[v].shared
                /\ v \in ws => job'[v].shared
    <3>1. job[v] \in Job
      BY <1>3
    <3> QED BY ZenonT(60), <2>10, <3>1 DEF Job
  <2>19. SharedInv'
    <3> SUFFICES ASSUME NEW u \in Worker, NEW v \in Worker, u # v,
                        job'[u].pc \in Writing, job'[v].pc \in Writing,
                        job'[u].ino = job'[v].ino
                 PROVE  job'[u].shared
      BY DEF SharedInv
    <3>1. CASE u = w
      <4>1. job[v].ino = ino /\ job[v].pc \in Writing
        BY <2>9, <2>11, <2>18, <3>1
      <4>2. ws # {}
        BY <2>15, <4>1
      <4> QED BY <2>6, <2>9, <2>11, <3>1, <4>2
    <3>2. CASE v = w
      <4>1. job[u].ino = ino /\ job[u].pc \in Writing
        BY <2>9, <2>11, <2>18, <3>2
      <4> QED BY <2>15, <2>18, <3>2, <4>1
    <3>3. CASE u # w /\ v # w
      <4>1. job[u].shared
        BY <1>3, <2>18, <3>3 DEF SharedInv
      <4> QED BY <2>18, <3>3, <4>1
    <3> QED BY <3>1, <3>2, <3>3
  <2>20. ASSUME NEW v \in Worker PROVE Done(v)' = Done(v) /\ Done(v) <= Done(v)'
    <3>1. Done(v)' = Done(v)
      <4>1. CASE v = w
        <5>1. job[w].consumed = 0 /\ job[w].pend = <<>>
          BY <1>3 DEF EarlyJob
        <5> QED BY <2>9, <2>11, <4>1, <5>1 DEF Done, Stored
      <4>2. CASE v # w
        BY <2>18, <4>2 DEF Done, Stored
      <4> QED BY <4>1, <4>2
    <3>2. Done(v) \in Int
      BY <1>3, JobFacts
    <3> QED BY <3>1, <3>2
  <2>21. ASSUME NEW n \in 1 .. Len(disk') PROVE NowPast(disk'[n].data)
    <3>1. CASE n = ino
      <4>1. Len(disk'[n].data) = 0
        BY <2>12, <3>1, EmptySeq
      <4>2. \A i \in 1 .. 0 : FALSE
        OBVIOUS
      <4> QED BY <4>1, <4>2 DEF NowPast
    <3>2. CASE n # ino
      <4>1. n \in 1 .. Len(disk) /\ disk'[n] = disk[n]
        BY <2>12, <3>2
      <4>2. disk[n].data \in Seq(CellType) /\ AllPast(disk[n].data)
        BY <1>3, <4>1, DiskFacts DEF PastInv
      <4>3. NowPast(disk[n].data)
        BY <1>3, <2>13, <2>20, <4>2, StillPast
      <4> QED BY <4>1, <4>3
    <3> QED BY <3>1, <3>2
  <2>22. job'[w].was = job[w].was
    BY <2>9, <2>11
  <2> QED BY <2>13, <2>14, <2>16, <2>17, <2>19, <2>20, <2>21, <2>22, StepInv
<1> QED BY <1>4, <1>5

\* The job of a worker who goes on with a body, or closes its file.
Continues(w, k) ==
  LET j == job[w] IN
  /\ j.pc \in Writing /\ k.pc \in Writing \cup {"end"}
  /\ k.path = j.path /\ k.file = j.file /\ k.was = j.was /\ k.ino = j.ino
  /\ k.sent = j.sent /\ k.cl = j.cl /\ k.stack = j.stack /\ (j.shared => k.shared)
  /\ 304 \notin ToSet(k.replies) /\ Done(w) <= Stored(k)

\* A PUT that goes on in the same file.
LEMMA ContinuesInv ==
  ASSUME IInv, NEW w \in Worker, NEW k \in Job, Continues(w, k), job'[w] = k, req'[w] = req[w],
         StoreJob(w, k)', k.ino \in 1 .. Len(disk')
  PROVE  WorkerInv(w)'
<1>1. PlaceInv(w) /\ SentInv(w) /\ StoreInv(w) /\ StackInv(w)
  BY DEF IInv, WorkerInv
<1>2. /\ k.pc \notin Early /\ k.pc \notin {"ssi", "openSsi", "open", "send", "idle"}
      /\ job[w].pc \notin Early /\ job[w].pc \notin {"ssi", "idle"}
  BY DEF Continues, Writing, Early
<1>3. PlaceInv(w)'
  BY <1>1, <1>2 DEF PlaceInv, Continues
<1>4. SentInv(w)'
  <2>1. req[w].method = "PUT"
    BY <1>1 DEF StoreInv, StoreJob, Continues
  <2> QED BY <1>1, <1>2, <2>1 DEF SentInv, Continues
<1>5. StoreInv(w)'
  BY DEF StoreInv, StoreJob, Inode, Stored
<1>6. StackInv(w)'
  <2>1. k.stack = <<>> /\ Len(<<>>) = 0 /\ \A i \in 1 .. 0 : FALSE
    BY <1>1, <1>2, EmptySeq DEF PlaceInv, Continues
  <2> QED BY <1>2, <2>1 DEF StackInv, Frames
<1>7. OnDisk(w)'
  BY DEF OnDisk, NoneOrInode, Inode
<1> QED BY <1>3, <1>4, <1>5, <1>6, <1>7 DEF WorkerInv

\* A step of a PUT that stays within stdio.
LEMMA KeepInv ==
  ASSUME IInv, NEW w \in Worker, NEW k \in Job, Continues(w, k), StoreJob(w, k),
         job' = [job EXCEPT ![w] = k], Quiet
  PROVE  IInv'
<1>1. TypeInv /\ PastInv
  BY DEF IInv
<1>2. job'[w] = k /\ UNCHANGED <<fs, disk, now, req, editor, gone, stop>>
  BY <1>1, BecomesFacts DEF Becomes, Quiet, Files, World
<1>3. StoreJob(w, k)'
  BY <1>2 DEF StoreJob, Stored, Inode
<1>4. WorkerInv(w)'
  <2>1. k.ino \in 1 .. Len(disk')
    <3>1. job[w].pc \in Writing /\ k.ino = job[w].ino
      BY DEF Continues
    <3> QED BY <1>2, <3>1 DEF IInv, WorkerInv, StoreInv, StoreJob, Inode
  <2> QED BY <1>2, <1>3, <2>1, ContinuesInv
<1>5. AllPast(k.was)
  BY <1>1 DEF PastInv, Continues
<1>6. Done(w) <= k.consumed - Len(k.pend)
  BY DEF Continues, Stored
<1>7. job[w].pc \in Writing /\ k.ino = job[w].ino /\ (job[w].shared => k.shared)
  BY DEF Continues
<1> QED BY <1>4, <1>5, <1>6, <1>7, QuietInv

\* A write that fails loses what stdio held back.
LEMMA FailInv ==
  ASSUME IInv, NEW w \in Worker, NEW j \in Job, Continues(w, j), StoreJob(w, j),
         j.pc # "forward", job' = [job EXCEPT ![w] = [j EXCEPT !.lost = TRUE, !.pend = <<>>]],
         Quiet
  PROVE  IInv'
<1> DEFINE k == [j EXCEPT !.lost = TRUE, !.pend = <<>>]
<1>0. <<>> \in Seq(CellType) /\ Len(<<>>) = 0 /\ \A i \in 1 .. 0 : FALSE
  BY EmptySeq
<1>1. k \in Job
  BY <1>0 DEF Job
<1>2. /\ k.pc = j.pc /\ k.path = j.path /\ k.file = j.file /\ k.was = j.was /\ k.ino = j.ino
      /\ k.sent = j.sent /\ k.cl = j.cl /\ k.stack = j.stack /\ k.shared = j.shared
      /\ k.replies = j.replies /\ k.consumed = j.consumed /\ k.status = j.status
      /\ k.passed = j.passed /\ k.pend = <<>> /\ k.lost = TRUE
  BY DEF Job
<1> HIDE DEF k
<1>3. PICK n \in Nat, c \in Nat : n = Len(j.pend) /\ c = j.consumed
  BY JobFields
<1>4. Stored(k) = c /\ Stored(j) = c - n
  <2>1. Len(k.pend) = 0 /\ k.consumed = c
    BY <1>0, <1>2, <1>3
  <2> QED BY <1>3, <2>1 DEF Stored
<1>5. Done(w) \in Int
  BY JobFacts DEF IInv
<1>6. Continues(w, k)
  <2>1. Done(w) <= Stored(k)
    BY <1>3, <1>4, <1>5 DEF Continues
  <2> QED BY <1>2, <2>1 DEF Continues
<1>7. StoreJob(w, k)
  <2>1. Len(k.pend) <= k.consumed
    BY <1>0, <1>2, <1>3
  <2>2. \A i \in 1 .. Len(k.pend) : k.pend[i] = Cell(w, Stored(k) + i)
    BY <1>0, <1>2
  <2>3. k.pc # "forward" /\ k.lost
    BY <1>2
  <2>4. /\ k.pc \in Putting \cup Writing => req[w].method = "PUT" /\ k.passed = "put"
        /\ k.pc \in Putting => k.status \in {200, 201}
        /\ k.pc \in Writing =>
             /\ Inode(k.ino)
             /\ k.status \in IF req[w].range.n > 0 THEN {206} ELSE {200, 201}
        /\ k.consumed <= Max({req[w].length, 0})
        /\ k.pc = "body" => k.replies = <<>> /\ req[w].length >= 0
        /\ k.pc = "close" =>
             \E x \in {200, 201, 206, 411, 417, 577} :
               /\ k.replies = <<x>>
               /\ x \in {200, 201} => k.consumed = req[w].length /\ req[w].range.n = 0
    BY <1>2 DEF StoreJob
  <2> QED BY <2>1, <2>2, <2>3, <2>4 DEF StoreJob
<1>8. job' = [job EXCEPT ![w] = k]
  BY DEF k
<1> QED BY <1>1, <1>6, <1>7, <1>8, KeepInv

\* The contents of a file after a write, cell by cell.
Overlaid(d, data, off, b) ==
  /\ d \in Seq(CellType)
  /\ Len(d) = IF Len(data) >= off + Len(b) THEN Len(data) ELSE off + Len(b)
  /\ \A k \in 1 .. Len(d) :
       d[k] = IF k > off /\ k <= off + Len(b) THEN b[k - off]
              ELSE IF k <= Len(data) THEN data[k] ELSE Hole

\* What a write makes of a file, cell by cell.
LEMMA WrittenFacts ==
  ASSUME NEW data \in Seq(CellType), NEW off \in Nat, NEW b \in Seq(CellType), NEW d,
         d = Written(data, off, b)
  PROVE  Overlaid(d, data, off, b)
<1>1. PICK n \in Nat, m \in Nat : n = Len(data) /\ m = off + Len(b)
  BY LenProperties
<1>2. PICK x \in Nat : x = Max({n, m}) /\ x = IF n >= m THEN n ELSE m
  BY MaxOfTwo
<1> DEFINE Piece(k) == IF k > off /\ k <= off + Len(b) THEN b[k - off]
                    ELSE IF k <= Len(data) THEN data[k] ELSE Hole
<1>3. d = [k \in 1 .. x |-> Piece(k)]
  BY <1>1, <1>2 DEF Written
<1>4. ASSUME NEW k \in 1 .. x PROVE Piece(k) \in CellType
  <2>1. CASE k > off /\ k <= off + Len(b)
    <3>1. k - off \in 1 .. Len(b)
      BY <2>1, LenProperties
    <3>2. b[k - off] \in CellType
      BY <3>1, ElementOfSeq
    <3> QED BY <2>1, <3>2
  <2>2. CASE ~(k > off /\ k <= off + Len(b)) /\ k <= Len(data)
    <3>1. data[k] \in CellType
      BY <2>2, LenProperties, ElementOfSeq
    <3> QED BY <2>2, <3>1
  <2>3. CASE ~(k > off /\ k <= off + Len(b)) /\ ~(k <= Len(data))
    <3>1. Hole \in CellType
      <4>1. 0 \in Nat
        OBVIOUS
      <4> QED BY <4>1, Zenon DEF Hole, Cell, CellType
    <3> QED BY <2>3, <3>1
  <2> QED BY <2>1, <2>2, <2>3
<1> HIDE DEF Piece
<1>5. d \in Seq(CellType) /\ Len(d) = x
  BY <1>3, <1>4
<1>6. \A k \in 1 .. Len(d) : d[k] = Piece(k)
  BY <1>3, <1>5
<1> QED BY <1>1, <1>2, <1>5, <1>6 DEF Piece, Overlaid

\* A job whose held back bytes have been written.
Flushed(j) == [j EXCEPT !.off = @ + Len(j.pend), !.pend = <<>>]

\* What it makes of the job that wrote.
LEMMA FlushedFacts ==
  ASSUME NEW j \in Job, NEW k, k = Flushed(j)
  PROVE  /\ k \in Job /\ k.off = j.off + Len(j.pend) /\ k.pend = <<>>
         /\ k.pc = j.pc /\ k.path = j.path /\ k.file = j.file /\ k.was = j.was /\ k.ino = j.ino
         /\ k.sent = j.sent /\ k.cl = j.cl /\ k.stack = j.stack /\ k.shared = j.shared
         /\ k.replies = j.replies /\ k.consumed = j.consumed /\ k.status = j.status
         /\ k.passed = j.passed /\ k.lost = j.lost
         /\ k.gap = j.gap /\ k.names = j.names /\ k.depth = j.depth
         /\ Stored(k) = j.consumed
<1>1. PICK off \in Nat : off = j.off + Len(j.pend)
  <2>1. j.off \in Nat /\ Len(j.pend) \in Nat
    BY JobFields
  <2> QED BY <2>1
<1>2. k = [j EXCEPT !.off = off, !.pend = <<>>]
  BY <1>1 DEF Flushed
<1>3. k \in Job
  <2>1. <<>> \in Seq(CellType)
    BY EmptySeq
  <2> QED BY ZenonT(60), <1>2, <2>1 DEF Job
<1>4. /\ k.off = j.off + Len(j.pend) /\ k.pend = <<>>
      /\ k.pc = j.pc /\ k.path = j.path /\ k.file = j.file /\ k.was = j.was /\ k.ino = j.ino
      /\ k.sent = j.sent /\ k.cl = j.cl /\ k.stack = j.stack /\ k.shared = j.shared
      /\ k.replies = j.replies /\ k.consumed = j.consumed /\ k.status = j.status
      /\ k.passed = j.passed /\ k.lost = j.lost
      /\ k.gap = j.gap /\ k.names = j.names /\ k.depth = j.depth
  BY <1>1, <1>2 DEF Job
<1>5. Stored(k) = j.consumed
  <2>1. Len(k.pend) = 0 /\ k.consumed = j.consumed /\ j.consumed \in Nat
    BY <1>4, EmptySeq, JobFields
  <2> QED BY <2>1 DEF Stored
<1> QED BY <1>3, <1>4, <1>5

\* A write that succeeds: others who have the file open see it, or know it is
\* shared.
LEMMA FlushInv ==
  ASSUME IInv, NEW w \in Worker, NEW j \in Job, Continues(w, j), StoreJob(w, j),
         j.pc # "forward", NEW k \in Job, k = Flushed(j), job' = [job EXCEPT ![w] = k],
         j.pend # <<>>, fs' = fs, UNCHANGED World,
         disk' = [disk EXCEPT ![j.ino] = [data |-> Written(@.data, j.off, j.pend), mtime |-> now]]
  PROVE  IInv'
<1>1. /\ TypeInv /\ FsInv /\ SharedInv /\ PastInv /\ StoreInv(w) /\ job \in [Worker -> Job]
      /\ req[w] \in Request[w] /\ disk \in Seq(InodeType) /\ Len(disk) \in Nat
      /\ now \in 0 .. MaxTime
  BY LenProperties DEF IInv, TypeInv, WorkerInv
<1>2. /\ job' \in [Worker -> Job] /\ job'[w] = k /\ \A v \in Worker \ {w} : job'[v] = job[v]
      /\ UNCHANGED <<fs, now, req, editor, gone, stop>>
  BY <1>1, BecomesFacts DEF Becomes, World
<1>3. /\ k.off = j.off + Len(j.pend) /\ k.pend = <<>>
      /\ k.pc = j.pc /\ k.path = j.path /\ k.file = j.file /\ k.was = j.was /\ k.ino = j.ino
      /\ k.sent = j.sent /\ k.cl = j.cl /\ k.stack = j.stack /\ k.shared = j.shared
      /\ k.replies = j.replies /\ k.consumed = j.consumed /\ k.status = j.status
      /\ k.passed = j.passed /\ k.lost = j.lost
      /\ Stored(k) = j.consumed
  BY FlushedFacts
<1>4. /\ job[w].pc \in Writing /\ job[w].ino = j.ino /\ (job[w].shared => j.shared)
      /\ Done(w) <= Stored(j) /\ k.pc \in Writing \cup {"end"}
  BY <1>3 DEF Continues
<1>5. PICK ino \in 1 .. Len(disk) : ino = j.ino
  BY <1>1, <1>4 DEF StoreInv, StoreJob, Inode
<1>6. PICK off \in Nat, b \in Seq(CellType), m \in Nat, c \in Nat :
        off = j.off /\ b = j.pend /\ m = Len(j.pend) /\ c = j.consumed
  BY JobFields
<1>7. m > 0 /\ m = Len(b) /\ m <= c /\ Stored(j) = c - m /\ Stored(k) = c
  <2>1. m = Len(b) /\ m <= c /\ Stored(j) = c - m /\ Stored(k) = c
    BY <1>3, <1>6 DEF StoreJob, Stored
  <2>2. b # <<>>
    BY <1>6
  <2>3. m # 0
    BY <2>1, <2>2, EmptySeq
  <2> QED BY <2>1, <2>3
<1>8. \A i \in 1 .. m : b[i] = Cell(w, c - m + i)
  BY <1>6, <1>7 DEF StoreJob
<1>9. PICK old \in Seq(CellType) : old = disk[ino].data /\ AllPast(old)
  BY <1>1, DiskFacts DEF PastInv
<1>10. PICK d \in Seq(CellType) :
         /\ d = Written(old, off, b)
         /\ Len(d) = IF Len(old) >= off + m THEN Len(old) ELSE off + m
         /\ \A i \in 1 .. Len(d) :
              d[i] = IF i > off /\ i <= off + m THEN b[i - off]
                     ELSE IF i <= Len(old) THEN old[i] ELSE Hole
  <2>1. PICK d : d = Written(old, off, b)
    OBVIOUS
  <2>2. Overlaid(d, old, off, b)
    BY <2>1, WrittenFacts
  <2> QED BY <1>7, <2>1, <2>2 DEF Overlaid
<1>11. PICK e \in InodeType : e = [data |-> d, mtime |-> now] /\ e.data = d
  <2>1. PICK t \in 0 .. MaxTime : t = now
    BY <1>1
  <2>2. [data |-> d, mtime |-> t] \in InodeType /\ [data |-> d, mtime |-> t].data = d
    BY DEF InodeType
  <2> QED BY <2>1, <2>2
<1>12. disk' = [disk EXCEPT ![ino] = e]
  BY <1>5, <1>6, <1>9, <1>10, <1>11
<1>13. /\ disk' \in Seq(InodeType) /\ Len(disk') = Len(disk) /\ disk'[ino].data = d
       /\ \A n \in 1 .. Len(disk) : n # ino => disk'[n] = disk[n]
  <2>1. /\ [disk EXCEPT ![ino] = e] \in Seq(InodeType)
        /\ Len([disk EXCEPT ![ino] = e]) = Len(disk)
        /\ \A n \in 1 .. Len(disk) :
             [disk EXCEPT ![ino] = e][n] = IF n = ino THEN e ELSE disk[n]
    BY <1>1, ExceptSeq
  <2> QED BY <1>11, <1>12, <2>1
<1>14. TypeInv'
  BY <1>1, <1>2, <1>13 DEF TypeInv
<1>15. FsInv'
  BY <1>1, <1>2, <1>13 DEF FsInv
<1>16. SharedInv'
  <2> SUFFICES ASSUME NEW u \in Worker, NEW v \in Worker, u # v,
                      job'[u].pc \in Writing, job'[v].pc \in Writing,
                      job'[u].ino = job'[v].ino
               PROVE  job'[u].shared
    BY DEF SharedInv
  <2>1. /\ job[u].pc \in Writing /\ job[v].pc \in Writing
        /\ job'[u].ino = job[u].ino /\ job'[v].ino = job[v].ino
        /\ job[u].shared => job'[u].shared
    BY <1>2, <1>3, <1>4
  <2> QED BY <1>1, <2>1 DEF SharedInv
<1>17. ASSUME NEW v \in Worker PROVE Done(v) <= Done(v)'
  <2>1. Done(v) \in Int
    BY <1>1, JobFacts
  <2>2. CASE v = w
    <3>1. Done(v)' = Stored(k)
      BY <1>2, <2>2 DEF Done, Stored
    <3>2. Stored(j) <= Stored(k)
      BY <1>7
    <3>3. Stored(j) \in Int /\ Stored(k) \in Int
      BY <1>7
    <3> QED BY <1>4, <2>1, <2>2, <3>1, <3>2, <3>3
  <2>3. CASE v # w
    <3>1. Done(v)' = Done(v)
      BY <1>2, <2>3 DEF Done, Stored
    <3> QED BY <2>1, <3>1
  <2> QED BY <2>2, <2>3
<1>18. ASSUME NEW v \in Worker, v # w PROVE Undisturbed(v)
  <2> DEFINE i == job[v]
  <2>1. job'[v] = i /\ req'[v] = req[v] /\ gone' = gone
    BY <1>2, <1>18
  <2>2. i.pc \in Writing /\ ~i.shared => disk'[i.ino].data = disk[i.ino].data
    <3> SUFFICES ASSUME i.pc \in Writing, ~i.shared PROVE disk'[i.ino].data = disk[i.ino].data
      OBVIOUS
    <3>1. i.ino # ino
      <4>1. SharedInv
        BY <1>1
      <4>2. job[w].pc \in Writing /\ job[w].ino = ino
        BY <1>4, <1>5
      <4> QED BY <1>18, <4>1, <4>2 DEF SharedInv
    <3>2. i.ino \in 1 .. Len(disk)
      <4>1. StoreJob(v, i)
        BY DEF IInv, WorkerInv, StoreInv
      <4> QED BY <4>1 DEF StoreJob, Inode
    <3> QED BY <1>13, <3>1, <3>2
  <2>3. Inode(i.ino) /\ disk'[i.ino].data = i.was /\ i.was # <<>> => disk[i.ino].data = i.was
    <3> SUFFICES ASSUME i.ino \in 1 .. Len(disk), disk'[i.ino].data = i.was
                 PROVE  disk[i.ino].data = i.was
      BY DEF Inode
    <3>1. CASE i.ino # ino
      BY <1>13, <3>1
    <3>2. CASE i.ino = ino
      <4>1. d = i.was
        BY <1>13, <3>2
      <4>2. AllPast(d)
        BY <1>1, <4>1 DEF PastInv
      <4>3. Len(old) \in Nat
        BY LenProperties
      <4>4. off + 1 \in 1 .. Len(d)
        BY <1>7, <1>10, <4>3
      <4>5. d[off + 1] = b[1]
        <5>1. off + 1 > off /\ off + 1 <= off + m /\ off + 1 - off = 1
          BY <1>7
        <5> QED BY <1>10, <4>4, <5>1
      <4>6. d[off + 1].by = w /\ d[off + 1].k = c - m + 1
        <5>1. 1 \in 1 .. m
          BY <1>7
        <5>2. b[1] = Cell(w, c - m + 1)
          BY <1>8, <5>1
        <5> QED BY <4>5, <5>2 DEF Cell
      <4>7. c - m + 1 <= Done(w)
        BY <4>2, <4>4, <4>6 DEF AllPast, Past
      <4>8. Done(w) \in Int
        BY <1>1, JobFacts
      <4> QED BY <1>4, <1>7, <4>7, <4>8
    <3> QED BY <3>1, <3>2
  <2> HIDE DEF i
  <2> QED BY <1>1, <1>13, <2>1, <2>2, <2>3 DEF Undisturbed, i
<1>19. WorkerInv(w)' /\ job'[w].was = job[w].was
  <2>1. Continues(w, k)
    <3>1. Done(w) <= Stored(k)
      <4>1. Done(w) \in Int
        BY <1>1, JobFacts
      <4> QED BY <1>4, <1>7, <4>1
    <3> QED BY <1>3, <3>1 DEF Continues
  <2>2. k.pc \in Writing /\ ~k.shared /\ ~k.lost /\ req[w].range.n = 0 =>
          k.off = c /\ Len(d) = c /\ \A i \in 1 .. Len(d) : d[i] = Cell(w, i)
    <3> SUFFICES ASSUME k.pc \in Writing, ~k.shared, ~k.lost, req[w].range.n = 0
                 PROVE  k.off = c /\ Len(d) = c /\ \A i \in 1 .. Len(d) : d[i] = Cell(w, i)
      OBVIOUS
    <3>1. off = c - m /\ Len(old) = c - m /\ \A i \in 1 .. Len(old) : old[i] = Cell(w, i)
      BY <1>3, <1>5, <1>6, <1>7, <1>9 DEF StoreJob
    <3>2. k.off = c /\ Len(d) = c
      BY <1>3, <1>6, <1>7, <1>10, <3>1
    <3>3. ASSUME NEW i \in 1 .. Len(d) PROVE d[i] = Cell(w, i)
      <4>1. i \in Nat /\ i >= 1 /\ i <= c
        BY <3>2
      <4>2. CASE i <= off
        <5>1. d[i] = old[i] /\ i \in 1 .. Len(old)
          BY <1>10, <3>1, <4>1, <4>2
        <5> QED BY <3>1, <5>1
      <4>3. CASE i > off
        <5>1. d[i] = b[i - off] /\ i - off \in 1 .. m
          BY <1>7, <1>10, <3>1, <4>1, <4>3
        <5>2. c - m + (i - off) = i
          BY <3>1, <4>1
        <5> QED BY <1>8, <5>1, <5>2
      <4> QED BY <4>1, <4>2, <4>3
    <3> QED BY <3>2, <3>3
  <2>3. StoreJob(w, k)'
    <3>1. /\ k.consumed <= Max({req'[w].length, 0}) /\ Len(k.pend) <= k.consumed
          /\ \A i \in 1 .. Len(k.pend) : k.pend[i] = Cell(w, Stored(k) + i)
      <4>1. Len(k.pend) = 0 /\ \A i \in 1 .. 0 : FALSE
        BY <1>3, EmptySeq
      <4>2. k.consumed \in Nat /\ k.consumed <= Max({req'[w].length, 0})
        BY <1>2, <1>3, <1>6 DEF StoreJob
      <4> QED BY <4>1, <4>2
    <3>2. k.pc = "close" =>
            \E x \in {200, 201, 206, 411, 417, 577} :
               /\ k.replies = <<x>>
               /\ x \in {200, 201} => k.consumed = req'[w].length /\ req'[w].range.n = 0
      BY <1>2, <1>3 DEF StoreJob
    <3>3. /\ k.pc \in Putting \cup Writing => req'[w].method = "PUT" /\ k.passed = "put"
          /\ k.pc \in Putting => k.status \in {200, 201}
          /\ k.pc \in Writing =>
               k.status \in IF req'[w].range.n > 0 THEN {206} ELSE {200, 201}
          /\ k.pc # "forward"
          /\ k.pc = "body" => k.replies = <<>> /\ req'[w].length >= 0
      BY <1>2, <1>3 DEF StoreJob
    <3>4. k.ino \in 1 .. Len(disk')
      BY <1>3, <1>5, <1>13
    <3>5. disk'[k.ino].data = d /\ Stored(k) = c
      BY <1>3, <1>5, <1>7, <1>13
    <3>6. k.pc \in Writing /\ ~k.shared /\ ~k.lost /\ req'[w].range.n = 0 =>
            LET x == disk'[k.ino].data IN
            k.off = Stored(k) /\ Len(x) = Stored(k) /\ \A i \in 1 .. Len(x) : x[i] = Cell(w, i)
      BY <1>2, <2>2, <3>5
    <3> QED BY <3>1, <3>2, <3>3, <3>4, <3>6 DEF StoreJob, Inode, Stored
  <2>4. WorkerInv(w)'
    <3>1. k.ino \in 1 .. Len(disk')
      BY <1>3, <1>5, <1>13
    <3> QED BY <1>2, <2>1, <2>3, <3>1, ContinuesInv
  <2>5. k.was = job[w].was
    BY <1>3 DEF Continues
  <2> QED BY <1>2, <2>4, <2>5
<1>20. ASSUME NEW n \in 1 .. Len(disk') PROVE NowPast(disk'[n].data)
  <2>1. CASE n # ino
    <3>1. n \in 1 .. Len(disk) /\ disk'[n] = disk[n]
      BY <1>13, <2>1
    <3>2. disk[n].data \in Seq(CellType) /\ AllPast(disk[n].data)
      BY <1>1, <3>1, DiskFacts DEF PastInv
    <3>3. NowPast(disk[n].data)
      BY <1>1, <1>14, <1>17, <3>2, StillPast
    <3> QED BY <3>1, <3>3
  <2>2. CASE n = ino
    <3>1. NowPast(old)
      BY <1>1, <1>9, <1>14, <1>17, StillPast
    <3>2. Done(w)' = c
      BY <1>2, <1>7 DEF Done, Stored
    <3>3. ASSUME NEW i \in 1 .. Len(d), NEW v \in Worker, d[i].by = v PROVE d[i].k <= Done(v)'
      <4>1. i \in Nat /\ i >= 1 /\ Len(old) \in Nat
        BY LenProperties
      <4>2. CASE i > off /\ i <= off + m
        <5>1. d[i] = b[i - off] /\ i - off \in 1 .. m
          BY <1>10, <4>1, <4>2
        <5>2. PICK x \in 1 .. m : x = i - off
          BY <5>1
        <5>3. d[i].by = w /\ d[i].k = c - m + x
          <6>1. d[i] = Cell(w, c - m + x)
            BY <1>8, <5>1, <5>2
          <6> QED BY <6>1 DEF Cell
        <5>4. c - m + x <= c
          OBVIOUS
        <5> QED BY <3>2, <3>3, <5>3, <5>4
      <4>3. CASE ~(i > off /\ i <= off + m) /\ i <= Len(old)
        <5>1. d[i] = old[i] /\ i \in 1 .. Len(old)
          BY <1>10, <4>1, <4>3
        <5> QED BY <3>1, <3>3, <5>1 DEF NowPast
      <4>4. CASE ~(i > off /\ i <= off + m) /\ ~(i <= Len(old))
        <5>1. d[i] = Hole
          BY <1>10, <4>4
        <5>2. d[i].by = "hole"
          BY <5>1 DEF Hole, Cell
        <5> QED BY <3>3, <5>2, Bounds
      <4> QED BY <4>2, <4>3, <4>4
    <3>4. NowPast(d)
      BY <3>3 DEF NowPast
    <3> QED BY <1>13, <2>2, <3>4
  <2> QED BY <2>1, <2>2
<1> QED
  <2>1. \A v \in Worker : Undisturbed(v) \/ (WorkerInv(v)' /\ job'[v].was = job[v].was)
    BY <1>18, <1>19
  <2> QED BY <1>14, <1>15, <1>16, <1>17, <1>20, <2>1, StepInv

LEMMA WriteInv ==
  ASSUME IInv, NEW w \in Worker, NEW j \in Job, Continues(w, j), StoreJob(w, j),
         j.pc # "forward", Write(w, j), fs' = fs, UNCHANGED World
  PROVE  IInv'
<1>1. PICK k : k = Flushed(j)
  OBVIOUS
<1>2. k \in Job
  BY <1>1, FlushedFacts
<1>3. job' = [job EXCEPT ![w] = k]
  BY <1>1 DEF Write, Flushed
<1>4. CASE j.pend = <<>>
  <2>1. k = j
    <3>1. PICK off \in Nat : off = j.off /\ j.off + Len(<<>>) = off
      <4>1. j.off \in Nat /\ Len(<<>>) = 0
        BY JobFields, EmptySeq
      <4> QED BY <4>1
    <3>2. k = [j EXCEPT !.off = off, !.pend = <<>>]
      BY <1>1, <1>4, <3>1 DEF Flushed
    <3> QED BY <1>4, <3>1, <3>2 DEF Job
  <2>2. Quiet
    BY <1>4 DEF Write, Quiet, Files
  <2> QED BY <1>3, <2>1, <2>2, KeepInv
<1>5. CASE j.pend # <<>>
  <2>1. disk' = [disk EXCEPT ![j.ino] = [data |-> Written(@.data, j.off, j.pend), mtime |-> now]]
    BY <1>5 DEF Write
  <2> QED BY <1>1, <1>2, <1>3, <1>5, <2>1, FlushInv
<1> QED BY <1>4, <1>5

\* A write that fails unseen.
LEMMA WriteFailsInv ==
  ASSUME IInv, NEW w \in Worker, NEW j \in Job, Continues(w, j), StoreJob(w, j),
         j.pc # "forward", WriteFails(w, j), fs' = fs, UNCHANGED World
  PROVE  IInv'
<1>1. Quiet
  BY DEF WriteFails, Quiet, Files
<1>2. job' = [job EXCEPT ![w] = [j EXCEPT !.lost = TRUE, !.pend = <<>>]]
  BY DEF WriteFails
<1> QED BY Zenon, <1>1, <1>2, FailInv

\* fwrite: the cells are held back, written, or lost.
LEMMA PushInv ==
  ASSUME IInv, NEW w \in Worker,
         NEW j \in Job, Continues(w, j), StoreJob(w, j), j.pc # "forward",
         NEW f \in Job, Continues(w, f), StoreJob(w, f), f.pc # "forward",
         Push(w, j, f), fs' = fs, UNCHANGED World
  PROVE  IInv'
<1>1. CASE job' = [job EXCEPT ![w] = j] /\ UNCHANGED disk
  <2>1. Quiet
    BY <1>1 DEF Quiet, Files
  <2> QED BY <1>1, <2>1, KeepInv
<1>2. CASE Write(w, j)
  BY <1>2, WriteInv
<1>3. CASE WriteFails(w, f)
  BY <1>3, WriteFailsInv
<1> QED BY <1>1, <1>2, <1>3 DEF Push

\* The reply of put_file.
LEMMA JobReplies ==
  ASSUME NEW j \in Job, NEW st \in Nat, j.replies = <<>>, NEW k, k = Replied(j, st)
  PROVE  /\ k \in Job
         /\ k.pc = "close" /\ k.path = j.path /\ k.file = j.file /\ k.was = j.was
         /\ k.ino = j.ino /\ k.sent = j.sent /\ k.cl = j.cl /\ k.stack = j.stack
         /\ k.shared = j.shared /\ k.replies = <<st>> /\ k.consumed = j.consumed
         /\ k.status = j.status /\ k.passed = j.passed /\ k.lost = j.lost
         /\ k.pend = j.pend /\ k.off = j.off
         /\ k.gap = j.gap /\ k.names = j.names /\ k.depth = j.depth
<1>1. PICK c \in Seq(Nat) : c = <<st>> /\ c = Append(j.replies, st)
  <2>1. Append(<<>>, st) = <<st>> /\ <<st>> \in Seq(Nat)
    OBVIOUS
  <2> QED BY <2>1
<1>2. k = [j EXCEPT !.pc = "close", !.replies = c]
  BY <1>1 DEF Replied
<1>3. k \in Job
  <2>1. "close" \in Place
    BY DEF Place
  <2> QED BY ZenonT(60), <1>2, <2>1 DEF Job
<1> QED BY <1>1, <1>2, <1>3 DEF Job

\* A job that has the reply to a body, whatever has become of the body.
LEMMA RepliedInv ==
  ASSUME IInv, NEW w \in Worker, NEW j \in Job, Continues(w, j), StoreJob(w, j),
         j.pc \in Writing, j.replies = <<>>, NEW st \in Nat, st \in {200, 201, 206, 411, 417, 577},
         st \in {200, 201} => j.consumed = req[w].length /\ req[w].range.n = 0,
         NEW k, k = Replied(j, st)
  PROVE  k \in Job /\ Continues(w, k) /\ StoreJob(w, k) /\ k.pc = "close"
<1>3. k \in Job
  BY JobReplies
<1>4. /\ k.pc = "close" /\ k.path = j.path /\ k.file = j.file /\ k.was = j.was /\ k.ino = j.ino
      /\ k.sent = j.sent /\ k.cl = j.cl /\ k.stack = j.stack /\ k.shared = j.shared
      /\ k.replies = <<st>> /\ k.consumed = j.consumed /\ k.status = j.status
      /\ k.passed = j.passed /\ k.lost = j.lost /\ k.pend = j.pend /\ k.off = j.off
  BY JobReplies
<1>5. Stored(k) = Stored(j)
  BY <1>4 DEF Stored
<1>6. Continues(w, k)
  <2>1. 304 \notin ToSet(<<st>>)
    BY DEF ToSet
  <2>2. k.pc \in Writing
    BY <1>4 DEF Writing
  <2> QED BY <1>4, <1>5, <2>1, <2>2 DEF Continues
<1>7. StoreJob(w, k)
  <2>1. /\ k.consumed <= Max({req[w].length, 0}) /\ Len(k.pend) <= k.consumed
        /\ \A i \in 1 .. Len(k.pend) : k.pend[i] = Cell(w, Stored(k) + i)
    BY <1>4, <1>5 DEF StoreJob
  <2>2. k.pc = "close" =>
          \E x \in {200, 201, 206, 411, 417, 577} :
             /\ k.replies = <<x>>
             /\ x \in {200, 201} => k.consumed = req[w].length /\ req[w].range.n = 0
    BY <1>4
  <2>3. /\ req[w].method = "PUT" /\ k.passed = "put" /\ Inode(k.ino)
        /\ k.status \in IF req[w].range.n > 0 THEN {206} ELSE {200, 201}
    BY <1>4 DEF StoreJob
  <2>4. ~k.shared /\ ~k.lost /\ req[w].range.n = 0 =>
          LET d == disk[k.ino].data IN
          k.off = Stored(k) /\ Len(d) = Stored(k) /\ \A i \in 1 .. Len(d) : d[i] = Cell(w, i)
    BY <1>4, <1>5 DEF StoreJob
  <2>5. k.pc \notin Putting /\ k.pc \notin {"forward", "body"}
    BY <1>4 DEF Putting
  <2> QED BY <2>1, <2>2, <2>3, <2>4, <2>5 DEF StoreJob
<1> QED BY <1>3, <1>4, <1>6, <1>7

LEMMA ContinuesSelf ==
  ASSUME IInv, NEW w \in Worker, job[w].pc \in Writing, 304 \notin ToSet(job[w].replies)
  PROVE  Continues(w, job[w]) /\ StoreJob(w, job[w])
<1>1. StoreJob(w, job[w])
  BY DEF IInv, WorkerInv, StoreInv
<1>2. Done(w) \in Int
  BY JobFacts DEF IInv
<1>3. Done(w) <= Stored(job[w])
  BY <1>2 DEF Done
<1> QED BY <1>1, <1>3 DEF Continues

\* The cells of a body.
LEMMA BodyFacts ==
  ASSUME NEW w \in Worker, NEW m \in Nat, NEW n \in Nat
  PROVE  /\ Body(w, m, m + n) \in Seq(CellType) /\ Len(Body(w, m, m + n)) = n
         /\ \A i \in 1 .. n : Body(w, m, m + n)[i] = Cell(w, m + i)
<1>1. PICK x \in Nat : x = m + n - m /\ x = n
  OBVIOUS
<1>2. Body(w, m, m + n) = [i \in 1 .. x |-> Cell(w, m + i)]
  BY <1>1 DEF Body
<1>3. ASSUME NEW i \in 1 .. x PROVE Cell(w, m + i) \in CellType
  BY DEF Cell, CellType
<1>4. [i \in 1 .. x |-> Cell(w, m + i)] \in Seq(CellType)
  BY <1>3
<1> QED BY <1>1, <1>2, <1>4

\* Two sequences joined.
LEMMA Joined ==
  ASSUME NEW S, NEW p \in Seq(S), NEW b \in Seq(S), NEW m \in Nat, NEW n \in Nat,
         m = Len(p), n = Len(b)
  PROVE  /\ p \o b \in Seq(S) /\ Len(p \o b) = m + n
         /\ \A i \in 1 .. m : (p \o b)[i] = p[i]
         /\ \A i \in 1 .. n : (p \o b)[m + i] = b[i]
<1>1. /\ p \o b \in Seq(S) /\ Len(p \o b) = m + n
      /\ \A i \in 1 .. m + n : (p \o b)[i] = IF i <= m THEN p[i] ELSE b[i - m]
  BY ConcatProperties
<1>2. \A i \in 1 .. m : i \in 1 .. m + n /\ i <= m
  OBVIOUS
<1>3. \A i \in 1 .. n : m + i \in 1 .. m + n /\ ~(m + i <= m) /\ (m + i) - m = i
  OBVIOUS
<1> QED BY <1>1, <1>2, <1>3

\* What w is when it has received n more cells, and held them back.
Received(w, n) ==
  [job[w] EXCEPT !.pc = "body", !.consumed = job[w].consumed + n,
                 !.pend = job[w].pend \o Body(w, job[w].consumed, job[w].consumed + n)]

\* Receiving n more cells of a body.
LEMMA MoreInv ==
  ASSUME IInv, NEW w \in Worker, job[w].pc \in {"forward", "body"}, NEW n \in Nat,
         job[w].consumed + n <= req[w].length,
         NEW k, k = Received(w, n)
  PROVE  /\ k \in Job /\ Continues(w, k) /\ StoreJob(w, k) /\ k.pc = "body"
         /\ k.replies = <<>> /\ k.consumed = job[w].consumed + n
<1>1. job[w].pc \in Writing
  BY DEF Writing
<1>2. PICK j \in Job : j = job[w]
  BY JobFacts DEF IInv
<1>3. StoreJob(w, j) /\ j.replies = <<>> /\ Continues(w, j)
  <2>1. StoreJob(w, j)
    BY <1>2 DEF IInv, WorkerInv, StoreInv
  <2>2. j.replies = <<>>
    BY <1>2, <2>1 DEF StoreJob
  <2> QED BY <1>1, <1>2, <2>1, <2>2, ContinuesSelf, EmptyToSet
<1>4. PICK c \in Nat, p \in Seq(CellType), m \in Nat, len \in Int :
        c = j.consumed /\ p = j.pend /\ m = Len(j.pend) /\ m = Len(p) /\ len = req[w].length
  BY <1>2, JobFacts, JobFields, RequestFacts DEF IInv
<1>5. PICK b \in Seq(CellType) :
        /\ b = Body(w, c, c + n) /\ Len(b) = n /\ \A i \in 1 .. n : b[i] = Cell(w, c + i)
  BY BodyFacts
<1>6. PICK q \in Seq(CellType) :
        /\ q = p \o b /\ Len(q) = m + n
        /\ \A i \in 1 .. m : q[i] = p[i]
        /\ \A i \in 1 .. n : q[m + i] = b[i]
  <2>1. m = Len(p) /\ n = Len(b)
    BY <1>4, <1>5
  <2>2. /\ p \o b \in Seq(CellType) /\ Len(p \o b) = m + n
        /\ \A i \in 1 .. m : (p \o b)[i] = p[i]
        /\ \A i \in 1 .. n : (p \o b)[m + i] = b[i]
    BY <2>1, Joined
  <2> QED BY <2>2
<1>7. PICK t \in Nat : t = c + n
  OBVIOUS
<1>8. k = [j EXCEPT !.pc = "body", !.consumed = t, !.pend = q]
  BY <1>2, <1>4, <1>5, <1>6, <1>7 DEF Received
<1>9. k \in Job
  <2>1. "body" \in Place
    BY DEF Place
  <2> QED BY ZenonT(60), <1>8, <2>1 DEF Job
<1>10. /\ k.pc = "body" /\ k.path = j.path /\ k.file = j.file /\ k.was = j.was /\ k.ino = j.ino
       /\ k.sent = j.sent /\ k.cl = j.cl /\ k.stack = j.stack /\ k.shared = j.shared
       /\ k.replies = j.replies /\ k.consumed = t /\ k.status = j.status
       /\ k.passed = j.passed /\ k.lost = j.lost /\ k.pend = q /\ k.off = j.off
  BY <1>8 DEF Job
<1>11. Stored(k) = c - m /\ Stored(j) = c - m /\ m <= c
  <2>1. Len(k.pend) = m + n /\ k.consumed = c + n
    BY <1>6, <1>7, <1>10
  <2>2. c + n - (m + n) = c - m
    OBVIOUS
  <2> QED BY SMTT(30), <1>3, <1>4, <2>1, <2>2 DEF Stored, StoreJob
<1>12. Continues(w, k)
  <2>1. k.pc \in Writing /\ 304 \notin ToSet(k.replies)
    BY <1>3, <1>10, EmptyToSet DEF Writing
  <2> QED BY <1>3, <1>10, <1>11, <2>1 DEF Continues
<1>13. StoreJob(w, k)
  <2>1. k.consumed <= Max({req[w].length, 0}) /\ Len(k.pend) <= k.consumed
    <3>1. Max({len, 0}) >= len
      BY MaxOfTwo
    <3>2. Max({len, 0}) \in Int
      BY MaxOfTwo
    <3>3. t <= Max({len, 0})
      BY SMTT(30), <1>2, <1>4, <1>7, <3>1, <3>2
    <3>4. Len(k.pend) = m + n /\ m + n <= t
      BY <1>6, <1>7, <1>10, <1>11
    <3> QED BY <1>4, <1>10, <3>3, <3>4
  <2>2. \A i \in 1 .. Len(k.pend) : k.pend[i] = Cell(w, Stored(k) + i)
    <3> SUFFICES ASSUME NEW i \in 1 .. m + n PROVE q[i] = Cell(w, c - m + i)
      BY <1>6, <1>10, <1>11
    <3>1. CASE i <= m
      <4>1. i \in 1 .. m
        BY <3>1
      <4>2. \A x \in 1 .. Len(j.pend) : j.pend[x] = Cell(w, Stored(j) + x)
        BY <1>3 DEF StoreJob
      <4>3. p[i] = Cell(w, c - m + i)
        BY <1>4, <1>11, <4>1, <4>2
      <4> QED BY <1>6, <4>1, <4>3
    <3>2. CASE i > m
      <4>1. PICK x \in 1 .. n : x = i - m
        BY <3>2
      <4>2. q[m + x] = Cell(w, c + x)
        BY <1>5, <1>6
      <4>3. m + x = i /\ c + x = c - m + i
        BY <4>1
      <4> QED BY <4>2, <4>3
    <3> QED BY <3>1, <3>2
  <2>3. /\ req[w].method = "PUT" /\ k.passed = "put" /\ Inode(k.ino)
        /\ k.status \in IF req[w].range.n > 0 THEN {206} ELSE {200, 201}
        /\ k.replies = <<>> /\ req[w].length >= 0
    <3>1. len >= 0
      BY SMTT(30), <1>2, <1>4
    <3> QED BY <1>1, <1>2, <1>3, <1>4, <1>10, <3>1 DEF StoreJob
  <2>4. ~k.shared /\ ~k.lost /\ req[w].range.n = 0 =>
          LET d == disk[k.ino].data IN
          k.off = Stored(k) /\ Len(d) = Stored(k) /\ \A i \in 1 .. Len(d) : d[i] = Cell(w, i)
    BY <1>1, <1>2, <1>3, <1>10, <1>11 DEF StoreJob
  <2>5. k.pc \notin Putting /\ k.pc \notin {"forward", "close"}
    BY <1>10 DEF Putting
  <2> QED BY <2>1, <2>2, <2>3, <2>4, <2>5 DEF StoreJob
<1> QED BY <1>2, <1>3, <1>4, <1>7, <1>9, <1>10, <1>12, <1>13

LEMMA ForwardInv ==
  ASSUME IInv, NEW w \in Worker, Forward(w)
  PROVE  IInv'
<1>1. job[w].pc = "forward" /\ fs' = fs /\ UNCHANGED World
  BY Zenon DEF Forward, At
<1>2. PICK j \in Job : j = job[w]
  BY JobFacts DEF IInv
<1>3. /\ job[w].pc \in Writing /\ job[w].pc \in {"forward", "body"}
      /\ job[w].pend = <<>> /\ job[w].consumed = 0 /\ job[w].replies = <<>>
  <2>1. StoreJob(w, job[w])
    BY DEF IInv, WorkerInv, StoreInv
  <2> QED BY <1>1, <2>1 DEF StoreJob, Writing
<1>4. Continues(w, j) /\ StoreJob(w, j)
  BY <1>2, <1>3, ContinuesSelf, EmptyToSet
<1>5. ASSUME NEW st \in {411, 417}, job' = [job EXCEPT ![w] = Replied(@, st)], disk' = disk
      PROVE  IInv'
  <2>1. PICK k : k = Replied(j, st)
    OBVIOUS
  <2>2. st \in Nat /\ st \in {200, 201, 206, 411, 417, 577} /\ st \notin {200, 201}
    OBVIOUS
  <2>3. k \in Job /\ Continues(w, k) /\ StoreJob(w, k)
    BY <1>2, <1>3, <1>4, <2>1, <2>2, RepliedInv
  <2>4. job' = [job EXCEPT ![w] = k]
    BY <1>2, <1>5, <2>1
  <2>5. Quiet
    BY <1>1, <1>5 DEF Quiet, Files
  <2> QED BY <2>3, <2>4, <2>5, KeepInv
<1> DEFINE b == [job[w] EXCEPT !.pc = "body", !.consumed = req[w].buffered,
                               !.pend = Body(w, 0, req[w].buffered)]
<1>6. CASE req[w].length # -1 /\ Push(w, b, b)
  <2>1. PICK n \in Nat : n = req[w].buffered /\ n <= req[w].length
    <3>1. /\ req[w].length \in Int /\ req[w].length >= -1 /\ req[w].buffered \in Nat
          /\ req[w].length >= 0 => req[w].buffered <= req[w].length
      BY JobFacts, RequestFacts DEF IInv
    <3>2. req[w].length >= 0
      BY <1>6, <3>1
    <3> QED BY <3>1, <3>2
  <2>2. b = Received(w, n)
    <3>1. 0 + n = n /\ Body(w, 0, n) \in Seq(CellType)
      BY BodyFacts
    <3>2. <<>> \o Body(w, 0, n) = Body(w, 0, n)
      BY <3>1
    <3> QED BY <1>3, <2>1, <3>1, <3>2 DEF Received
  <2>3. 0 + n <= req[w].length /\ job[w].consumed + n <= req[w].length
    BY <1>3, <2>1
  <2>4. b \in Job /\ Continues(w, b) /\ StoreJob(w, b) /\ b.pc = "body"
    <3> HIDE DEF b
    <3> QED BY <1>3, <2>2, <2>3, MoreInv
  <2> HIDE DEF b
  <2> QED BY <1>1, <1>6, <2>4, PushInv
<1>7. \/ \E st \in {411, 417} : job' = [job EXCEPT ![w] = Replied(@, st)] /\ disk' = disk
      \/ req[w].length # -1 /\ Push(w, b, b)
  BY ZenonT(60) DEF Forward
<1> QED BY <1>5, <1>6, <1>7

LEMMA ReceiveInv ==
  ASSUME IInv, NEW w \in Worker, Receive(w)
  PROVE  IInv'
<1>1. job[w].pc = "body" /\ fs' = fs /\ UNCHANGED World
  BY Zenon DEF Receive, At
<1>2. PICK j \in Job : j = job[w]
  BY JobFacts DEF IInv
<1>3. StoreJob(w, job[w])
  BY DEF IInv, WorkerInv, StoreInv
<1>4. job[w].pc \in Writing /\ job[w].pc \in {"forward", "body"} /\ job[w].replies = <<>>
  BY <1>1, <1>3 DEF StoreJob, Writing
<1>5. Continues(w, j) /\ StoreJob(w, j)
  BY <1>2, <1>4, ContinuesSelf, EmptyToSet
<1>6. PICK c \in Nat, len \in Int : c = job[w].consumed /\ len = req[w].length
  BY <1>2, JobFields, JobFacts, RequestFacts DEF IInv
<1>7. ASSUME NEW st \in Nat, st \in {200, 201, 206, 577},
             st \in {200, 201} => c = len /\ req[w].range.n = 0,
             job' = [job EXCEPT ![w] = Replied(job[w], st)], disk' = disk
      PROVE  IInv'
  <2>1. PICK k : k = Replied(j, st)
    OBVIOUS
  <2>2. st \in {200, 201, 206, 411, 417, 577}
    BY <1>7
  <2>3. st \in {200, 201} => j.consumed = req[w].length /\ req[w].range.n = 0
    BY <1>2, <1>6, <1>7
  <2>4. k \in Job /\ Continues(w, k) /\ StoreJob(w, k)
    BY <1>2, <1>4, <1>5, <2>1, <2>2, <2>3, RepliedInv
  <2>5. job' = [job EXCEPT ![w] = k]
    BY <1>2, <1>7, <2>1
  <2>6. Quiet
    BY <1>1, <1>7 DEF Quiet, Files
  <2> QED BY <2>4, <2>5, <2>6, KeepInv
<1>8. CASE len - c = 0 /\ job' = [job EXCEPT ![w] = Replied(job[w], job[w].status)] /\ disk' = disk
  <2>1. PICK st \in Nat : st = job[w].status
    BY <1>2, JobFields
  <2>2. /\ st \in {200, 201, 206, 577}
        /\ st \in {200, 201} => req[w].range.n = 0
    <3>1. req[w].range.n \in 0 .. 2
      BY JobFacts, RequestFacts DEF IInv
    <3>2. st \in IF req[w].range.n > 0 THEN {206} ELSE {200, 201}
      BY <1>3, <1>4, <2>1 DEF StoreJob
    <3>3. CASE req[w].range.n > 0
      BY <3>2, <3>3
    <3>4. CASE ~(req[w].range.n > 0)
      BY <3>1, <3>2, <3>4
    <3> QED BY <3>3, <3>4
  <2>3. c = len
    BY <1>8
  <2>4. st \in {200, 201} => c = len /\ req[w].range.n = 0
    BY <2>2, <2>3
  <2>5. job' = [job EXCEPT ![w] = Replied(job[w], st)] /\ disk' = disk
    BY <1>8, <2>1
  <2>6. st \in {200, 201, 206, 577}
    BY <2>2
  <2> QED BY <1>7, <2>4, <2>5, <2>6, ZenonT(60)
<1>9. CASE job' = [job EXCEPT ![w] = Replied(job[w], 577)] /\ disk' = disk
  <2>1. PICK st \in Nat : st = 577
    OBVIOUS
  <2>2. st \in {200, 201, 206, 577}
    BY <2>1
  <2>3. st \in {200, 201} => c = len /\ req[w].range.n = 0
    BY <2>1
  <2>4. job' = [job EXCEPT ![w] = Replied(job[w], st)] /\ disk' = disk
    BY <1>9, <2>1
  <2> QED BY <1>7, <2>2, <2>3, <2>4, ZenonT(60)
<1>10. ASSUME NEW n \in 1 .. Min({len - c, Chunk}),
              Push(w, [job[w] EXCEPT !.consumed = @ + n,
                                     !.pend = @ \o Body(w, job[w].consumed, job[w].consumed + n)],
                   Replied([job[w] EXCEPT !.consumed = @ + n,
                              !.pend = @ \o Body(w, job[w].consumed, job[w].consumed + n)], 577))
       PROVE  IInv'
  <2> DEFINE m == [job[w] EXCEPT !.consumed = @ + n,
                     !.pend = @ \o Body(w, job[w].consumed, job[w].consumed + n)]
  <2>1. m = Received(w, n)
    <3>1. [job[w] EXCEPT !.pc = "body"] = job[w]
      BY <1>1, <1>2 DEF Job
    <3> QED BY <3>1, <1>1, <1>2 DEF Received, Job
  <2>2. n \in Nat /\ c + n <= len
    <3>1. Chunk \in Int
      BY Bounds
    <3>2. PICK x \in Int : x = len - c
      OBVIOUS
    <3>3. Min({x, Chunk}) = IF x <= Chunk THEN x ELSE Chunk
      BY <3>1, MinOfTwo
    <3>4. PICK y \in Int : y = Min({x, Chunk}) /\ y <= x
      BY <3>1, <3>3
    <3>5. n \in 1 .. y
      BY <3>2, <3>4
    <3> QED BY <3>2, <3>4, <3>5
  <2>3. job[w].consumed + n <= req[w].length
    BY <1>6, <2>2
  <2>4. m \in Job /\ Continues(w, m) /\ StoreJob(w, m) /\ m.pc = "body" /\ m.replies = <<>>
    <3> HIDE DEF m
    <3> QED BY <1>4, <2>1, <2>2, <2>3, MoreInv
  <2>5. PICK f : f = Replied(m, 577)
    OBVIOUS
  <2>6. Push(w, m, f)
    BY <1>10, <2>5
  <2> HIDE DEF m
  <2>7. 577 \in Nat /\ 577 \in {200, 201, 206, 411, 417, 577} /\ 577 \notin {200, 201}
        /\ m.pc \in Writing
    BY <2>4 DEF Writing
  <2>8. f \in Job /\ Continues(w, f) /\ StoreJob(w, f) /\ f.pc = "close"
    BY <2>4, <2>5, <2>7, RepliedInv
  <2> QED BY <1>1, <2>4, <2>6, <2>8, PushInv
<1> QED BY ZenonT(60), <1>6, <1>8, <1>9, <1>10 DEF Receive

LEMMA CloseInv ==
  ASSUME IInv, NEW w \in Worker, Close(w)
  PROVE  IInv'
<1>1. job[w].pc = "close" /\ fs' = fs /\ UNCHANGED World
  BY Zenon DEF Close, At
<1>2. PICK j \in Job : j = job[w]
  BY JobFacts DEF IInv
<1>3. /\ Continues(w, j) /\ StoreJob(w, j) /\ 304 \notin ToSet(j.replies)
  <2>1. StoreJob(w, job[w])
    BY DEF IInv, WorkerInv, StoreInv
  <2>2. 304 \notin ToSet(job[w].replies)
    <3>1. PICK c \in {200, 201, 206, 411, 417, 577} : job[w].replies = <<c>>
      BY <1>1, <2>1 DEF StoreJob
    <3>2. ToSet(<<c>>) = {c}
      BY DEF ToSet
    <3> QED BY <3>1, <3>2
  <2>3. job[w].pc \in Writing
    BY <1>1 DEF Writing
  <2> QED BY <1>2, <2>1, <2>2, <2>3, ContinuesSelf
<1>4. PICK k : k = [job[w] EXCEPT !.pc = "end"]
  OBVIOUS
<1>5. /\ k \in Job /\ k.pc = "end" /\ k.path = j.path /\ k.file = j.file /\ k.was = j.was
      /\ k.ino = j.ino /\ k.sent = j.sent /\ k.cl = j.cl /\ k.stack = j.stack
      /\ k.shared = j.shared /\ k.replies = j.replies /\ k.consumed = j.consumed
      /\ k.pend = j.pend
  <2>1. "end" \in Place
    BY DEF Place
  <2> QED BY <1>2, <1>4, <2>1 DEF Job
<1>6. Stored(k) = Stored(j)
  BY <1>5 DEF Stored
<1>7. Continues(w, k)
  BY <1>3, <1>5, <1>6 DEF Continues
<1>8. StoreJob(w, k)
  <2>1. /\ k.consumed <= Max({req[w].length, 0}) /\ Len(k.pend) <= k.consumed
        /\ \A i \in 1 .. Len(k.pend) : k.pend[i] = Cell(w, Stored(k) + i)
    BY <1>3, <1>5, <1>6 DEF StoreJob
  <2>2. k.pc \notin Putting \cup Writing /\ k.pc \notin {"forward", "body", "close"}
    BY <1>5 DEF Putting, Writing
  <2> QED BY <2>1, <2>2 DEF StoreJob
<1>9. Write(w, k) \/ WriteFails(w, k)
  BY <1>4 DEF Close
<1> QED BY <1>1, <1>5, <1>7, <1>8, <1>9, WriteInv, WriteFailsInv

-----------------------------------------------------------------------------
(* mg_modify_passwords_file, the clock, the clients and the application *)

\* Of n numbers there is one with as many of them below it as one likes.
LEMMA RankExists ==
  ASSUME NEW N \in Nat, NEW K \in SUBSET (1 .. N), NEW n \in 1 .. Cardinality(K)
  PROVE  \E k \in K : Cardinality({j \in K : j < k}) = n - 1
<1> DEFINE B(k) == {j \in K : j < k}
<1>1. IsFiniteSet(1 .. N)
  BY FS_Interval
<1>2. IsFiniteSet(K)
  BY <1>1, FS_Subset
<1>3. PICK c \in Nat : c = Cardinality(K)
  BY <1>2, FS_CardinalityType
<1>4. ASSUME NEW k \in K
      PROVE  IsFiniteSet(B(k)) /\ Cardinality(B(k)) \in Nat /\ Cardinality(B(k)) < c
  <2>1. IsFiniteSet(K \ {k}) /\ Cardinality(K \ {k}) = c - 1
    BY <1>2, <1>3, FS_RemoveElement
  <2>2. B(k) \in SUBSET (K \ {k})
    OBVIOUS
  <2>3. IsFiniteSet(B(k)) /\ Cardinality(B(k)) <= Cardinality(K \ {k})
    BY <2>1, <2>2, FS_Subset
  <2>4. Cardinality(B(k)) \in Nat
    BY <2>3, FS_CardinalityType
  <2> QED BY <2>1, <2>3, <2>4
<1>5. ASSUME NEW a \in K, NEW b \in K, a < b
      PROVE  Cardinality(B(a)) < Cardinality(B(b))
  <2>1. a \notin B(a) /\ B(a) \cup {a} \in SUBSET B(b)
    <3>1. a \in Int /\ b \in Int /\ K \subseteq Int
      OBVIOUS
    <3>2. \A x \in K : x < a => x < b
      BY <1>5, <3>1
    <3>3. ~(a < a)
      BY <3>1
    <3> QED BY <1>5, <3>2, <3>3
  <2>2. Cardinality(B(a) \cup {a}) = Cardinality(B(a)) + 1
    BY <1>4, <2>1, FS_AddElement
  <2>3. Cardinality(B(a) \cup {a}) <= Cardinality(B(b))
    BY <1>4, <2>1, FS_Subset
  <2> QED BY <1>4, <2>2, <2>3
<1> HIDE DEF B
<1> DEFINE f == [k \in K |-> Cardinality(B(k)) + 1]
<1>6. f \in [K -> 1 .. c]
  BY <1>4
<1>7. \A a, b \in K : f[a] = f[b] => a = b
  <2> SUFFICES ASSUME NEW a \in K, NEW b \in K, f[a] = f[b], a # b PROVE FALSE
    OBVIOUS
  <2>1. a < b \/ b < a
    OBVIOUS
  <2>2. Cardinality(B(a)) = Cardinality(B(b))
    BY <1>4
  <2> QED BY <1>4, <1>5, <2>1, <2>2
<1> HIDE DEF f
<1>8. f \in Injection(K, 1 .. c)
  BY <1>6, <1>7, Fun_IsInj
<1>9. IsFiniteSet(1 .. c) /\ Cardinality(1 .. c) = c
  BY FS_Interval
<1>10. f \in Surjection(K, 1 .. c)
  BY <1>3, <1>8, <1>9, FS_Injection
<1>11. PICK k \in K : f[k] = n
  <2>1. \A t \in 1 .. c : \E k \in K : f[k] = t
    BY <1>10, Fun_SurjectionProperties, Zenon
  <2> QED BY <1>3, <2>1
<1>12. Cardinality(B(k)) = n - 1
  BY <1>4, <1>11 DEF f
<1> QED BY <1>12 DEF B

\* The edit of a passwords file.
LEMMA EditFacts ==
  /\ Edit.file \in Path /\ Edit.tmp \in Path /\ Edit.user \in STRING /\ Edit.pass \in Nat
  /\ Edit.user \notin Worker /\ Cell(Edit.user, Edit.pass) \in CellType
<1>1. Edit \in EditType /\ Edit.user \notin Worker
  BY Bounds
<1>2. Edit.file \in Path /\ Edit.tmp \in Path /\ Edit.user \in STRING /\ Edit.pass \in Nat
  BY <1>1 DEF EditType
<1>3. Cell(Edit.user, Edit.pass) \in CellType
  BY <1>2 DEF Cell, CellType
<1> QED BY <1>1, <1>2, <1>3

\* The lines that an edit keeps are lines that there were.
LEMMA KeptFacts ==
  ASSUME NEW lines \in Seq(CellType), NEW s, s = Kept(lines)
  PROVE  s \in Seq(CellType) /\ \A i \in 1 .. Len(s) : \E k \in 1 .. Len(lines) : s[i] = lines[k]
<1> DEFINE keep == {k \in DOMAIN lines : lines[k].by # Edit.user}
<1> DEFINE nth(n) == CHOOSE k \in keep : Cardinality({j \in keep : j < k}) = n - 1
<1>1. s = [n \in 1 .. Cardinality(keep) |-> lines[nth(n)]]
  BY DEF Kept
<1>2. PICK N \in Nat : N = Len(lines) /\ DOMAIN lines = 1 .. N
  BY LenProperties
<1>3. keep \in SUBSET (1 .. N)
  BY <1>2
<1> HIDE DEF keep
<1>4. Cardinality(keep) \in Nat
  <2>1. IsFiniteSet(1 .. N)
    BY FS_Interval
  <2> QED BY <1>3, <2>1, FS_Subset, FS_CardinalityType
<1>5. ASSUME NEW n \in 1 .. Cardinality(keep) PROVE nth(n) \in keep
  <2>1. \E k \in keep : Cardinality({j \in keep : j < k}) = n - 1
    BY <1>2, <1>3, RankExists
  <2> QED BY <2>1
<1> HIDE DEF nth
<1>6. ASSUME NEW n \in 1 .. Cardinality(keep)
      PROVE  lines[nth(n)] \in CellType /\ \E k \in 1 .. Len(lines) : lines[nth(n)] = lines[k]
  <2>1. nth(n) \in 1 .. Len(lines)
    BY <1>2, <1>3, <1>5
  <2>2. lines[nth(n)] \in CellType
    BY <2>1, ElementOfSeq
  <2> QED BY <2>1, <2>2
<1>7. s \in Seq(CellType) /\ Len(s) = Cardinality(keep)
  BY <1>1, <1>4, <1>6
<1> QED BY <1>1, <1>6, <1>7

\* The lines it leaves are old ones, and one of its user.
LEMMA EditedFacts ==
  ASSUME NEW lines \in Seq(CellType), NEW s, s = Edited(lines)
  PROVE  /\ s \in Seq(CellType)
         /\ \A i \in 1 .. Len(s) : \/ s[i] = Cell(Edit.user, Edit.pass) /\ s[i].by = Edit.user
                                 \/ \E k \in 1 .. Len(lines) : s[i] = lines[k]
<1> DEFINE mine == {k \in DOMAIN lines : lines[k].by = Edit.user}
<1>1. PICK new \in CellType : new = Cell(Edit.user, Edit.pass) /\ new.by = Edit.user
  BY EditFacts DEF Cell
<1>2. PICK N \in Nat : N = Len(lines) /\ DOMAIN lines = 1 .. N
  BY LenProperties
<1>3. CASE s = Kept(lines)
  BY <1>3, KeptFacts
<1>4. CASE s = Append(lines, new)
  <2>1. /\ s \in Seq(CellType) /\ Len(s) = N + 1 /\ s[N + 1] = new
        /\ \A i \in 1 .. N : s[i] = lines[i]
    BY <1>2, <1>4, AppendProperties
  <2>2. \A i \in 1 .. N + 1 : i \in 1 .. N \/ i = N + 1
    OBVIOUS
  <2> QED BY <1>1, <1>2, <2>1, <2>2
<1>5. CASE s = [k \in DOMAIN lines |-> IF k \in mine THEN new ELSE lines[k]]
  <2> HIDE DEF mine
  <2>1. \A k \in 1 .. N : lines[k] \in CellType
    BY <1>2, ElementOfSeq
  <2>2. s \in Seq(CellType) /\ Len(s) = N
    BY <1>2, <1>5, <2>1
  <2> QED BY <1>1, <1>2, <1>5, <2>2
<1>6. s = Kept(lines) \/ s = Append(lines, new)
      \/ s = [k \in DOMAIN lines |-> IF k \in mine THEN new ELSE lines[k]]
  <2> HIDE DEF mine
  <2> QED BY <1>1, Zenon DEF Edited, mine
<1> QED BY <1>3, <1>4, <1>5, <1>6

\* A step of the others: the jobs are as before, and at most one file is new.
LEMMA WorldInv ==
  ASSUME IInv, UNCHANGED <<req, job>>, fs' \in [Path -> FileType], FsInv',
         now' \in 0 .. MaxTime, stop' \in BOOLEAN,
         editor' \in {"idle", "created", "copied", "removed", "done", "failed"},
         gone \subseteq gone', gone' \subseteq Worker,
         NEW e \in InodeType, AllPast(e.data), disk' = disk \/ disk' = Append(disk, e)
  PROVE  IInv'
<1>1. /\ TypeInv /\ PastInv /\ SharedInv /\ disk \in Seq(InodeType) /\ Len(disk) \in Nat
      /\ job' = job /\ req' = req
  BY LenProperties DEF IInv, TypeInv
<1>2. /\ disk' \in Seq(InodeType) /\ Len(disk') \in Nat /\ Len(disk) <= Len(disk')
      /\ \A n \in 1 .. Len(disk) : disk'[n] = disk[n]
      /\ \A n \in 1 .. Len(disk') : n \in 1 .. Len(disk) \/ disk'[n] = e
  <2>1. CASE disk' = disk
    BY <1>1, <2>1
  <2>2. CASE disk' = Append(disk, e)
    <3>1. /\ disk' \in Seq(InodeType) /\ Len(disk') = Len(disk) + 1
          /\ disk'[Len(disk) + 1] = e
          /\ \A n \in 1 .. Len(disk) : disk'[n] = disk[n]
      BY <1>1, <2>2, AppendProperties
    <3>2. \A n \in 1 .. Len(disk) + 1 : n \in 1 .. Len(disk) \/ n = Len(disk) + 1
      BY <1>1
    <3> QED BY <1>1, <3>1, <3>2
  <2> QED BY <2>1, <2>2
<1>3. TypeInv'
  BY <1>1, <1>2 DEF TypeInv
<1>4. SharedInv'
  BY <1>1 DEF SharedInv
<1>5. ASSUME NEW v \in Worker PROVE Undisturbed(v)
  <2>1. job[v].pc \in Writing => job[v].ino \in 1 .. Len(disk)
    BY ZenonT(60) DEF IInv, WorkerInv, StoreInv, StoreJob, Inode
  <2>2. v \in gone => v \in gone'
    OBVIOUS
  <2> QED BY <1>1, <1>2, <2>1, <2>2 DEF Undisturbed, Inode
<1>6. ASSUME NEW v \in Worker PROVE Done(v) <= Done(v)'
  <2>1. Done(v)' = Done(v) /\ Done(v) \in Int
    BY <1>1, JobFacts DEF Done, Stored
  <2> QED BY <2>1
<1>7. ASSUME NEW n \in 1 .. Len(disk') PROVE NowPast(disk'[n].data)
  <2>1. CASE n \in 1 .. Len(disk)
    <3>1. disk[n].data \in Seq(CellType) /\ AllPast(disk[n].data)
      BY <1>1, <2>1, DiskFacts DEF PastInv
    <3>2. NowPast(disk[n].data)
      BY <1>1, <1>3, <1>6, <3>1, StillPast
    <3> QED BY <1>2, <2>1, <3>2
  <2>2. CASE disk'[n] = e
    <3>1. e.data \in Seq(CellType)
      BY DEF InodeType
    <3>2. NowPast(e.data)
      BY <1>1, <1>3, <1>6, <3>1, StillPast
    <3> QED BY <2>2, <3>2
  <2> QED BY <1>2, <2>1, <2>2
<1>8. \A v \in Worker : Undisturbed(v) \/ (WorkerInv(v)' /\ job'[v].was = job[v].was)
  BY <1>5
<1> QED BY <1>3, <1>4, <1>6, <1>7, <1>8, StepInv

\* A path is given another file, or none.
LEMMA PathInv ==
  ASSUME IInv, NEW p \in Path, NEW x \in FileType, fs' = [fs EXCEPT ![p] = x],
         Len(disk') \in Nat, Len(disk) <= Len(disk'),
         IF x.kind = "file" THEN x.ino \in 1 .. Len(disk') ELSE x.ino = 0
  PROVE  fs' \in [Path -> FileType] /\ FsInv'
<1>1. fs \in [Path -> FileType] /\ Len(disk) \in Nat
  BY LenProperties DEF IInv, TypeInv
<1>2. fs' \in [Path -> FileType]
  BY <1>1
<1>3. ASSUME NEW q \in Path
      PROVE  IF fs'[q].kind = "file" THEN fs'[q].ino \in 1 .. Len(disk') ELSE fs'[q].ino = 0
  <2>1. CASE q = p
    <3>1. fs'[q] = x
      BY <1>1, <2>1
    <3> QED BY <3>1
  <2>2. CASE q # p
    <3>1. fs'[q] = fs[q]
      BY <1>1, <2>2
    <3>2. /\ fs[q].kind = "file" => fs[q].ino \in 1 .. Len(disk)
          /\ fs[q].kind # "file" => fs[q].ino = 0
      BY FsFacts
    <3>3. 1 .. Len(disk) \subseteq 1 .. Len(disk')
      BY <1>1
    <3> QED BY <3>1, <3>2, <3>3
  <2> QED BY <2>1, <2>2
<1> QED BY <1>2, <1>3 DEF FsInv

\* The same when the file is a new one with contents that were there before.
LEMMA NewFileInv ==
  ASSUME IInv, UNCHANGED <<now, req, job, gone, stop>>, NEW p \in Path,
         NEW l \in {"created", "copied"}, editor' = l,
         NEW e \in InodeType, AllPast(e.data), disk' = Append(disk, e),
         fs' = [fs EXCEPT ![p] = [kind |-> "file", ino |-> Len(disk) + 1]]
  PROVE  IInv'
<1>1. disk \in Seq(InodeType) /\ Len(disk) \in Nat
  BY LenProperties DEF IInv, TypeInv
<1>2. Len(disk') = Len(disk) + 1
  BY <1>1, AppendProperties
<1>3. PICK n \in Nat : n = Len(disk) + 1
  BY <1>1
<1>4. PICK x \in FileType : x = [kind |-> "file", ino |-> n]
  BY DEF FileType
<1>5. n \in 1 .. Len(disk') /\ Len(disk') \in Nat /\ Len(disk) <= Len(disk')
  BY <1>1, <1>2, <1>3
<1>6. fs' \in [Path -> FileType] /\ FsInv'
  <2>1. fs' = [fs EXCEPT ![p] = x]
    BY <1>3, <1>4
  <2>2. IF x.kind = "file" THEN x.ino \in 1 .. Len(disk') ELSE x.ino = 0
    BY <1>4, <1>5
  <2> QED BY <1>5, <2>1, <2>2, PathInv
<1>7. now' \in 0 .. MaxTime /\ stop' \in BOOLEAN /\ gone \subseteq gone' /\ gone' \subseteq Worker
  BY DEF IInv, TypeInv
<1> QED BY <1>6, <1>7, WorldInv

LEMMA EmptyFacts ==
  ASSUME IInv
  PROVE  Empty \in InodeType /\ AllPast(Empty.data)
<1>1. now \in 0 .. MaxTime
  BY DEF IInv, TypeInv
<1>2. <<>> \in Seq(CellType) /\ AllPast(<<>>)
  BY EmptySeq DEF AllPast
<1>3. Empty.data = <<>>
  BY DEF Empty
<1> QED BY <1>1, <1>2, <1>3 DEF Empty, InodeType

\* The steps of mg_modify_passwords_file.
LEMMA CreateInv ==
  ASSUME IInv, Create
  PROVE  IInv'
<1>1. editor' = "created" /\ UNCHANGED <<now, req, job, gone, stop>>
  BY DEF Create
<1>2. PICK e \in InodeType : e = Empty /\ AllPast(e.data)
  BY EmptyFacts
<1>3. CASE UNCHANGED Files
  <2>1. fs' \in [Path -> FileType] /\ FsInv' /\ disk' = disk
    BY <1>3 DEF Files, IInv, TypeInv, FsInv
  <2>2. now' \in 0 .. MaxTime /\ stop' \in BOOLEAN /\ gone \subseteq gone' /\ gone' \subseteq Worker
    BY <1>1 DEF IInv, TypeInv
  <2> QED BY <1>1, <1>2, <2>1, <2>2, WorldInv
<1>4. CASE /\ fs' = [fs EXCEPT ![Edit.file] = [kind |-> "file", ino |-> Len(disk) + 1]]
           /\ disk' = Append(disk, Empty)
  BY <1>1, <1>2, <1>4, EditFacts, NewFileInv
<1> QED BY <1>3, <1>4 DEF Create

LEMMA CopyInv ==
  ASSUME IInv, Copy
  PROVE  IInv'
<1>1. /\ editor' = "copied" /\ UNCHANGED <<now, req, job, gone, stop>> /\ IsFile(Edit.file)
      /\ fs' = [fs EXCEPT ![Edit.tmp] = [kind |-> "file", ino |-> Len(disk) + 1]]
      /\ disk' = Append(disk, [data |-> Edited(Lines(Edit.file)), mtime |-> now])
  BY DEF Copy
<1>2. PICK lines \in Seq(CellType) : lines = Lines(Edit.file) /\ AllPast(lines)
  <2>1. fs[Edit.file].ino \in 1 .. Len(disk)
    BY <1>1, EditFacts, FsFacts DEF IsFile
  <2>2. TypeInv /\ PastInv
    BY DEF IInv
  <2> QED BY <2>1, <2>2, DiskFacts DEF Lines, PastInv
<1>3. PICK s \in Seq(CellType) :
        /\ s = Edited(lines)
        /\ \A i \in 1 .. Len(s) : s[i].by = Edit.user \/ \E k \in 1 .. Len(lines) : s[i] = lines[k]
  <2>1. PICK s : s = Edited(lines)
    OBVIOUS
  <2> QED BY <2>1, EditedFacts
<1>4. AllPast(s)
  <2> SUFFICES ASSUME NEW i \in 1 .. Len(s), NEW v \in Worker, s[i].by = v
               PROVE  s[i].k <= Done(v)
    BY DEF AllPast, Past
  <2>1. s[i].by # Edit.user
    BY EditFacts
  <2>2. PICK k \in 1 .. Len(lines) : s[i] = lines[k]
    BY <1>3, <2>1
  <2> QED BY <1>2, <2>2 DEF AllPast, Past
<1>5. PICK e \in InodeType : e = [data |-> s, mtime |-> now] /\ e.data = s
  <2>1. PICK t \in 0 .. MaxTime : t = now
    BY DEF IInv, TypeInv
  <2>2. [data |-> s, mtime |-> t] \in InodeType /\ [data |-> s, mtime |-> t].data = s
    BY DEF InodeType
  <2> QED BY <2>1, <2>2
<1>6. disk' = Append(disk, e) /\ AllPast(e.data)
  BY <1>1, <1>2, <1>3, <1>4, <1>5
<1> QED BY <1>1, <1>6, EditFacts, NewFileInv

\* A step that writes no file and reads none.
LEMMA AsideInv ==
  ASSUME IInv, UNCHANGED <<disk, req, job>>, fs' \in [Path -> FileType], FsInv',
         now' \in 0 .. MaxTime, stop' \in BOOLEAN,
         editor' \in {"idle", "created", "copied", "removed", "done", "failed"},
         gone \subseteq gone', gone' \subseteq Worker
  PROVE  IInv'
<1>1. PICK e \in InodeType : AllPast(e.data)
  BY EmptyFacts
<1> QED BY <1>1, WorldInv

LEMMA EditorInv ==
  ASSUME IInv, ModifyPasswords
  PROVE  IInv'
<1>1. /\ fs \in [Path -> FileType] /\ Len(disk) \in Nat
      /\ now \in 0 .. MaxTime /\ stop \in BOOLEAN /\ gone \subseteq Worker
  BY LenProperties DEF IInv, TypeInv
<1>2. CASE CopyFails
  <2>1. /\ UNCHANGED <<fs, disk, now, req, job, gone, stop>> /\ editor' = "failed"
    BY <1>2 DEF CopyFails, Files
  <2>2. fs' \in [Path -> FileType] /\ FsInv'
    BY <1>1, <2>1 DEF IInv, FsInv
  <2> QED BY <1>1, <2>1, <2>2, AsideInv
<1>3. PICK x \in FileType : x = [kind |-> "none", ino |-> 0]
  BY DEF FileType
<1>4. CASE RemoveOld
  <2>1. /\ UNCHANGED <<disk, now, req, job, gone, stop>> /\ editor' = "removed"
        /\ fs' = [fs EXCEPT ![Edit.file] = x]
    BY <1>3, <1>4 DEF RemoveOld
  <2>2. fs' \in [Path -> FileType] /\ FsInv'
    <3>1. IF x.kind = "file" THEN x.ino \in 1 .. Len(disk') ELSE x.ino = 0
      BY <1>3
    <3>2. Len(disk') \in Nat /\ Len(disk) <= Len(disk')
      BY <1>1, <2>1
    <3> QED BY <2>1, <3>1, <3>2, EditFacts, PathInv
  <2> QED BY <1>1, <2>1, <2>2, AsideInv
<1>5. CASE Rename
  <2>1. /\ UNCHANGED <<disk, now, req, job, gone, stop>> /\ editor' = "done"
        /\ fs' = [fs EXCEPT ![Edit.file] = fs[Edit.tmp], ![Edit.tmp] = x]
    BY <1>3, <1>5 DEF Rename
  <2>2. PICK y \in FileType : y = fs[Edit.tmp]
    BY <1>1, EditFacts
  <2>3. fs' \in [Path -> FileType]
    BY <1>1, <2>1, <2>2, EditFacts
  <2>4. ASSUME NEW q \in Path
        PROVE  IF fs'[q].kind = "file" THEN fs'[q].ino \in 1 .. Len(disk') ELSE fs'[q].ino = 0
    <3>1. \E p \in Path : fs'[q] = x \/ fs'[q] = fs[p]
      BY <1>1, <2>1, <2>2, EditFacts
    <3>2. PICK p \in Path : fs'[q] = x \/ fs'[q] = fs[p]
      BY <3>1
    <3>3. /\ fs[p].kind = "file" => fs[p].ino \in 1 .. Len(disk)
          /\ fs[p].kind # "file" => fs[p].ino = 0
      BY FsFacts
    <3>4. x.kind = "none" /\ x.ino = 0 /\ disk' = disk
      BY <1>3, <2>1
    <3> QED BY <3>2, <3>3, <3>4
  <2>5. FsInv'
    BY <2>4 DEF FsInv
  <2> QED BY <1>1, <2>1, <2>3, <2>5, AsideInv
<1> QED BY <1>2, <1>4, <1>5, CreateInv, CopyInv DEF ModifyPasswords

\* The clock, the clients that leave and mg_stop.
LEMMA OutsideInv ==
  ASSUME IInv, Tick \/ Stop \/ \E w \in Worker : Leave(w)
  PROVE  IInv'
<1>1. /\ fs \in [Path -> FileType] /\ FsInv /\ MaxTime \in Nat
      /\ now \in 0 .. MaxTime /\ stop \in BOOLEAN /\ gone \subseteq Worker
      /\ editor \in {"idle", "created", "copied", "removed", "done", "failed"}
  BY Bounds DEF IInv, TypeInv
<1>2. UNCHANGED <<fs, disk, req, job, editor>>
  BY DEF Tick, Stop, Leave, Files
<1>3. now' \in 0 .. MaxTime
  <2>1. CASE now' = now
    BY <1>1, <2>1
  <2>2. CASE now < MaxTime /\ now' = now + 1
    BY <1>1, <2>2
  <2> QED BY <2>1, <2>2 DEF Tick, Stop, Leave
<1>4. stop' \in BOOLEAN /\ gone \subseteq gone' /\ gone' \subseteq Worker
  BY <1>1 DEF Tick, Stop, Leave
<1>5. fs' \in [Path -> FileType] /\ FsInv'
  BY <1>1, <1>2 DEF FsInv
<1> QED BY <1>1, <1>2, <1>3, <1>4, <1>5, AsideInv

-----------------------------------------------------------------------------
(* The invariant *)

Job0 ==
  [pc |-> "idle", path |-> <<>>, file |-> NoFile, passed |-> "no", gap |-> FALSE,
   ino |-> 0, off |-> 0, left |-> 0, cl |-> 0, sent |-> <<>>, names |-> {},
   replies |-> <<>>, status |-> 0, depth |-> 1, pend |-> <<>>, consumed |-> 0,
   stack |-> <<>>, was |-> <<>>, lost |-> FALSE, shared |-> FALSE]

\* A job to begin with.
LEMMA Job0Facts ==
  /\ Job0 \in Job
  /\ Job0.pc = "idle" /\ Job0.file.size = 0 /\ Job0.ino = 0 /\ Job0.cl = 0 /\ Job0.sent = <<>>
  /\ Job0.replies = <<>> /\ Job0.pend = <<>> /\ Job0.consumed = 0 /\ Job0.stack = <<>>
  /\ Job0.was = <<>> /\ Job0.lost = FALSE /\ Job0.shared = FALSE
<1>1. NoFile \in FileInfo /\ NoFile.size = 0
  BY DEF NoFile, FileInfo
<1>2. <<>> \in Seq(CellType) /\ <<>> \in Seq(Nat) /\ <<>> \in Seq(FrameType)
  BY EmptySeq
<1>3. "idle" \in Place
  BY DEF Place
<1>4. Job0.file = NoFile
  BY DEF Job0
<1> QED BY <1>1, <1>2, <1>3, <1>4 DEF Job0, Job

\* The invariant holds at first.
LEMMA InitInv ==
  ASSUME Init
  PROVE  IInv
<1>1. /\ fs = InitialFs /\ disk = InitialDisk /\ now = 1 /\ editor = "idle"
      /\ gone = {} /\ stop = FALSE /\ job = [w \in Worker |-> Job0]
      /\ req \in [Worker -> UNION {Request[w] : w \in Worker}]
      /\ \A w \in Worker : req[w] \in Request[w]
  BY Zenon DEF Init, Job0
<1>2. /\ InitialFs \in [Path -> FileType] /\ InitialDisk \in Seq(InodeType)
      /\ MaxTime \in Nat \ {0}
  BY FilesAssumption DEF FilesAssumption
<1>3. ASSUME NEW w \in Worker PROVE req[w] \in RequestType
  BY <1>1, RequestFacts
<1>4. TypeInv
  <2>1. req \in [Worker -> RequestType]
    BY <1>1, <1>3
  <2>2. job \in [Worker -> Job]
    BY <1>1, Job0Facts
  <2>3. now \in 0 .. MaxTime
    BY <1>1, <1>2
  <2> QED BY <1>1, <1>2, <2>1, <2>2, <2>3 DEF TypeInv
<1>5. FsInv
  <2> SUFFICES ASSUME NEW p \in Path
               PROVE  IF fs[p].kind = "file" THEN fs[p].ino \in 1 .. Len(disk)
                                             ELSE fs[p].ino = 0
    BY DEF FsInv
  <2>1. InitialFs[p].ino \in IF InitialFs[p].kind = "file" THEN DOMAIN InitialDisk ELSE {0}
    BY FilesAssumption DEF FilesAssumption
  <2>2. DOMAIN InitialDisk = 1 .. Len(InitialDisk)
    BY <1>2, LenProperties
  <2> QED BY <1>1, <2>1, <2>2
<1>6. \A w \in Worker : job[w] = Job0
  BY <1>1
<1>7. SharedInv
  BY <1>6, Job0Facts DEF SharedInv, Writing
<1>8. PastInv
  <2>1. ASSUME NEW n \in 1 .. Len(disk) PROVE AllPast(disk[n].data)
    <3>1. n \in DOMAIN InitialDisk
      BY <1>1, <1>2, LenProperties
    <3>2. disk[n].data \in Seq(CellType)
      BY <1>4, DiskFacts
    <3>3. \A i \in 1 .. Len(disk[n].data) : disk[n].data[i].by \notin Worker
      <4>1. \A i \in DOMAIN InitialDisk[n].data : InitialDisk[n].data[i].by \notin Worker
        BY <3>1, FilesAssumption DEF FilesAssumption
      <4>2. DOMAIN disk[n].data = 1 .. Len(disk[n].data)
        BY <3>2, LenProperties
      <4> QED BY <1>1, <4>1, <4>2
    <3> QED BY <3>3 DEF AllPast, Past
  <2>2. ASSUME NEW w \in Worker PROVE AllPast(job[w].was)
    <3>1. job[w].was = <<>> /\ Len(<<>>) = 0 /\ \A i \in 1 .. 0 : FALSE
      BY <1>6, Job0Facts, EmptySeq
    <3> QED BY <3>1 DEF AllPast
  <2> QED BY <2>1, <2>2 DEF PastInv
<1>9. ASSUME NEW w \in Worker PROVE WorkerInv(w)
  <2>1. /\ job[w].pc = "idle" /\ job[w].file.size = 0 /\ job[w].ino = 0 /\ job[w].cl = 0
        /\ job[w].sent = <<>> /\ job[w].replies = <<>> /\ job[w].pend = <<>>
        /\ job[w].consumed = 0 /\ job[w].stack = <<>> /\ job[w].was = <<>>
        /\ ~job[w].lost /\ ~job[w].shared
    BY <1>6, Job0Facts
  <2>2. Len(<<>>) = 0 /\ \A i \in 1 .. 0 : FALSE
    BY EmptySeq
  <2>3. PICK n \in Int : n = req[w].length
    BY <1>1, RequestFacts
  <2>4. Max({n, 0}) >= 0
    BY MaxOfTwo
  <2>5. Max({0, 0}) = 0
    BY MaxOfTwo
  <2>6. job[w].pc \notin Putting \cup Writing
    BY <2>1 DEF Putting, Writing
  <2>7. PlaceInv(w)
    BY <2>1, <2>2, EmptyToSet DEF PlaceInv
  <2>8. SentInv(w)
    BY <2>1, <2>2, <2>5 DEF SentInv
  <2>9. StoreInv(w)
    BY <2>1, <2>2, <2>3, <2>4, <2>6 DEF StoreInv, StoreJob
  <2>10. StackInv(w)
    BY <2>1, <2>2 DEF StackInv, Frames
  <2>11. OnDisk(w)
    BY <2>1 DEF OnDisk, NoneOrInode
  <2> QED BY <2>7, <2>8, <2>9, <2>10, <2>11 DEF WorkerInv
<1> QED BY <1>4, <1>5, <1>7, <1>8, <1>9 DEF IInv

\* Every step keeps the invariant.
LEMMA NextInv ==
  ASSUME IInv, [Next]_vars
  PROVE  IInv'
<1>1. ASSUME NEW w \in Worker, Handle(w) PROVE IInv'
  BY <1>1, ConvertInv, AuthorizeInv, ChangeInv, DispatchInv, ScanInv, OpenInv, SendInv,
     PutDirInv, MkDirInv, PutOpenInv, ForwardInv, ReceiveInv, CloseInv, OpenSsiInv, SsiInv
     DEF Handle
<1>2. CASE Tick \/ Stop \/ \E w \in Worker : Leave(w)
  BY <1>2, OutsideInv
<1>3. CASE ModifyPasswords
  BY <1>3, EditorInv
<1>4. CASE UNCHANGED vars
  <2>1. /\ UNCHANGED <<disk, req, job>> /\ fs' \in [Path -> FileType] /\ FsInv'
        /\ now' \in 0 .. MaxTime /\ stop' \in BOOLEAN
        /\ editor' \in {"idle", "created", "copied", "removed", "done", "failed"}
        /\ gone \subseteq gone' /\ gone' \subseteq Worker
    BY <1>4 DEF vars, IInv, TypeInv, FsInv
  <2> QED BY <2>1, AsideInv
<1> QED BY <1>1, <1>2, <1>3, <1>4 DEF Next

\* Every state there can be has a job, a disk and bodies as described above.
THEOREM Invariance == Spec => []IInv
<1>1. Init => IInv
  BY InitInv
<1>2. IInv /\ [Next]_vars => IInv'
  BY NextInv
<1> QED BY <1>1, <1>2, PTL DEF Spec

\* Every variable has its type, and send_ssi_file is never deeper than its
\* limit allows.
THEOREM TypeCorrect == Spec => []TypeOK
<1>1. ASSUME IInv PROVE TypeOK
  <2>1. TypeInv /\ FsInv /\ disk \in Seq(InodeType) /\ Len(disk) \in Nat
        /\ DOMAIN disk = 1 .. Len(disk)
    BY <1>1, LenProperties DEF IInv, TypeInv
  <2>2. ASSUME NEW p \in Path
        PROVE  /\ fs[p].kind \in {"none", "dir", "file"}
               /\ fs[p].kind = "file" => fs[p].ino \in DOMAIN disk
    BY <1>1, <2>1, FsFacts
  <2>3. ASSUME NEW k \in DOMAIN disk PROVE disk[k].mtime \in 0 .. MaxTime
    <3>1. disk[k] \in InodeType
      BY <2>1, ElementOfSeq
    <3> QED BY <3>1 DEF InodeType
  <2>4. ASSUME NEW w \in Worker
        PROVE  /\ job[w].pc \in Place
               /\ job[w].path \in Path \cup {<<>>}
               /\ job[w].ino \in 0 .. Len(disk)
               /\ job[w].consumed \in 0 .. Max({req[w].length, 0})
               /\ \A k \in DOMAIN job[w].stack : job[w].stack[k].level <= MaxLevel
               /\ Len(job[w].stack) <= MaxLevel + 2
    <3>1. job[w] \in Job /\ WorkerInv(w)
      BY <1>1, <2>1, JobFacts DEF IInv
    <3>2. job[w].pc \in Place /\ job[w].path \in Path \cup {<<>>} /\ job[w].ino \in Nat
          /\ job[w].consumed \in Nat /\ job[w].stack \in Seq(FrameType)
          /\ Len(job[w].stack) \in Nat
      BY <3>1, JobFields
    <3>3. PICK n \in Nat : n = Len(job[w].stack)
      BY <3>2
    <3>4. DOMAIN job[w].stack = 1 .. n
      BY <3>2, <3>3, LenProperties
    <3>5. \A k \in DOMAIN job[w].stack : job[w].stack[k].level <= MaxLevel
      BY <3>1, <3>3, <3>4 DEF WorkerInv, StackInv, Frames
    <3>6. n <= MaxLevel + 2
      <4>1. MaxLevel \in Nat
        BY Bounds
      <4>2. CASE n = 0
        BY <4>1, <4>2
      <4>3. CASE n # 0
        <5>1. n \in 1 .. n
          BY <4>3
        <5>2. job[w].stack[n] \in FrameType
          BY <3>2, <3>3, <5>1, ElementOfSeq
        <5>3. PICK l \in Nat : l = job[w].stack[n].level
          BY <5>2 DEF FrameType
        <5>4. l <= MaxLevel /\ (l = n - 1 \/ l = n - 2)
          BY <3>1, <3>3, <5>1, <5>3 DEF WorkerInv, StackInv, Frames
        <5> QED BY <4>1, <5>4
      <4> QED BY <4>2, <4>3
    <3>7. job[w].ino \in 0 .. Len(disk)
      BY <2>1, <3>1, <3>2 DEF WorkerInv, OnDisk, NoneOrInode, Inode
    <3>8. job[w].consumed \in 0 .. Max({req[w].length, 0})
      <4>1. PICK x \in Int : x = Max({req[w].length, 0})
        <5>1. PICK m \in Int : m = req[w].length
          BY <2>1, JobFacts, RequestFacts
        <5>2. Max({m, 0}) \in Int
          BY MaxOfTwo
        <5> QED BY <5>1, <5>2
      <4>2. job[w].consumed <= x
        BY <3>1, <4>1 DEF WorkerInv, StoreInv, StoreJob
      <4> QED BY <3>2, <4>1, <4>2
    <3> QED BY <3>2, <3>3, <3>5, <3>6, <3>7, <3>8
  <2> QED BY <1>1, <2>1, <2>2, <2>3, <2>4 DEF TypeOK, TypeInv
<1> QED BY <1>1, Invariance, PTL
-----------------------------------------------------------------------------
(* What a GET is sent *)

\* Bytes of a file from some place on, as many as were to be sent, or as many
\* as there are: they are that part of the file.
LEMMA PartFacts ==
  ASSUME NEW s \in Seq(CellType), NEW was \in Seq(CellType), NEW from \in Nat, NEW n \in Nat,
         from + n <= Len(was), Len(s) <= n,
         \A i \in 1 .. Len(s) : from + i <= Len(was) /\ s[i] = was[from + i],
         Len(s) >= n \/ Len(was) <= from + Len(s)
  PROVE  /\ Len(s) = n
         /\ s = SubSeq(was, from + 1, from + n)
         /\ from = 0 /\ n = Len(was) => s = was
<1>1. Len(s) = n /\ Len(was) \in Nat
  BY LenProperties
<1>2. /\ SubSeq(was, from + 1, from + n) \in Seq(CellType)
      /\ Len(SubSeq(was, from + 1, from + n)) = n
      /\ \A i \in 1 .. n : SubSeq(was, from + 1, from + n)[i] = was[from + i]
  <2>1. \A i \in from + 1 .. from + n : was[i] \in CellType
    BY <1>1, ElementOfSeq
  <2>2. /\ SubSeq(was, from + 1, from + n) \in Seq(CellType)
        /\ Len(SubSeq(was, from + 1, from + n)) =
             IF from + 1 <= from + n THEN from + n - (from + 1) + 1 ELSE 0
        /\ \A i \in 1 .. from + n - (from + 1) + 1 :
             SubSeq(was, from + 1, from + n)[i] = was[from + 1 + i - 1]
    BY <2>1, SubSeqProperties
  <2>3. /\ from + n - (from + 1) + 1 = n
        /\ (IF from + 1 <= from + n THEN from + n - (from + 1) + 1 ELSE 0) = n
        /\ \A i \in 1 .. n : from + 1 + i - 1 = from + i
    OBVIOUS
  <2> QED BY <2>2, <2>3
<1>3. s = SubSeq(was, from + 1, from + n)
  BY <1>1, <1>2, SeqEqual
<1>4. from = 0 /\ n = Len(was) => s = was
  <2> SUFFICES ASSUME from = 0, n = Len(was) PROVE s = was
    OBVIOUS
  <2>1. \A i \in 1 .. Len(s) : s[i] = was[i]
    BY <1>1
  <2> QED BY <1>1, <2>1, SeqEqual
<1> QED BY <1>1, <1>3, <1>4

\* How much is to be sent of a file that the range lies within, and from where.
LEMMA LengthWithin ==
  ASSUME NEW r, r.range.n \in 0 .. 2, r.range.r1 \in Int, r.range.r2 \in Int, NEW size \in Nat,
         r.range.n < 2 => r.range.r2 = 0
  PROVE  /\ Ranged(r) /\ r.range.r1 <= r.range.r2 /\ r.range.r2 < size =>
              /\ Seek(r) = r.range.r1 /\ Seek(r) \in Nat
              /\ ContentLength(r, size) = r.range.r2 - r.range.r1 + 1
         /\ ~Ranged(r) => ContentLength(r, size) = size
         /\ ~Ranged(r) /\ r.range.r1 <= 0 => Seek(r) = 0
<1>1. PICK n \in 0 .. 2, a \in Int, z \in Int : n = r.range.n /\ a = r.range.r1 /\ z = r.range.r2
  OBVIOUS
<1>2. Max({a, 0}) = IF a >= 0 THEN a ELSE 0
  BY MaxOfTwo
<1>3. Min({z, size}) = IF z <= size THEN z ELSE size
  BY MinOfTwo
<1>4. n < 2 => z = 0
  BY <1>1
<1>5. Ranged(r) <=> n > 0 /\ a >= 0 /\ z > 0
  BY <1>1 DEF Ranged
<1>6. Ranged(r) => n = 2
  BY <1>4, <1>5
<1>7. ~Ranged(r) => ContentLength(r, size) = size
  BY DEF ContentLength
<1>8. Ranged(r) => ContentLength(r, size) = Min({z, size}) - a + 1
  BY <1>1, <1>6 DEF ContentLength
<1>9. Seek(r) = Max({a, 0})
  BY <1>1 DEF Seek
<1> QED BY <1>1, <1>2, <1>3, <1>5, <1>7, <1>8, <1>9

\* What a GET makes of a file: the bytes of it that were asked for, as many as
\* were announced, unless the file was changed or the client left; and 304
\* only for a file whose time and size are those the client knows.
THEOREM GetsAreTrue == Spec => []GetIsTrue
<1>1. ASSUME IInv PROVE GotFile
  <2> SUFFICES ASSUME NEW w \in Worker
               PROVE  LET j == job[w]  r == req[w] IN
                      /\ Len(j.sent) <= Max({j.cl, 0}) \/ j.path \in Config.ssi
                      /\ /\ Ended(w) /\ j.ino # 0 /\ r.method = "GET" /\ w \notin gone
                         /\ disk[j.ino].data = j.was
                         /\ IF Ranged(r)
                            THEN r.range.r1 <= r.range.r2 /\ r.range.r2 < Len(j.was)
                            ELSE r.range.r1 <= 0
                         => /\ Len(j.sent) = j.cl
                            /\ j.sent = IF Ranged(r)
                                        THEN SubSeq(j.was, r.range.r1 + 1, r.range.r2 + 1)
                                        ELSE j.was
    BY DEF GotFile
  <2> DEFINE j == job[w]
  <2> DEFINE r == req[w]
  <2>1. /\ SentInv(w) /\ j.file.size = Len(j.was) /\ j \in Job /\ r \in Request[w]
    BY <1>1, JobFacts DEF IInv, WorkerInv, PlaceInv
  <2>2. /\ j.sent \in Seq(CellType) /\ j.was \in Seq(CellType)
        /\ Len(j.sent) \in Nat /\ Len(j.was) \in Nat /\ j.cl \in Int
    BY <2>1, JobFields
  <2>3. Len(j.sent) <= Max({j.cl, 0}) \/ j.path \in Config.ssi
    BY <2>1 DEF SentInv
  <2>4. ASSUME Ended(w), j.ino # 0, r.method = "GET", w \notin gone, disk[j.ino].data = j.was,
               IF Ranged(r) THEN r.range.r1 <= r.range.r2 /\ r.range.r2 < Len(j.was)
                            ELSE r.range.r1 <= 0
        PROVE  /\ Len(j.sent) = j.cl
               /\ j.sent = IF Ranged(r) THEN SubSeq(j.was, r.range.r1 + 1, r.range.r2 + 1)
                                        ELSE j.was
    <3>1. Sent(w)
      BY <2>1, <2>4 DEF SentInv, Ended
    <3>2. PICK s \in Seq(CellType), was \in Seq(CellType), cl \in Int, size \in Nat :
            s = j.sent /\ was = j.was /\ cl = j.cl /\ size = Len(was)
      BY <2>2
    <3>3. /\ r.range.n \in 0 .. 2 /\ r.range.r1 \in Int /\ r.range.r2 \in Int
          /\ r.range.n < 2 => r.range.r2 = 0
      BY <2>1, RequestFacts
    <3>4. PICK a \in Int, z \in Int : a = r.range.r1 /\ z = r.range.r2
      BY <3>3
    <3>5. cl = ContentLength(r, size) /\ Len(s) <= Max({cl, 0})
      BY <2>1, <3>1, <3>2 DEF Sent
    <3>6. Max({cl, 0}) = IF cl >= 0 THEN cl ELSE 0
      BY MaxOfTwo
    <3>7. was # <<>> =>
            /\ \A i \in 1 .. Len(s) : Seek(r) + i <= Len(was) /\ s[i] = was[Seek(r) + i]
            /\ Len(s) >= cl \/ Len(was) <= Seek(r) + Len(s)
      <4>1. was # <<>> => Same(w)
        BY SMTT(30), <2>4, <3>1, <3>2 DEF Same, Sent
      <4> QED BY <2>4, <3>1, <3>2, <4>1 DEF Sent, FromFile
    <3>8. CASE Ranged(r)
      <4>1. a <= z /\ z < size /\ a >= 0
        BY <2>4, <3>2, <3>4, <3>8 DEF Ranged
      <4>2. Seek(r) = a /\ a \in Nat /\ cl = z - a + 1
        BY <3>3, <3>4, <3>5, <3>8, <4>1, LengthWithin
      <4>3. was # <<>> /\ Len(s) \in Nat
        BY <3>2, <4>1, LenProperties, EmptySeq
      <4>4. cl \in Nat /\ a + cl <= Len(was) /\ Len(s) <= cl /\ a + cl = z + 1
        BY <3>2, <3>5, <3>6, <4>1, <4>2, <4>3
      <4>5. Len(s) = cl /\ s = SubSeq(was, a + 1, a + cl)
        BY <3>7, <4>2, <4>3, <4>4, PartFacts
      <4> QED BY <3>2, <3>4, <3>8, <4>4, <4>5
    <3>9. CASE ~Ranged(r)
      <4>1. Seek(r) = 0 /\ cl = size
        BY <2>4, <3>3, <3>5, <3>9, LengthWithin
      <4>2. Len(s) \in Nat /\ Len(s) <= cl
        BY <3>5, <3>6, <4>1, LenProperties
      <4>3. Len(s) = cl /\ s = was
        <5>1. CASE was = <<>>
          <6>1. size = 0
            BY <3>2, <5>1, EmptySeq
          <6>2. Len(s) = 0
            BY <4>1, <4>2, <6>1
          <6> QED BY <4>1, <5>1, <6>1, <6>2, EmptySeq
        <5>2. CASE was # <<>>
          <6>1. 0 \in Nat /\ cl \in Nat /\ 0 + cl <= Len(was) /\ 0 = 0 /\ cl = Len(was)
            BY <3>2, <4>1
          <6>2. /\ \A i \in 1 .. Len(s) : 0 + i <= Len(was) /\ s[i] = was[0 + i]
                /\ Len(s) >= cl \/ Len(was) <= 0 + Len(s)
            BY <3>7, <4>1, <5>2
          <6> QED BY <4>2, <6>1, <6>2, PartFacts
        <5> QED BY <5>1, <5>2
      <4> QED BY <3>2, <3>9, <4>3
    <3> QED BY <3>8, <3>9
  <2> QED BY <2>3, <2>4
<1>2. ASSUME IInv PROVE NotModified
  <2> SUFFICES ASSUME NEW w \in Worker, 304 \in ToSet(job[w].replies), req[w].ims = 0,
                      NEW old \in {Before(job[w].path)}, NEW time,
                      req[w].inm = [mtime |-> time, size |-> Len(old)]
               PROVE  Len(job[w].was) = Len(old) /\ job[w].file.mtime = req[w].inm.mtime
    BY DEF NotModified
  <2>1. /\ job[w].file.mtime # 0 /\ IsNotModified(req[w], job[w].file)
        /\ job[w].file.size = Len(job[w].was) /\ job[w] \in Job
    BY <1>2, JobFacts DEF IInv, WorkerInv, PlaceInv
  <2>2. PICK f \in FileInfo : f = job[w].file
    BY <2>1, JobFields
  <2>3. f.mtime \in Nat
    BY DEF FileInfo
  <2>4. ~(f.mtime <= req[w].ims)
    BY <2>1, <2>2, <2>3
  <2>5. req[w].inm = [mtime |-> f.mtime, size |-> f.size]
    BY <2>1, <2>2, <2>4 DEF IsNotModified, Etag
  <2> QED BY <2>1, <2>2, <2>5
<1> QED BY <1>1, <1>2, Invariance, PTL DEF GetIsTrue

\* A step of one worker is not one of another, but that who opens a file to
\* write tells those who write to it already.
Others(v) ==
  \A w \in Worker \ {v} :
    /\ job'[w].pc = job[w].pc /\ job'[w].path = job[w].path /\ job'[w].ino = job[w].ino
    /\ job'[w].passed = job[w].passed /\ job'[w].depth = job[w].depth
    /\ job'[w].file = job[w].file /\ job'[w].gap = job[w].gap /\ job'[w].names = job[w].names
    /\ job'[w].sent = job[w].sent /\ job'[w].replies = job[w].replies

\* A step of a worker leaves the jobs of the others alone.
LEMMA OthersStay ==
  ASSUME TypeInv, NEW v \in Worker, Handle(v)
  PROVE  Others(v)
<1> SUFFICES ASSUME NEW w \in Worker \ {v}
             PROVE  job'[w] = job[w] \/ job'[w] = [job[w] EXCEPT !.shared = TRUE]
  <2>1. ASSUME NEW j \in Job, NEW k, k = j \/ k = [j EXCEPT !.shared = TRUE]
        PROVE  k.pc = j.pc /\ k.path = j.path /\ k.ino = j.ino /\ k.passed = j.passed
               /\ k.depth = j.depth /\ k.file = j.file /\ k.gap = j.gap /\ k.names = j.names
               /\ k.sent = j.sent /\ k.replies = j.replies
    BY <2>1 DEF Job
  <2>2. \A w \in Worker : job[w] \in Job
    BY DEF TypeInv
  <2>3. ASSUME NEW w \in Worker \ {v},
               job'[w] = job[w] \/ job'[w] = [job[w] EXCEPT !.shared = TRUE]
        PROVE  /\ job'[w].pc = job[w].pc /\ job'[w].path = job[w].path
               /\ job'[w].ino = job[w].ino /\ job'[w].passed = job[w].passed
               /\ job'[w].depth = job[w].depth /\ job'[w].file = job[w].file
               /\ job'[w].gap = job[w].gap /\ job'[w].names = job[w].names
               /\ job'[w].sent = job[w].sent /\ job'[w].replies = job[w].replies
    <3> HIDE DEF Job
    <3>1. PICK j \in Job : j = job[w]
      BY <2>2
    <3>2. PICK k : k = job'[w]
      OBVIOUS
    <3>3. k = j \/ k = [j EXCEPT !.shared = TRUE]
      BY <2>3, <3>1, <3>2
    <3> QED BY <2>1, <3>1, <3>2, <3>3
  <2> QED BY Zenon, <2>3 DEF Others
<1>1. job \in [Worker -> Job] /\ w # v
  BY DEF TypeInv
<1> HIDE DEF Job
<1>2. \A s : Answer(v, s) => job'[w] = job[w]
  BY <1>1 DEF Answer
<1>3. \A s : Goto(v, s) => job'[w] = job[w]
  BY SMTT(30), <1>1 DEF Goto
<1>4. CASE Convert(v)
  BY Zenon, <1>1, <1>4 DEF Convert
<1>5. CASE Authorize(v)
  BY <1>1, <1>2, <1>3, <1>5 DEF Authorize
<1>6. CASE Change(v)
  BY <1>1, <1>2, <1>6 DEF Change, Delete
<1>7. CASE Dispatch(v)
  <2>1. \A p, f, was : ServeFile(v, p, f, was) => job'[w] = job[w]
    BY <1>1, <1>2 DEF ServeFile
  <2> QED BY <1>2, <1>3, <1>7, <2>1 DEF Dispatch
<1>8. CASE Scan(v)
  BY <1>1, <1>2, <1>8 DEF Scan
<1>9. CASE Open(v)
  BY <1>1, <1>2, <1>9 DEF Open
<1>10. CASE Send(v)
  BY <1>1, <1>3, <1>10 DEF Send
<1>11. CASE PutDir(v)
  BY <1>1, <1>2, <1>3, <1>11 DEF PutDir
<1>12. CASE MkDir(v)
  BY SMTT(30), <1>1, <1>2, <1>12 DEF MkDir
<1>13. CASE PutOpen(v)
  BY Zenon, <1>1, <1>2, <1>13 DEF PutOpen
<1>14. \A j, f : Push(v, j, f) => job'[w] = job[w]
  BY <1>1 DEF Push, Write, WriteFails
<1>15. CASE Forward(v)
  BY <1>1, <1>14, <1>15 DEF Forward
<1>16. CASE Receive(v)
  BY ZenonT(60), <1>1, <1>14, <1>16 DEF Receive
<1>17. CASE Close(v)
  BY <1>1, <1>17 DEF Close, Write, WriteFails
<1>18. CASE OpenSsi(v)
  BY ZenonT(60), <1>1, <1>2, <1>18 DEF OpenSsi
<1>19. CASE Ssi(v)
  BY Zenon, <1>1, <1>19 DEF Ssi
<1> QED BY <1>4, <1>5, <1>6, <1>7, <1>8, <1>9, <1>10, <1>11, <1>12, <1>13, <1>15, <1>16,
           <1>17, <1>18, <1>19 DEF Handle

\* Only Close takes a request from "close" on.
LEMMA OnlyClose ==
  ASSUME TypeInv, [Next]_vars, NEW w \in Worker, job[w].pc = "close", job'[w].pc = "end"
  PROVE  Close(w)
<1>1. UNCHANGED job => FALSE
  OBVIOUS
<1>2. PICK v \in Worker : Handle(v)
  BY <1>1, Zenon DEF Next, vars, Leave, ModifyPasswords, Create, Copy, CopyFails, RemoveOld,
     Rename, Tick, Stop
<1>3. v = w
  <2>1. v # w => job'[w].pc = job[w].pc
    BY <1>2, OthersStay DEF Others
  <2> QED BY <2>1
<1>4. Handle(w)
  BY <1>2, <1>3
<1> QED
  BY <1>4 DEF Handle, At, Convert, Authorize, Change, Dispatch, Scan, Open, Send, PutDir,
     MkDir, PutOpen, Forward, Receive, OpenSsi, Ssi

\* What Close leaves in the file of a PUT that was answered well.
LEMMA CloseStores ==
  ASSUME IInv, NEW w \in Worker, Close(w), OK(w), ~job'[w].lost, ~job[w].shared
  PROVE  disk'[job[w].ino].data = Body(w, 0, req[w].length)
<1>1. job[w].pc = "close" /\ job \in [Worker -> Job] /\ job[w] \in Job /\ StoreJob(w, job[w])
      /\ req[w] \in Request[w]
  BY Zenon, JobFacts DEF Close, At, IInv, TypeInv, WorkerInv, StoreInv
<1>2. PICK j \in Job : j = job[w]
  BY <1>1
<1>3. PICK k : k = [job[w] EXCEPT !.pc = "end"]
  OBVIOUS
<1>4. k \in Job /\ k.ino = j.ino /\ k.off = j.off /\ k.pend = j.pend /\ k.lost = j.lost
  <2>1. "end" \in Place
    BY DEF Place
  <2> QED BY <1>2, <1>3, <2>1 DEF Job
<1>5. Write(w, k)
  <2>1. Write(w, k) \/ WriteFails(w, k)
    BY <1>3 DEF Close
  <2>2. WriteFails(w, k) => job'[w].lost
    <3>1. WriteFails(w, k) => job'[w] = [k EXCEPT !.lost = TRUE, !.pend = <<>>]
      <4> HIDE DEF Job
      <4> QED BY <1>1 DEF WriteFails
    <3>2. [k EXCEPT !.lost = TRUE, !.pend = <<>>].lost = TRUE
      BY <1>4 DEF Job
    <3> QED BY <3>1, <3>2
  <2> QED BY <2>1, <2>2
<1>6. ~j.lost
  <2>1. job'[w] = Flushed(k)
    <3> HIDE DEF Job
    <3> QED BY <1>1, <1>5 DEF Write, Flushed
  <2>2. Flushed(k).lost = k.lost
    BY <1>4, FlushedFacts
  <2> QED BY <1>4, <2>1, <2>2
<1>7. req[w].length = j.consumed /\ req[w].range.n = 0
  <2>1. PICK c \in {200, 201, 206, 411, 417, 577} :
          /\ j.replies = <<c>>
          /\ c \in {200, 201} => j.consumed = req[w].length /\ req[w].range.n = 0
    BY <1>1, <1>2 DEF StoreJob
  <2>2. c \in {200, 201}
    <3>1. ToSet(<<c>>) = {c}
      BY DEF ToSet
    <3> QED BY <1>2, <2>1, <3>1 DEF OK
  <2> QED BY <2>1, <2>2
<1>8. PICK c \in Nat, m \in Nat, off \in Nat, old \in Seq(CellType), b \in Seq(CellType),
           ino \in 1 .. Len(disk) :
        /\ c = j.consumed /\ b = j.pend /\ m = Len(b) /\ off = j.off /\ ino = j.ino
        /\ old = disk[ino].data
  <2>1. Inode(j.ino)
    BY <1>1, <1>2 DEF StoreJob, Writing
  <2>2. disk[j.ino].data \in Seq(CellType)
    BY <2>1, DiskFacts DEF IInv, Inode
  <2>3. j.consumed \in Nat /\ j.pend \in Seq(CellType) /\ Len(j.pend) \in Nat /\ j.off \in Nat
    BY JobFields
  <2> QED BY <2>1, <2>2, <2>3 DEF Inode
<1>9. /\ Stored(j) = c - m /\ \A i \in 1 .. m : b[i] = Cell(w, c - m + i)
      /\ off = c - m /\ Len(old) = c - m /\ \A i \in 1 .. Len(old) : old[i] = Cell(w, i)
  <2>1. Stored(j) = c - m
    BY <1>8 DEF Stored
  <2>2. StoreJob(w, j) /\ j.pc \in Writing
    BY <1>1, <1>2 DEF Writing
  <2> QED BY <1>2, <1>6, <1>7, <1>8, <2>1, <2>2 DEF StoreJob
<1>10. Body(w, 0, c) = [i \in 1 .. c |-> Cell(w, i)]
  <2>1. c - 0 = c /\ \A i \in 1 .. c : 0 + i = i
    OBVIOUS
  <2> QED BY <2>1 DEF Body
<1>11. CASE b = <<>>
  <2>1. disk' = disk
    BY <1>4, <1>5, <1>8, <1>11 DEF Write
  <2>2. m = 0 /\ c - m = c
    BY <1>8, <1>11, EmptySeq
  <2>3. old = [i \in 1 .. c |-> Cell(w, i)]
    BY <1>9, <2>2
  <2> QED BY <1>2, <1>7, <1>8, <1>10, <2>1, <2>3
<1>12. CASE b # <<>>
  <2>1. PICK d : d = Written(old, off, b)
    OBVIOUS
  <2>2. Overlaid(d, old, off, b)
    BY <2>1, WrittenFacts
  <2>3. disk' = [disk EXCEPT ![ino] = [data |-> d, mtime |-> now]]
    <3>1. disk' = [disk EXCEPT ![k.ino] =
                     [data |-> Written(@.data, k.off, k.pend), mtime |-> now]]
      BY <1>4, <1>5, <1>8, <1>12 DEF Write
    <3> QED BY <1>4, <1>8, <2>1, <3>1
  <2>4. disk'[ino].data = d
    <3>1. disk \in Seq(InodeType)
      BY DEF IInv, TypeInv
    <3> QED BY <2>3, <3>1
  <2>5. d \in Seq(CellType) /\ Len(d) = c
    BY <1>8, <1>9, <2>2 DEF Overlaid
  <2>6. ASSUME NEW i \in 1 .. c PROVE d[i] = Cell(w, i)
    <3>0. d[i] = IF i > off /\ i <= off + m THEN b[i - off]
                 ELSE IF i <= c - m THEN old[i] ELSE Hole
      BY <1>8, <1>9, <2>2, <2>5 DEF Overlaid
    <3>1. CASE i > off
      <4>0. off = c - m /\ i <= off + m
        BY <1>9
      <4>1. d[i] = b[i - off] /\ i - off \in 1 .. m
        BY <3>0, <3>1, <4>0
      <4>2. c - m + (i - off) = i
        BY <1>9
      <4> QED BY <1>9, <4>1, <4>2
    <3>2. CASE i <= off
      <4>0. off = c - m /\ Len(old) = c - m
        BY <1>9
      <4>1. d[i] = old[i] /\ i \in 1 .. Len(old)
        BY <3>0, <3>2, <4>0
      <4> QED BY <1>9, <4>1
    <3> QED BY <1>9, <3>1, <3>2
  <2>7. d = [i \in 1 .. c |-> Cell(w, i)]
    BY <2>5, <2>6
  <2> QED BY <1>2, <1>7, <1>8, <1>10, <2>4, <2>7
<1> QED BY <1>11, <1>12

\* A PUT that was answered with 200 or 201 is in its file once that is closed,
\* all of it, unless a write failed unseen or somebody else wrote to it too.
THEOREM PutIsStored == Spec => PutStored
<1> DEFINE Stores ==
      \A w \in Worker :
        job[w].pc = "close" /\ job'[w].pc = "end" /\ OK(w) /\ ~job'[w].lost /\ ~job[w].shared
          => disk'[job[w].ino].data = Body(w, 0, req[w].length)
<1>1. IInv /\ [Next]_vars => Stores
  <2> SUFFICES ASSUME IInv, [Next]_vars, NEW w \in Worker, job[w].pc = "close",
                      job'[w].pc = "end", OK(w), ~job'[w].lost, ~job[w].shared
               PROVE  disk'[job[w].ino].data = Body(w, 0, req[w].length)
    OBVIOUS
  <2>1. Close(w)
    BY OnlyClose DEF IInv
  <2> QED BY <2>1, CloseStores
<1>2. []IInv /\ [][Next]_vars => [][Stores]_vars
  <2> HIDE DEF Stores
  <2> QED BY <1>1, PTL
<1> QED BY <1>2, Invariance, PTL DEF Spec, PutStored

-----------------------------------------------------------------------------
(* Who changes files *)

\* What a step of a worker makes of its job, as far as PutJob tells.
Steady(j, k) ==
  /\ k.path = j.path /\ k.passed = j.passed
  /\ k.pc # "mkdir" /\ (k.pc \in Writing => j.pc \in Writing /\ k.ino = j.ino)

\* A job that stays let in to the same path stays so.
LEMMA SteadyFacts ==
  ASSUME NEW r, NEW j, NEW k, PutJob(r, j), Steady(j, k), j.pc # "idle"
  PROVE  PutJob(r, k)
BY DEF PutJob, Steady

LEMMA EndSteady ==
  ASSUME TypeInv, NEW w \in Worker, NEW s, Answer(w, s) \/ Goto(w, "end")
  PROVE  Steady(job[w], job'[w]) /\ job'[w].pc = "end"
<1>1. job[w] \in Job /\ job \in [Worker -> Job]
  BY DEF TypeInv
<1>2. \/ job'[w] = [job[w] EXCEPT !.pc = "end"]
      \/ job'[w] = [job[w] EXCEPT !.pc = "end", !.replies = Append(@, s)]
  <2> HIDE DEF Job
  <2> QED BY <1>1 DEF Answer, Goto
<1>3. /\ job'[w].pc = "end" /\ job'[w].path = job[w].path /\ job'[w].passed = job[w].passed
  BY <1>1, <1>2 DEF Job
<1> QED BY <1>3 DEF Steady, Writing

LEMMA GotoSteady ==
  ASSUME TypeInv, NEW w \in Worker, NEW l \in {"dispatch", "list", "propfind", "putOpen", "end"}, Goto(w, l)
  PROVE  Steady(job[w], job'[w])
<1>1. job[w] \in Job /\ job \in [Worker -> Job]
  BY DEF TypeInv
<1>2. job'[w] = [job[w] EXCEPT !.pc = l]
  <2> HIDE DEF Job
  <2> QED BY <1>1 DEF Goto
<1>3. /\ job'[w].pc = l /\ job'[w].path = job[w].path /\ job'[w].passed = job[w].passed
  BY <1>1, <1>2 DEF Job
<1> QED BY <1>3 DEF Steady, Writing

\* A write, as far as stdio tells: the job it is of goes on, or has lost it.
LEMMA PushSteady ==
  ASSUME TypeInv, NEW w \in Worker, NEW j, NEW f, Push(w, j, f), j.ino = job[w].ino, j \in Job, f \in Job, Steady(job[w], j), Steady(job[w], f)
  PROVE  /\ Steady(job[w], job'[w])
         /\ disk' # disk => /\ Write(w, j) /\ j.pend # <<>> /\ job'[w] = Flushed(j)
<1>1. job[w] \in Job /\ job \in [Worker -> Job]
  BY DEF TypeInv
<1>2. \/ job'[w] = j /\ disk' = disk
      \/ job'[w] = Flushed(j) /\ Write(w, j)
      \/ job'[w] = [f EXCEPT !.lost = TRUE, !.pend = <<>>] /\ disk' = disk
  <2> HIDE DEF Job
  <2> QED BY <1>1 DEF Push, Write, WriteFails, Flushed
<1>3. CASE job'[w] = j /\ disk' = disk
  BY <1>3
<1>4. CASE job'[w] = Flushed(j) /\ Write(w, j)
  <2>1. job'[w].path = j.path /\ job'[w].passed = j.passed /\ job'[w].pc = j.pc /\ job'[w].ino = j.ino
    BY <1>4, FlushedFacts
  <2>2. disk' # disk => j.pend # <<>>
    BY <1>4 DEF Write
  <2> QED BY <1>4, <2>1, <2>2 DEF Steady
<1>5. CASE job'[w] = [f EXCEPT !.lost = TRUE, !.pend = <<>>] /\ disk' = disk
  <2>1. job'[w].path = f.path /\ job'[w].passed = f.passed /\ job'[w].pc = f.pc /\ job'[w].ino = f.ino
    BY <1>5 DEF Job
  <2> QED BY <1>5, <2>1 DEF Steady
<1> QED BY <1>2, <1>3, <1>4, <1>5

\* The steps that only look at files, for one worker.
LEMMA ReadersKeep ==
  ASSUME IInv, NEW w \in Worker, PutJob(req[w], job[w]),
         \/ Authorize(w) \/ Scan(w) \/ Open(w) \/ Send(w) \/ OpenSsi(w) \/ Ssi(w)
  PROVE  PutJob(req[w], job'[w]) /\ Quiet
<1>1. TypeInv /\ job[w] \in Job /\ job \in [Worker -> Job]
  BY JobFacts DEF IInv, TypeInv
<1>2. Quiet /\ job[w].pc # "idle"
  BY Zenon DEF Authorize, Scan, Open, Send, OpenSsi, Ssi, Quiet, At
<1>3. ASSUME NEW s, Answer(w, s) \/ Goto(w, "end") PROVE Steady(job[w], job'[w])
  BY SMTT(30), <1>1, <1>3, EndSteady
<1>4. CASE Authorize(w)
  <2>1. CASE \E s \in {200, 302, 401} : Answer(w, s)
    BY <1>2, <1>3, <2>1, SteadyFacts
  <2>2. CASE Goto(w, "dispatch")
    BY <1>1, <1>2, <2>2, GotoSteady, SteadyFacts
  <2>3. CASE \/ job' = [job EXCEPT ![w].pc = "dispatch", ![w].passed = "noFile",
                                   ![w].gap = (editor = "removed")]
             \/ job' = [job EXCEPT ![w].pc = "dispatch", ![w].passed = "cred"]
    <3>0. PICK g : \/ job' = [job EXCEPT ![w].pc = "dispatch", ![w].passed = "noFile",
                                        ![w].gap = g]
                   \/ job' = [job EXCEPT ![w].pc = "dispatch", ![w].passed = "cred"]
      BY <2>3
    <3>1. \/ job'[w] = [job[w] EXCEPT !.pc = "dispatch", !.passed = "noFile", !.gap = g]
          \/ job'[w] = [job[w] EXCEPT !.pc = "dispatch", !.passed = "cred"]
      <4> HIDE DEF Job
      <4> QED BY <1>1, <3>0
    <3>2. job'[w].pc = "dispatch" /\ job'[w].path = job[w].path /\ job'[w].passed # "put"
      BY ZenonT(60), <1>1, <3>1 DEF Job
    <3> QED BY <1>2, <3>2 DEF PutJob, Writing
  <2> QED BY Zenon, <1>4, <2>1, <2>2, <2>3, AuthorizeFacts
<1>5. CASE Scan(w)
  <2>1. CASE \E s : Answer(w, s)
    BY <1>2, <1>3, <2>1, SteadyFacts
  <2>2. CASE \E n, s : job' = [job EXCEPT ![w].pc = "end", ![w].names = n,
                                           ![w].replies = Append(@, s)]
    <3>0. PICK n, s : job' = [job EXCEPT ![w].pc = "end", ![w].names = n,
                                        ![w].replies = Append(@, s)]
      BY Zenon, <2>2
    <3>1. job'[w] = [job[w] EXCEPT !.pc = "end", !.names = n, !.replies = Append(@, s)]
      <4> HIDE DEF Job
      <4> QED BY <1>1, <3>0
    <3>2. job'[w].pc = "end" /\ job'[w].path = job[w].path /\ job'[w].passed = job[w].passed
      BY <1>1, <3>1 DEF Job
    <3> QED BY <1>2, <3>2, SteadyFacts DEF Steady, Writing
  <2> QED BY ZenonT(60), <1>5, <2>1, <2>2 DEF Scan
<1>6. CASE Open(w)
  <2>1. PICK l, ino, cl, off, s :
          /\ l \in {"end", "send"}
          /\ l = IF req[w].method = "HEAD" \/ IsDir(job[w].path) THEN "end" ELSE "send"
          /\ ino = fs[job[w].path].ino /\ off = Seek(req[w])
          /\ cl = ContentLength(req[w], job[w].file.size)
          /\ s = IF Ranged(req[w]) THEN 206 ELSE 200
    OBVIOUS
  <2>2. \/ Answer(w, 500)
        \/ job' = [job EXCEPT ![w].pc = l, ![w].ino = ino, ![w].cl = cl, ![w].left = cl,
                              ![w].off = off, ![w].replies = Append(@, s)]
    BY ZenonT(60), <1>6, <2>1 DEF Open
  <2>3. CASE Answer(w, 500)
    BY <1>2, <1>3, <2>3, SteadyFacts
  <2>4. CASE job' = [job EXCEPT ![w].pc = l, ![w].ino = ino, ![w].cl = cl, ![w].left = cl,
                                ![w].off = off, ![w].replies = Append(@, s)]
    <3>1. job'[w] = [job[w] EXCEPT !.pc = l, !.ino = ino, !.cl = cl, !.left = cl,
                                   !.off = off, !.replies = Append(@, s)]
      <4> HIDE DEF Job
      <4> QED BY <1>1, <2>4
    <3>2. job'[w].pc = l /\ job'[w].path = job[w].path /\ job'[w].passed = job[w].passed
      BY <1>1, <3>1 DEF Job
    <3> QED BY <1>2, <2>1, <3>2, SteadyFacts DEF Steady, Writing
  <2> QED BY <2>2, <2>3, <2>4
<1>7. CASE Send(w)
  <2>1. CASE Goto(w, "end")
    BY <1>2, <1>3, <2>1, SteadyFacts
  <2>2. CASE \E o, l, s : job' = [job EXCEPT ![w].off = o, ![w].left = l, ![w].sent = s]
    <3>0. PICK o, l, s : job' = [job EXCEPT ![w].off = o, ![w].left = l, ![w].sent = s]
      BY Zenon, <2>2
    <3>1. job'[w] = [job[w] EXCEPT !.off = o, !.left = l, !.sent = s]
      <4> HIDE DEF Job
      <4> QED BY <1>1, <3>0
    <3>2. job'[w].pc = job[w].pc /\ job'[w].path = job[w].path /\ job'[w].ino = job[w].ino
          /\ job'[w].passed = job[w].passed
      BY SMTT(30), <1>1, <3>1 DEF Job
    <3>3. job[w].pc = "send"
      BY <1>7 DEF Send, At
    <3> QED BY <1>2, <3>2, <3>3, SteadyFacts DEF Steady, Writing
  <2> QED BY Zenon, <1>7, <2>1, <2>2 DEF Send
<1>8. CASE OpenSsi(w)
  <2>1. CASE \E s : Answer(w, s)
    BY <1>2, <1>3, <2>1, SteadyFacts
  <2>2. CASE \E s, st : job' = [job EXCEPT ![w].pc = "ssi", ![w].replies = Append(@, s),
                                            ![w].stack = st]
    <3>0. PICK s, st : job' = [job EXCEPT ![w].pc = "ssi", ![w].replies = Append(@, s),
                                          ![w].stack = st]
      BY Zenon, <2>2
    <3>1. job'[w] = [job[w] EXCEPT !.pc = "ssi", !.replies = Append(@, s), !.stack = st]
      <4> HIDE DEF Job
      <4> QED BY <1>1, <3>0
    <3>2. job'[w].pc = "ssi" /\ job'[w].path = job[w].path /\ job'[w].passed = job[w].passed
      BY <1>1, <3>1 DEF Job
    <3> QED BY <1>2, <3>2, SteadyFacts DEF Steady, Writing
  <2> QED BY Zenon, <1>8, <2>1, <2>2 DEF OpenSsi
<1>9. CASE Ssi(w)
  <2>0. job[w].pc = "ssi"
    BY Zenon, <1>9 DEF Ssi, At
  <2>1. PICK l, st, b, x : \/ job' = [job EXCEPT ![w].stack = st, ![w].pc = IF l THEN "end" ELSE @]
                           \/ job' = [job EXCEPT ![w].stack = st]
                           \/ job' = [job EXCEPT ![w].stack = st,
                                                 ![w].sent = IF x THEN @ ELSE @ \o b]
    BY <1>9, Zenon DEF Ssi
  <2>2. \/ job'[w] = [job[w] EXCEPT !.stack = st, !.pc = IF l THEN "end" ELSE @]
        \/ job'[w] = [job[w] EXCEPT !.stack = st]
        \/ job'[w] = [job[w] EXCEPT !.stack = st, !.sent = IF x THEN @ ELSE @ \o b]
    <3> HIDE DEF Job
    <3> QED BY <1>1, <2>1
  <2>3. job'[w].pc \in {"end", "ssi"} /\ job'[w].path = job[w].path
        /\ job'[w].passed = job[w].passed
    BY ZenonT(60), <1>1, <2>0, <2>2 DEF Job
  <2> QED BY SMTT(30), <1>2, <2>3, SteadyFacts DEF Steady, Writing
<1> QED BY <1>2, <1>4, <1>5, <1>6, <1>7, <1>8, <1>9

\* What paths are made of, NoPath too.
Name == STRING \cup {"no path"}

\* A path that begins like the beginning of another begins like that.
LEMMA PrefixFacts ==
  ASSUME NEW u \in Seq(Name), NEW p \in Seq(Name), NEW n \in 0 .. Len(p)
  PROVE  /\ IsPrefix(u, SubSeq(p, 1, n)) => IsPrefix(u, p)
         /\ IsPrefix(u, u)
<1>1. Len(u) \in Nat /\ Len(p) \in Nat
  BY LenProperties
<1>2. IsPrefix(u, u)
  BY <1>1 DEF IsPrefix
<1>3. ASSUME IsPrefix(u, SubSeq(p, 1, n)) PROVE IsPrefix(u, p)
  <2>1. /\ SubSeq(p, 1, n) \in Seq(Name) /\ Len(SubSeq(p, 1, n)) = n
        /\ \A i \in 1 .. n : SubSeq(p, 1, n)[i] = p[i]
    BY CutFacts
  <2>2. PICK h \in Seq(Name) : h = SubSeq(p, 1, n)
    BY <2>1
  <2>3. Len(u) <= n /\ SubSeq(u, 1, Len(u)) = SubSeq(h, 1, Len(u)) /\ Len(h) = n
    BY <1>3, <2>1, <2>2 DEF IsPrefix
  <2>4. PICK m \in 0 .. n : m = Len(u)
    BY <1>1, <2>3
  <2>5. /\ SubSeq(h, 1, m) \in Seq(Name) /\ Len(SubSeq(h, 1, m)) = m
        /\ \A i \in 1 .. m : SubSeq(h, 1, m)[i] = h[i]
    BY <2>3, CutFacts
  <2>6. /\ SubSeq(p, 1, m) \in Seq(Name) /\ Len(SubSeq(p, 1, m)) = m
        /\ \A i \in 1 .. m : SubSeq(p, 1, m)[i] = p[i]
    <3>1. m \in 0 .. Len(p)
      BY <1>1
    <3> QED BY <3>1, CutFacts
  <2>7. \A i \in 1 .. m : SubSeq(p, 1, m)[i] = SubSeq(h, 1, m)[i]
    BY <2>1, <2>2, <2>5, <2>6
  <2>8. SubSeq(p, 1, m) = SubSeq(h, 1, m)
    BY <2>5, <2>6, <2>7, SeqEqual
  <2> QED BY <1>1, <2>3, <2>4, <2>8 DEF IsPrefix
<1> QED BY <1>2, <1>3

\* The PUT passwords file stands apart, from PutFileAssumption.
LEMMA PutFacts ==
  /\ PutFile \in Seq(Name) /\ Path \cup {<<>>} \subseteq Seq(Name)
  /\ \A w \in Worker : \A r \in Request[w] : IsPutOrDelete(r) => ~IsPrefix(PutFile, r.path)
  /\ PutFile # Edit.file /\ PutFile # Edit.tmp
  /\ HasPut => /\ PutIno \in 1 .. Len(InitialDisk) /\ InitialDisk \in Seq(InodeType)
               /\ \A p \in Path \ {PutFile} :
                    InitialFs[p].kind = "file" => InitialFs[p].ino # PutIno
<1>1. PutFile \in Seq(Name) /\ Path \cup {<<>>} \subseteq Seq(Name)
  <2>1. Config.put \in Path \cup {NoPath}
    BY FilesAssumption DEF FilesAssumption, ConfigType
  <2>2. NoPath \in Seq(Name)
    BY DEF NoPath, Name
  <2>3. Seq(STRING) \subseteq Seq(Name)
    BY Zenon, SeqMonotonic DEF Name
  <2>4. <<>> \in Seq(Name)
    BY EmptySeq
  <2> QED BY <2>1, <2>2, <2>3, <2>4, Bounds DEF PutFile
<1>2. \A w \in Worker : \A r \in Request[w] : IsPutOrDelete(r) => ~IsPrefix(PutFile, r.path)
  BY PutFileAssumption DEF PutFileAssumption, IsPutOrDelete, PutFile
<1>3. PutFile # Edit.file /\ PutFile # Edit.tmp
  BY PutFileAssumption DEF PutFileAssumption, PutFile
<1>4. ASSUME HasPut
      PROVE  /\ PutIno \in 1 .. Len(InitialDisk) /\ InitialDisk \in Seq(InodeType)
             /\ \A p \in Path \ {PutFile} :
                  InitialFs[p].kind = "file" => InitialFs[p].ino # PutIno
  <2>1. InitialDisk \in Seq(InodeType) /\ PutIno \in DOMAIN InitialDisk
    BY <1>4, FilesAssumption DEF FilesAssumption, HasPut, PutIno
  <2>2. \A p \in Path \ {PutFile} : InitialFs[p].kind = "file" => InitialFs[p].ino # PutIno
    BY <1>4, PutFileAssumption DEF PutFileAssumption, HasPut, PutIno, PutFile
  <2> QED BY <2>1, <2>2, LenProperties
<1> QED BY <1>1, <1>2, <1>3, <1>4

\* The steps that lead to a change of files.
LEMMA ConvertKeeps ==
  ASSUME IInv, NEW w \in Worker, PutJob(req[w], job[w]), Convert(w)
  PROVE  PutJob(req[w], job'[w]) /\ Quiet
<1>1. TypeInv /\ job[w] \in Job /\ job \in [Worker -> Job] /\ req[w] \in Request[w]
  BY JobFacts DEF IInv, TypeInv
<1>2. PICK path \in (Path \cup {<<>>}) \cap (Prefixes(req[w].path) \cup {req[w].path}),
           file \in FileInfo, was \in Seq(CellType) :
        /\ job[w].pc = "idle" /\ Quiet /\ FoundAs(path, file, was)
        /\ job' = [job EXCEPT ![w].pc = "authorize", ![w].path = path,
                              ![w].file = file, ![w].was = was]
  BY Zenon, ConvertFacts
<1>3. job'[w] = [job[w] EXCEPT !.pc = "authorize", !.path = path, !.file = file, !.was = was]
  <2> HIDE DEF Job
  <2> QED BY <1>1, <1>2
<1>4. job'[w].pc = "authorize" /\ job'[w].path = path /\ job'[w].passed = job[w].passed
  BY <1>1, <1>3 DEF Job
<1>5. IsPutOrDelete(req[w]) => ~IsPrefix(PutFile, path)
  <2>1. PICK p \in Seq(Name) : p = req[w].path
    BY <1>1, RequestFacts, PutFacts
  <2>2. IsPrefix(PutFile, path) => IsPrefix(PutFile, p)
    <3>1. CASE path = p
      BY <3>1
    <3>2. CASE path \in Prefixes(p)
      <4>1. PICK n \in 0 .. Len(p) : path = SubSeq(p, 1, n)
        BY <3>2 DEF Prefixes
      <4> QED BY <4>1, PutFacts, PrefixFacts
    <3> QED BY <2>1, <3>1, <3>2
  <2> QED BY <1>1, <2>1, <2>2, PutFacts
<1>6. job[w].passed = "put" => IsPutOrDelete(req[w]) /\ req[w].cred \in ToSet(Before(PutFile))
  BY DEF PutJob
<1> QED BY <1>2, <1>4, <1>5, <1>6 DEF PutJob, Writing

LEMMA DispatchKeeps ==
  ASSUME IInv, NEW w \in Worker, PutJob(req[w], job[w]), Dispatch(w)
  PROVE  PutJob(req[w], job'[w]) /\ Quiet
<1>1. TypeInv /\ job[w] \in Job /\ job \in [Worker -> Job]
  BY JobFacts DEF IInv, TypeInv
<1>2. Quiet /\ job[w].pc = "dispatch"
  BY Zenon DEF Dispatch, Quiet, At
<1>3. ASSUME NEW s, Answer(w, s) PROVE PutJob(req[w], job'[w])
  <2>1. Steady(job[w], job'[w])
    BY <1>1, <1>3, EndSteady
  <2> QED BY <1>2, <2>1, SteadyFacts
<1>4. ASSUME Goto(w, "propfind") \/ Goto(w, "list") PROVE PutJob(req[w], job'[w])
  <2>1. Steady(job[w], job'[w])
    BY <1>1, <1>4, GotoSteady
  <2> QED BY <1>2, <2>1, SteadyFacts
<1>5. ASSUME NEW p, NEW f, NEW was, ServeFile(w, p, f, was), ~IsPutOrDelete(req[w])
      PROVE  PutJob(req[w], job'[w])
  <2>1. \/ \E s : Answer(w, s)
        \/ \E l \in {"openSsi", "open"} :
             job' = [job EXCEPT ![w].pc = l, ![w].path = p, ![w].file = f, ![w].was = was]
        \/ job' = [job EXCEPT ![w].pc = "end", ![w].path = p, ![w].file = f, ![w].was = was,
                              ![w].replies = Append(@, 304)]
    BY <1>5, Zenon DEF ServeFile
  <2>2. CASE \E s : Answer(w, s)
    BY <1>3, <2>2
  <2>3. CASE \E l \in {"openSsi", "open"} :
               job' = [job EXCEPT ![w].pc = l, ![w].path = p, ![w].file = f, ![w].was = was]
    <3>1. PICK l \in {"openSsi", "open"} :
            job' = [job EXCEPT ![w].pc = l, ![w].path = p, ![w].file = f, ![w].was = was]
      BY <2>3
    <3>2. job'[w] = [job[w] EXCEPT !.pc = l, !.path = p, !.file = f, !.was = was]
      <4> HIDE DEF Job
      <4> QED BY <1>1, <3>1
    <3>3. job'[w].pc = l /\ job'[w].passed = job[w].passed
      BY <1>1, <3>2 DEF Job
    <3> QED BY <1>5, <3>3 DEF PutJob, Writing
  <2>4. CASE job' = [job EXCEPT ![w].pc = "end", ![w].path = p, ![w].file = f, ![w].was = was,
                                ![w].replies = Append(@, 304)]
    <3>1. job'[w] = [job[w] EXCEPT !.pc = "end", !.path = p, !.file = f, !.was = was,
                                   !.replies = Append(@, 304)]
      <4> HIDE DEF Job
      <4> QED BY <1>1, <2>4
    <3>2. job'[w].pc = "end" /\ job'[w].passed = job[w].passed
      BY <1>1, <3>1 DEF Job
    <3> QED BY <1>5, <3>2 DEF PutJob, Writing
  <2> QED BY <2>1, <2>2, <2>3, <2>4
<1>6. CASE req[w].method = "OPTIONS" \/ ~Config.root
  <2>1. \E s : Answer(w, s)
    BY <1>6 DEF Dispatch
  <2> QED BY <1>2, <1>3, <2>1
<1>7. CASE req[w].method # "OPTIONS" /\ Config.root
  <2>1. ~IsPutOrDelete(req[w])
    BY <1>7 DEF Dispatch
  <2>2. \/ \E s : Answer(w, s)
        \/ Goto(w, "propfind") \/ Goto(w, "list")
        \/ \E p, f, was : ServeFile(w, p, f, was)
    BY <1>7 DEF Dispatch
  <2> QED BY <1>2, <1>3, <1>4, <1>5, <2>1, <2>2
<1> QED BY <1>2, <1>6, <1>7

LEMMA PutDirKeeps ==
  ASSUME IInv, NEW w \in Worker, PutJob(req[w], job[w]), PutDir(w)
  PROVE  PutJob(req[w], job'[w]) /\ Quiet
<1>1. TypeInv /\ job[w] \in Job /\ job \in [Worker -> Job]
  BY JobFacts DEF IInv, TypeInv
<1>2. Quiet /\ job[w].pc = "putDir"
  BY Zenon DEF PutDir, Quiet, At
<1>3. PICK n \in Nat, m \in Nat : n = job[w].depth /\ m = Len(job[w].path)
  <2>1. Len(job[w].path) \in Nat
    BY <1>1, JobFields, Bounds, EmptySeq, LenProperties
  <2> QED BY <1>1, <2>1, JobFields
<1>4. ASSUME NEW s, Answer(w, s) \/ Goto(w, "putOpen") PROVE PutJob(req[w], job'[w])
  <2>1. Steady(job[w], job'[w])
    BY <1>1, <1>4, EndSteady, GotoSteady
  <2> QED BY <1>2, <2>1, SteadyFacts
<1>5. PICK e \in BOOLEAN : e = Exists(SubSeq(job[w].path, 1, job[w].depth))
  BY DEF Exists
<1>6. \/ \E s : Answer(w, s) \/ Goto(w, "putOpen")
      \/ /\ n <= m
         /\ job' = [job EXCEPT ![w].pc = IF e THEN @ ELSE "mkdir",
                               ![w].depth = IF e THEN @ + 1 ELSE @]
  <2>1. PICK last \in Int : last = (IF Slashed(w) THEN m ELSE m - 1) /\ last <= m
    <3>1. CASE Slashed(w)
      BY <3>1
    <3>2. CASE ~Slashed(w)
      BY <3>2
    <3> QED BY <3>1, <3>2
  <2>2. CASE n > last
    BY <1>3, <2>1, <2>2 DEF PutDir
  <2>3. CASE ~(n > last)
    <3>1. n <= m
      BY <2>1, <2>3
    <3> QED BY <1>3, <1>5, <2>1, <2>3, <3>1 DEF PutDir
  <2> QED BY <2>2, <2>3
<1>7. CASE \E s : Answer(w, s) \/ Goto(w, "putOpen")
  <2>1. PICK s : Answer(w, s) \/ Goto(w, "putOpen")
    BY <1>7
  <2> QED BY <1>2, <1>4, <2>1
<1>8. CASE /\ n <= m
           /\ job' = [job EXCEPT ![w].pc = IF e THEN @ ELSE "mkdir",
                                 ![w].depth = IF e THEN @ + 1 ELSE @]
  <2>1. PICK l, d : /\ l = (IF e THEN "putDir" ELSE "mkdir") /\ d = (IF e THEN n + 1 ELSE n)
    OBVIOUS
  <2>2. job'[w] = [job[w] EXCEPT !.pc = l, !.depth = d]
    <3> HIDE DEF Job
    <3> QED BY <1>1, <1>2, <1>3, <1>8, <2>1
  <2>3. job'[w].pc = l /\ job'[w].depth = d /\ job'[w].path = job[w].path
        /\ job'[w].passed = job[w].passed
    BY <1>1, <2>2 DEF Job
  <2>4. l \notin Writing /\ l # "idle" /\ (l = "mkdir" => d \in 0 .. m)
    BY <1>8, <2>1 DEF Writing
  <2> QED BY <1>2, <1>3, <2>3, <2>4 DEF PutJob
<1> QED BY <1>2, <1>6, <1>7, <1>8

\* The files are as they were, but that path p is x and that others than the
\* PUT passwords file may have been written to.
LEMMA PathKept ==
  ASSUME IInv, PutKept, NEW p, p # PutFile, NEW x, fs' = [fs EXCEPT ![p] = x],
         HasPut /\ x.kind = "file" => x.ino # PutIno,
         Len(disk') \in Nat, Len(disk) <= Len(disk'),
         HasPut => disk'[PutIno].data = disk[PutIno].data
  PROVE  PutKept'
<1>1. fs \in [Path -> FileType] /\ Len(disk) \in Nat /\ Len(InitialDisk) \in Nat
  <2>1. InitialDisk \in Seq(InodeType)
    BY FilesAssumption DEF FilesAssumption
  <2> QED BY <2>1, LenProperties DEF IInv, TypeInv
<1>2. PutFile \in Path => fs'[PutFile] = fs[PutFile]
  BY <1>1
<1>3. ASSUME HasPut, NEW q \in Path \ {PutFile}, fs'[q].kind = "file" PROVE fs'[q].ino # PutIno
  <2>1. CASE q = p
    <3>1. fs'[q] = x
      BY <1>1, <2>1
    <3> QED BY <1>3, <3>1
  <2>2. CASE q # p
    <3>1. fs'[q] = fs[q]
      BY <1>1, <2>2
    <3> QED BY <1>3, <3>1 DEF PutKept
  <2> QED BY <2>1, <2>2
<1>4. Len(InitialDisk) <= Len(disk')
  <2>1. Len(InitialDisk) <= Len(disk)
    BY DEF PutKept
  <2> QED BY <1>1, <2>1
<1> QED BY <1>2, <1>3, <1>4 DEF PutKept

\* What a step of w keeps, and what it must be when it changes a file.
Spares(w) ==
  /\ PutJob(req[w], job'[w]) /\ PutKept'
  /\ Files' # Files => job'[w] # job[w] /\ job'[w].passed = "put"

\* A step that changes no file spares the PUT passwords file.
LEMMA QuietSpares ==
  ASSUME NEW w \in Worker, PutKept, PutJob(req[w], job'[w]), Quiet
  PROVE  Spares(w)
BY Zenon DEF Spares, Quiet, Files, PutKept

LEMMA EndKeeps ==
  ASSUME IInv, NEW w \in Worker, PutJob(req[w], job[w]), job[w].pc # "idle", NEW s, Answer(w, s)
  PROVE  PutJob(req[w], job'[w])
<1>1. Steady(job[w], job'[w])
  BY EndSteady DEF IInv
<1> QED BY <1>1, SteadyFacts

\* is_authorized_for_put looks at the lines there were at first.
LEMMA LetIn ==
  ASSUME PutKept, NEW w \in Worker, MayChange(w)
  PROVE  req[w].cred \in ToSet(Before(PutFile))
<1>1. PutFile \in Path /\ fs[PutFile].kind = "file" /\ Authorized(req[w], Lines(PutFile))
  BY DEF MayChange, Opens, IsFile, PutFile
<1>2. HasPut /\ Lines(PutFile) = Before(PutFile)
  BY <1>1 DEF PutKept, HasPut, PutIno, Lines, Before
<1>3. PICK k \in DOMAIN Before(PutFile) : Before(PutFile)[k] = req[w].cred
  BY <1>1, <1>2 DEF Authorized
<1> QED BY <1>3 DEF ToSet

\* The steps that change files spare it, and are those of a user it has let in.
LEMMA ChangeSpares ==
  ASSUME IInv, PutKept, NEW w \in Worker, PutJob(req[w], job[w]), Change(w)
  PROVE  Spares(w)
<1>1. job[w].pc = "dispatch" /\ IsPutOrDelete(req[w]) /\ UNCHANGED World
  BY Zenon DEF Change, At
<1>2. job[w] \in Job /\ job \in [Worker -> Job]
  BY JobFacts DEF IInv, TypeInv
<1>3. ~IsPrefix(PutFile, job[w].path)
  BY <1>1 DEF PutJob
<1>4. CASE \E s : Answer(w, s) /\ UNCHANGED Files
  <2>1. Quiet
    BY <1>1, <1>4 DEF Quiet
  <2>2. PutJob(req[w], job'[w])
    BY <1>1, <1>4, EndKeeps
  <2> QED BY <2>1, <2>2, QuietSpares
<1>5. CASE /\ MayChange(w)
           /\ job' = [job EXCEPT ![w].pc = "end", ![w].passed = "put", ![w].replies = Append(@, 200)]
           /\ fs' = [fs EXCEPT ![job[w].path] = [kind |-> "none", ino |-> 0]]
           /\ UNCHANGED disk
  <2>1. job'[w] = [job[w] EXCEPT !.pc = "end", !.passed = "put", !.replies = Append(@, 200)]
    <3> HIDE DEF Job
    <3> QED BY <1>2, <1>5
  <2>2. job'[w].pc = "end" /\ job'[w].passed = "put" /\ job'[w].path = job[w].path
    BY <1>2, <2>1 DEF Job
  <2>3. req[w].cred \in ToSet(Before(PutFile))
    BY <1>5, LetIn
  <2>4. PutJob(req[w], job'[w])
    BY <1>1, <1>3, <2>2, <2>3 DEF PutJob, Writing
  <2>5. PutKept'
    <3>1. job[w].path # PutFile
      <4>1. IsPrefix(PutFile, PutFile)
        <5>1. PutFile \in Seq(Name) /\ 0 \in 0 .. Len(PutFile)
          BY PutFacts, LenProperties
        <5> QED BY <5>1, PrefixFacts
      <4> QED BY <1>3, <4>1
    <3>2. PICK x : x = [kind |-> "none", ino |-> 0]
      OBVIOUS
    <3>3. Len(disk') \in Nat /\ Len(disk) <= Len(disk')
      BY <1>5, LenProperties DEF IInv, TypeInv
    <3>4. fs' = [fs EXCEPT ![job[w].path] = x] /\ x.kind # "file" /\ disk' = disk
      BY <1>5, <3>2
    <3> QED BY <3>1, <3>3, <3>4, PathKept
  <2> QED BY <1>1, <2>2, <2>4, <2>5 DEF Spares
<1>6. CASE /\ MayChange(w) /\ UNCHANGED Files
           /\ job' = [job EXCEPT ![w].pc = "putDir", ![w].passed = "put",
                                 ![w].status = IF Exists(job[w].path) /\ Reached(w) THEN 200 ELSE 201]
  <2>1. PICK s : s = IF Exists(job[w].path) /\ Reached(w) THEN 200 ELSE 201
    OBVIOUS
  <2>2. job'[w] = [job[w] EXCEPT !.pc = "putDir", !.passed = "put", !.status = s]
    <3> HIDE DEF Job
    <3> QED BY <1>2, <1>6, <2>1
  <2>3. job'[w].pc = "putDir" /\ job'[w].passed = "put" /\ job'[w].path = job[w].path
    BY <1>2, <2>2 DEF Job
  <2>4. req[w].cred \in ToSet(Before(PutFile))
    BY <1>6, LetIn
  <2>5. PutJob(req[w], job'[w])
    BY <1>1, <1>3, <2>3, <2>4 DEF PutJob, Writing
  <2>6. Quiet
    BY <1>1, <1>6 DEF Quiet
  <2> QED BY <2>5, <2>6, QuietSpares
<1> QED BY <1>4, <1>5, <1>6 DEF Change, Delete

LEMMA MkDirSpares ==
  ASSUME IInv, PutKept, NEW w \in Worker, PutJob(req[w], job[w]), MkDir(w)
  PROVE  Spares(w)
<1> DEFINE q == SubSeq(job[w].path, 1, job[w].depth)
<1>1. job[w].pc = "mkdir" /\ UNCHANGED <<disk, World>>
  BY Zenon DEF MkDir, At
<1>2. /\ job[w] \in Job /\ job \in [Worker -> Job]
      /\ IsPutOrDelete(req[w]) /\ job[w].passed = "put" /\ ~IsPrefix(PutFile, job[w].path)
  <2>1. job[w] \in Job /\ job \in [Worker -> Job]
    BY JobFacts DEF IInv, TypeInv
  <2>2. StoreJob(w, job[w])
    BY DEF IInv, WorkerInv, StoreInv
  <2>3. req[w].method = "PUT" /\ job[w].passed = "put"
    BY <1>1, <2>2 DEF StoreJob, Putting
  <2> QED BY <1>1, <2>1, <2>3 DEF PutJob, IsPutOrDelete
<1>3. CASE Answer(w, 500) /\ UNCHANGED fs
  <2>1. Quiet
    BY <1>1, <1>3 DEF Quiet, Files
  <2>2. PutJob(req[w], job'[w])
    BY <1>1, <1>3, EndKeeps
  <2> QED BY <2>1, <2>2, QuietSpares
<1>4. CASE /\ fs' = [fs EXCEPT ![q] = [kind |-> "dir", ino |-> 0]]
           /\ job' = [job EXCEPT ![w].pc = "putDir", ![w].depth = @ + 1]
  <2>1. PICK d : d = job[w].depth + 1
    OBVIOUS
  <2>2. job'[w] = [job[w] EXCEPT !.pc = "putDir", !.depth = d]
    <3> HIDE DEF Job
    <3> QED BY <1>2, <1>4, <2>1
  <2>3. job'[w].pc = "putDir" /\ job'[w].passed = "put" /\ job'[w].path = job[w].path
    BY <1>2, <2>2 DEF Job
  <2>4. PutJob(req[w], job'[w])
    BY <1>1, <1>2, <2>3 DEF PutJob, Writing
  <2>5. PutKept'
    <3>1. q # PutFile
      <4>1. PICK p \in Seq(Name), n \in 0 .. Len(job[w].path) :
              p = job[w].path /\ n = job[w].depth /\ n \in 0 .. Len(p)
        <5>1. job[w].path \in Path \cup {<<>>} /\ job[w].depth \in 0 .. Len(job[w].path)
          BY <1>1, <1>2, JobFields DEF PutJob
        <5> QED BY <5>1, PutFacts
      <4>2. IsPrefix(PutFile, SubSeq(p, 1, n)) => IsPrefix(PutFile, p)
        BY <4>1, PutFacts, PrefixFacts
      <4>3. IsPrefix(PutFile, PutFile)
        BY <4>1, PutFacts, PrefixFacts
      <4> QED BY <1>2, <4>1, <4>2, <4>3
    <3>2. PICK x : x = [kind |-> "dir", ino |-> 0]
      OBVIOUS
    <3>3. Len(disk') \in Nat /\ Len(disk) <= Len(disk')
      BY <1>1, LenProperties DEF IInv, TypeInv
    <3>4. fs' = [fs EXCEPT ![q] = x] /\ x.kind # "file" /\ disk' = disk
      BY <1>1, <1>4, <3>2
    <3> HIDE DEF q
    <3> QED BY <3>1, <3>3, <3>4, PathKept
  <2> QED BY <1>1, <2>3, <2>4, <2>5 DEF Spares
<1> QED BY <1>3, <1>4 DEF MkDir

\* fopen of a file that is not the PUT passwords file.
LEMMA PutOpenSpares ==
  ASSUME IInv, PutKept, NEW w \in Worker, PutJob(req[w], job[w]), PutOpen(w)
  PROVE  Spares(w)
<1> DEFINE p == job[w].path
<1>1. job[w].pc = "putOpen" /\ UNCHANGED World
  BY Zenon DEF PutOpen, At
<1>2. /\ job[w] \in Job /\ job \in [Worker -> Job] /\ disk \in Seq(InodeType)
      /\ Len(disk) \in Nat /\ fs \in [Path -> FileType]
  BY JobFacts, LenProperties DEF IInv, TypeInv
<1>3. IsPutOrDelete(req[w]) /\ job[w].passed = "put" /\ ~IsPrefix(PutFile, p)
  <2>1. StoreJob(w, job[w])
    BY DEF IInv, WorkerInv, StoreInv
  <2>2. req[w].method = "PUT" /\ job[w].passed = "put"
    BY <1>1, <2>1 DEF StoreJob, Putting
  <2> QED BY <1>1, <2>2 DEF PutJob, IsPutOrDelete
<1>4. CASE ~IsDir(Parent(p)) \/ IsDir(p)
  <2>1. Answer(w, 500) /\ Quiet
    BY <1>4, Zenon DEF PutOpen, Quiet
  <2>2. PutJob(req[w], job'[w])
    BY <1>1, <2>1, EndKeeps
  <2> QED BY <2>1, <2>2, QuietSpares
<1>5. CASE IsDir(Parent(p)) /\ ~IsDir(p)
  <2> DEFINE ino0 == IF IsFile(p) THEN fs[p].ino ELSE Len(disk) + 1
  <2>1. p \in Path /\ p # PutFile
    <3>1. p \in Path
      BY <1>2, <1>5, JobFields DEF IsDir
    <3>2. IsPrefix(PutFile, PutFile)
      <4>1. PutFile \in Seq(Name) /\ 0 \in 0 .. Len(PutFile)
        BY PutFacts, LenProperties
      <4> QED BY <4>1, PrefixFacts
    <3> QED BY <1>3, <3>1, <3>2
  <2>2. PICK ino \in Nat : /\ ino = ino0
                           /\ IsFile(p) => ino \in 1 .. Len(disk)
                           /\ ~IsFile(p) => ino = Len(disk) + 1
    <3>1. CASE IsFile(p)
      BY <2>1, <3>1, FsFacts DEF IsFile
    <3>2. CASE ~IsFile(p)
      BY <1>2, <3>2
    <3> QED BY <3>1, <3>2
  <2>3. HasPut => ino # PutIno /\ PutIno \in 1 .. Len(disk)
    <3>1. CASE HasPut
      <4>1. PutIno \in 1 .. Len(disk)
        <5>1. PutIno \in 1 .. Len(InitialDisk) /\ Len(InitialDisk) \in Nat
          BY <3>1, PutFacts, LenProperties
        <5>2. Len(InitialDisk) <= Len(disk)
          BY DEF PutKept
        <5> QED BY <1>2, <5>1, <5>2
      <4>2. CASE IsFile(p)
        <5>1. ino = fs[p].ino /\ fs[p].kind = "file"
          BY <2>2, <4>2 DEF IsFile
        <5> QED BY <2>1, <3>1, <4>1, <5>1 DEF PutKept
      <4>3. CASE ~IsFile(p)
        BY <1>2, <2>2, <4>1, <4>3
      <4> QED BY <4>2, <4>3
    <3> QED BY <3>1
  <2>4. PICK off, st, sh : /\ off = Seek(req[w])
                           /\ st = IF req[w].range.n > 0 THEN 206 ELSE job[w].status
                           /\ sh = (Writers(ino) # {})
    OBVIOUS
  <2> HIDE DEF ino0
  <2>5. /\ fs' = [fs EXCEPT ![p] = [kind |-> "file", ino |-> ino]]
        /\ disk' = IF IsFile(p) THEN [disk EXCEPT ![ino] = Empty] ELSE Append(disk, Empty)
        /\ job'[w] = [job[w] EXCEPT !.pc = "forward", !.ino = ino, !.off = off,
                                    !.status = st, !.shared = sh]
    <3>1. /\ fs' = [fs EXCEPT ![p] = [kind |-> "file", ino |-> ino0]]
          /\ disk' = IF IsFile(p) THEN [disk EXCEPT ![ino0] = Empty] ELSE Append(disk, Empty)
          /\ job' = [v \in Worker |->
               IF v = w THEN [job[w] EXCEPT !.pc = "forward", !.ino = ino0, !.off = Seek(req[w]),
                                !.status = IF req[w].range.n > 0 THEN 206 ELSE @,
                                !.shared = Writers(ino0) # {}]
               ELSE IF v \in Writers(ino0) THEN [job[v] EXCEPT !.shared = TRUE] ELSE job[v]]
      BY <1>5, Zenon DEF PutOpen, ino0
    <3>2. job'[w] = [job[w] EXCEPT !.pc = "forward", !.ino = ino0, !.off = Seek(req[w]),
                                !.status = IF req[w].range.n > 0 THEN 206 ELSE @,
                                !.shared = Writers(ino0) # {}]
      BY Zenon, <3>1
    <3>3. job'[w] = [job[w] EXCEPT !.pc = "forward", !.ino = ino, !.off = off,
                                !.status = st, !.shared = sh]
      BY <2>2, <2>4, <3>2
    <3> QED BY Zenon, <2>2, <3>1, <3>3
  <2>6. /\ job'[w].pc = "forward" /\ job'[w].ino = ino /\ job'[w].path = p
        /\ job'[w].passed = job[w].passed
    BY <1>2, <2>5 DEF Job
  <2>7. PutJob(req[w], job'[w])
    BY <1>1, <1>3, <2>3, <2>6 DEF PutJob
  <2>8. /\ Len(disk') \in Nat /\ Len(disk) <= Len(disk')
        /\ HasPut => disk'[PutIno] = disk[PutIno]
    <3>1. CASE IsFile(p)
      <4>1. disk' = [disk EXCEPT ![ino] = Empty] /\ ino \in 1 .. Len(disk)
        BY <2>2, <2>5, <3>1
      <4>2. Len(disk') = Len(disk)
        BY <1>2, <4>1
      <4>3. HasPut => disk'[PutIno] = disk[PutIno]
        BY <1>2, <2>3, <4>1
      <4> QED BY <1>2, <4>2, <4>3
    <3>2. CASE ~IsFile(p)
      <4>1. disk' = Append(disk, Empty)
        BY <2>5, <3>2
      <4>2. Empty \in InodeType
        BY EmptyFacts
      <4>3. Len(disk') = Len(disk) + 1 /\ \A n \in 1 .. Len(disk) : disk'[n] = disk[n]
        BY <1>2, <4>1, <4>2, AppendProperties
      <4> QED BY <1>2, <2>3, <4>3
    <3> QED BY <3>1, <3>2
  <2>9. PutKept'
    <3>0. PICK x : x = [kind |-> "file", ino |-> ino]
      OBVIOUS
    <3>1. x = [kind |-> "file", ino |-> ino] /\ x.ino = ino
      BY <3>0
    <3>2. fs' = [fs EXCEPT ![p] = x]
      BY <2>5, <3>1
    <3>3. HasPut /\ x.kind = "file" => x.ino # PutIno
      BY <2>3, <3>1
    <3>4. HasPut => disk'[PutIno].data = disk[PutIno].data
      BY <2>8
    <3> HIDE DEF p
    <3> QED BY <2>1, <2>8, <3>2, <3>3, <3>4, PathKept
  <2> QED BY <1>1, <1>3, <2>6, <2>7, <2>9 DEF Spares
<1> QED BY <1>4, <1>5

\* A push of what w is from now on: only its own file is written to.
LEMMA PushSpares ==
  ASSUME IInv, PutKept, NEW w \in Worker, PutJob(req[w], job[w]), job[w].pc \in Writing,
         NEW j \in Job, NEW f \in Job, Push(w, j, f), Steady(job[w], j), Steady(job[w], f),
         j.ino = job[w].ino, j.pc # job[w].pc \/ j.consumed # job[w].consumed, fs' = fs
  PROVE  Spares(w)
<1>1. TypeInv /\ job[w] \in Job /\ disk \in Seq(InodeType) /\ Len(disk) \in Nat
  BY JobFacts, LenProperties DEF IInv, TypeInv
<1>2. job[w].pc # "idle"
  BY DEF Writing
<1>3. /\ Steady(job[w], job'[w])
      /\ disk' # disk => Write(w, j) /\ j.pend # <<>> /\ job'[w] = Flushed(j)
  BY <1>1, PushSteady
<1>4. PutJob(req[w], job'[w])
  BY <1>2, <1>3, SteadyFacts
<1>5. job[w].passed = "put"
  <2>1. StoreJob(w, job[w])
    BY DEF IInv, WorkerInv, StoreInv
  <2> QED BY <2>1 DEF StoreJob
<1>6. CASE disk' = disk
  <2>1. PutKept'
    BY <1>6, Zenon DEF PutKept
  <2> QED BY <1>4, <1>6, <2>1 DEF Spares, Files
<1>7. CASE disk' # disk
  <2>1. job'[w].pc = j.pc /\ job'[w].consumed = j.consumed /\ job'[w].passed = job[w].passed
    BY <1>3, <1>7, FlushedFacts DEF Steady
  <2>2. job'[w] # job[w]
    BY <2>1
  <2>3. PICK d : disk' = [disk EXCEPT ![j.ino] = d]
    BY <1>3, <1>7 DEF Write
  <2>4. HasPut => disk'[PutIno] = disk[PutIno]
    <3>1. HasPut => job[w].ino # PutIno
      BY DEF PutJob
    <3>2. HasPut => PutIno \in 1 .. Len(disk)
      <4>1. HasPut => PutIno \in 1 .. Len(InitialDisk) /\ Len(InitialDisk) \in Nat
        BY PutFacts, LenProperties
      <4>2. Len(InitialDisk) <= Len(disk)
        BY DEF PutKept
      <4> QED BY <1>1, <4>1, <4>2
    <3> QED BY <1>1, <2>3, <3>1, <3>2
  <2>5. Len(disk') = Len(disk)
    BY <1>1, <2>3
  <2>6. PutKept'
    BY <2>4, <2>5 DEF PutKept
  <2> QED BY <1>4, <1>5, <2>1, <2>2, <2>6 DEF Spares
<1> QED BY <1>6, <1>7

\* A PUT that goes on stays let in, with the same file open.
LEMMA ContinuesSteady ==
  ASSUME IInv, NEW w \in Worker, NEW k, Continues(w, k), StoreJob(w, k), k.pc \in Writing
  PROVE  Steady(job[w], k) /\ k.ino = job[w].ino
<1>1. job[w].passed = "put"
  <2>1. StoreJob(w, job[w]) /\ job[w].pc \in Writing
    BY DEF IInv, WorkerInv, StoreInv, Continues
  <2> QED BY <2>1 DEF StoreJob
<1>2. k.passed = "put"
  BY DEF StoreJob
<1>3. k.pc # "mkdir"
  BY DEF Writing
<1> QED BY <1>1, <1>2, <1>3 DEF Continues, Steady

LEMMA ForwardSpares ==
  ASSUME IInv, PutKept, NEW w \in Worker, PutJob(req[w], job[w]), Forward(w)
  PROVE  Spares(w)
<1>1. job[w].pc = "forward" /\ fs' = fs /\ UNCHANGED World
  BY Zenon DEF Forward, At
<1>2. PICK j \in Job : j = job[w]
  BY JobFacts DEF IInv
<1>3. /\ job[w].pc \in Writing /\ job[w].pc \in {"forward", "body"}
      /\ job[w].pend = <<>> /\ job[w].consumed = 0 /\ job[w].replies = <<>>
  <2>1. StoreJob(w, job[w])
    BY DEF IInv, WorkerInv, StoreInv
  <2> QED BY <1>1, <2>1 DEF StoreJob, Writing
<1>4. ASSUME NEW st \in {411, 417}, job' = [job EXCEPT ![w] = Replied(@, st)], disk' = disk
      PROVE  Spares(w)
  <2>1. PICK k : k = Replied(j, st)
    OBVIOUS
  <2>2. st \in Nat
    OBVIOUS
  <2>3. /\ k \in Job /\ k.pc = "close" /\ k.path = j.path /\ k.passed = j.passed
        /\ k.ino = j.ino
    BY <1>2, <1>3, <2>1, <2>2, JobReplies
  <2>4. Push(w, k, k)
    BY <1>2, <1>4, <2>1 DEF Push
  <2>5. Steady(job[w], k)
    BY <1>2, <1>3, <2>3 DEF Steady
  <2> QED BY <1>1, <1>2, <1>3, <2>3, <2>4, <2>5, PushSpares
<1> DEFINE b == [job[w] EXCEPT !.pc = "body", !.consumed = req[w].buffered,
                               !.pend = Body(w, 0, req[w].buffered)]
<1>5. CASE req[w].length # -1 /\ Push(w, b, b)
  <2>1. PICK n \in Nat : n = req[w].buffered /\ n <= req[w].length
    <3>1. /\ req[w].length \in Int /\ req[w].length >= -1 /\ req[w].buffered \in Nat
          /\ req[w].length >= 0 => req[w].buffered <= req[w].length
      BY JobFacts, RequestFacts DEF IInv
    <3>2. req[w].length >= 0
      BY <1>5, <3>1
    <3> QED BY <3>1, <3>2
  <2>2. b = Received(w, n)
    <3>1. 0 + n = n /\ Body(w, 0, n) \in Seq(CellType)
      BY BodyFacts
    <3>2. <<>> \o Body(w, 0, n) = Body(w, 0, n)
      BY <3>1
    <3> QED BY <1>3, <2>1, <3>1, <3>2 DEF Received
  <2>3. job[w].consumed + n <= req[w].length
    BY <1>3, <2>1
  <2> HIDE DEF b
  <2>4. b \in Job /\ Continues(w, b) /\ StoreJob(w, b) /\ b.pc = "body"
    BY <1>3, <2>2, <2>3, MoreInv
  <2>5. Steady(job[w], b) /\ b.ino = job[w].ino
    BY <2>4, ContinuesSteady DEF Writing
  <2> QED BY <1>1, <1>3, <1>5, <2>4, <2>5, PushSpares
<1>6. \/ \E st \in {411, 417} : job' = [job EXCEPT ![w] = Replied(@, st)] /\ disk' = disk
      \/ req[w].length # -1 /\ Push(w, b, b)
  BY ZenonT(60) DEF Forward
<1> QED BY <1>4, <1>5, <1>6

LEMMA ReceiveSpares ==
  ASSUME IInv, PutKept, NEW w \in Worker, PutJob(req[w], job[w]), Receive(w)
  PROVE  Spares(w)
<1>1. job[w].pc = "body" /\ fs' = fs /\ UNCHANGED World
  BY Zenon DEF Receive, At
<1>2. PICK j \in Job : j = job[w]
  BY JobFacts DEF IInv
<1>3. job[w].pc \in Writing /\ job[w].pc \in {"forward", "body"} /\ job[w].replies = <<>>
  <2>1. StoreJob(w, job[w])
    BY DEF IInv, WorkerInv, StoreInv
  <2> QED BY <1>1, <2>1 DEF StoreJob, Writing
<1>4. PICK c \in Nat, len \in Int : c = job[w].consumed /\ len = req[w].length
  BY <1>2, JobFields, JobFacts, RequestFacts DEF IInv
<1>5. ASSUME NEW st \in Nat, job' = [job EXCEPT ![w] = Replied(job[w], st)], disk' = disk
      PROVE  Spares(w)
  <2>1. PICK k : k = Replied(j, st)
    OBVIOUS
  <2>2. /\ k \in Job /\ k.pc = "close" /\ k.path = j.path /\ k.passed = j.passed
        /\ k.ino = j.ino
    BY <1>2, <1>3, <2>1, JobReplies
  <2>3. Push(w, k, k)
    BY <1>2, <1>5, <2>1 DEF Push
  <2>4. Steady(job[w], k)
    BY <1>2, <1>3, <2>2 DEF Steady
  <2> QED BY <1>1, <1>2, <1>3, <2>2, <2>3, <2>4, PushSpares
<1>6. ASSUME NEW n \in 1 .. Min({len - c, Chunk}),
             Push(w, [job[w] EXCEPT !.consumed = @ + n,
                                    !.pend = @ \o Body(w, job[w].consumed, job[w].consumed + n)],
                  Replied([job[w] EXCEPT !.consumed = @ + n,
                             !.pend = @ \o Body(w, job[w].consumed, job[w].consumed + n)], 577))
      PROVE  Spares(w)
  <2> DEFINE m == [job[w] EXCEPT !.consumed = @ + n,
                     !.pend = @ \o Body(w, job[w].consumed, job[w].consumed + n)]
  <2>1. m = Received(w, n)
    <3>1. [job[w] EXCEPT !.pc = "body"] = job[w]
      BY <1>1, <1>2 DEF Job
    <3> QED BY <3>1, <1>1, <1>2 DEF Received, Job
  <2>2. n \in Nat /\ n >= 1 /\ c + n <= len
    <3>1. Chunk \in Int
      BY Bounds
    <3>2. PICK x \in Int : x = len - c
      OBVIOUS
    <3>3. Min({x, Chunk}) = IF x <= Chunk THEN x ELSE Chunk
      BY <3>1, MinOfTwo
    <3>4. PICK y \in Int : y = Min({x, Chunk}) /\ y <= x
      BY <3>1, <3>3
    <3>5. n \in 1 .. y
      BY <3>2, <3>4
    <3> QED BY <3>2, <3>4, <3>5
  <2>3. job[w].consumed + n <= req[w].length
    BY <1>4, <2>2
  <2> HIDE DEF m
  <2>4. /\ m \in Job /\ Continues(w, m) /\ StoreJob(w, m) /\ m.pc = "body"
        /\ m.replies = <<>> /\ m.consumed = c + n
    BY <1>3, <1>4, <2>1, <2>2, <2>3, MoreInv
  <2>5. m.consumed # job[w].consumed
    BY <1>4, <2>2, <2>4
  <2>6. PICK f : f = Replied(m, 577)
    OBVIOUS
  <2>7. Push(w, m, f)
    BY <1>6, <2>6 DEF m
  <2>8. Steady(job[w], m) /\ m.ino = job[w].ino
    BY <2>4, ContinuesSteady DEF Writing
  <2>9. f \in Job /\ Steady(job[w], f)
    <3>1. /\ f \in Job /\ f.pc = "close" /\ f.path = m.path /\ f.passed = m.passed
          /\ f.ino = m.ino
      <4>1. 577 \in Nat
        OBVIOUS
      <4> QED BY <2>4, <2>6, <4>1, JobReplies
    <3> QED BY <1>3, <2>8, <3>1 DEF Steady
  <2> QED BY <1>1, <1>3, <2>4, <2>5, <2>7, <2>8, <2>9, PushSpares
<1>7. job[w].status \in Nat /\ 577 \in Nat
  BY <1>2, JobFields
<1> QED BY ZenonT(60), <1>4, <1>5, <1>6, <1>7 DEF Receive

LEMMA CloseSpares ==
  ASSUME IInv, PutKept, NEW w \in Worker, PutJob(req[w], job[w]), Close(w)
  PROVE  Spares(w)
<1>1. job[w].pc = "close" /\ job[w].pc \in Writing /\ fs' = fs /\ UNCHANGED World
  BY Zenon DEF Close, At, Writing
<1>2. PICK j \in Job : j = job[w]
  BY JobFacts DEF IInv
<1>3. PICK k : k = [job[w] EXCEPT !.pc = "end"]
  OBVIOUS
<1>4. /\ k \in Job /\ k.pc = "end" /\ k.path = j.path /\ k.ino = j.ino
      /\ k.passed = j.passed
  <2>1. "end" \in Place
    BY DEF Place
  <2> QED BY <1>2, <1>3, <2>1 DEF Job
<1>5. Steady(job[w], k)
  BY <1>2, <1>4 DEF Steady, Writing
<1>6. Push(w, k, k)
  BY <1>3 DEF Close, Push
<1> QED BY <1>1, <1>2, <1>4, <1>5, <1>6, PushSpares

\* Each step of a request spares the PUT passwords file.
LEMMA HandleSpares ==
  ASSUME IInv, PutKept, NEW w \in Worker, PutJob(req[w], job[w]), Handle(w)
  PROVE  Spares(w)
<1>1. CASE Convert(w)
  BY <1>1, ConvertKeeps, QuietSpares
<1>2. CASE \/ Authorize(w) \/ Scan(w) \/ Open(w) \/ Send(w) \/ OpenSsi(w) \/ Ssi(w)
  BY <1>2, ReadersKeep, QuietSpares
<1>3. CASE Dispatch(w)
  BY <1>3, DispatchKeeps, QuietSpares
<1>4. CASE PutDir(w)
  BY <1>4, PutDirKeeps, QuietSpares
<1>5. CASE Change(w) \/ MkDir(w) \/ PutOpen(w) \/ Forward(w) \/ Receive(w) \/ Close(w)
  BY <1>5, ChangeSpares, MkDirSpares, PutOpenSpares, ForwardSpares, ReceiveSpares, CloseSpares
<1> QED BY <1>1, <1>2, <1>3, <1>4, <1>5 DEF Handle

\* A new file at another path than that of the PUT passwords file.
LEMMA NewFileKept ==
  ASSUME IInv, PutKept, NEW p, p # PutFile, NEW e, disk' = Append(disk, e),
         fs' = [fs EXCEPT ![p] = [kind |-> "file", ino |-> Len(disk) + 1]]
  PROVE  PutKept'
<1>1. disk \in Seq(InodeType) /\ Len(disk) \in Nat
  BY LenProperties DEF IInv, TypeInv
<1>2. disk \in Seq(InodeType \cup {e})
  BY <1>1, SeqMonotonic
<1>3. Len(disk') = Len(disk) + 1 /\ \A n \in 1 .. Len(disk) : disk'[n] = disk[n]
  BY <1>2, AppendProperties
<1>4. HasPut => PutIno \in 1 .. Len(disk)
  <2>1. HasPut => PutIno \in 1 .. Len(InitialDisk) /\ Len(InitialDisk) \in Nat
    BY PutFacts, LenProperties
  <2>2. Len(InitialDisk) <= Len(disk)
    BY DEF PutKept
  <2> QED BY <1>1, <2>1, <2>2
<1>5. PICK n \in Nat : n = Len(disk) + 1
  BY <1>1
<1>6. PICK x : x = [kind |-> "file", ino |-> n]
  OBVIOUS
<1>7. x.ino = n /\ (HasPut => n # PutIno)
  BY <1>1, <1>4, <1>5, <1>6
<1>8. fs' = [fs EXCEPT ![p] = x] /\ Len(disk') \in Nat /\ Len(disk) <= Len(disk')
  BY <1>1, <1>3, <1>5, <1>6
<1>9. HasPut => disk'[PutIno].data = disk[PutIno].data
  BY <1>3, <1>4
<1> QED BY <1>7, <1>8, <1>9, PathKept

\* So does the editor of the other one.
LEMMA EditorKeeps ==
  ASSUME IInv, PutKept, ModifyPasswords
  PROVE  PutKept' /\ req' = req /\ job' = job /\ editor' # editor
<1>1. /\ fs \in [Path -> FileType] /\ Len(disk) \in Nat
      /\ Edit.file \in Path /\ Edit.tmp \in Path
      /\ Edit.file # PutFile /\ Edit.tmp # PutFile
  BY LenProperties, EditFacts, PutFacts DEF IInv, TypeInv
<1>2. req' = req /\ job' = job /\ editor' # editor
  BY DEF ModifyPasswords, Create, Copy, CopyFails, RemoveOld, Rename
<1>3. PICK x : x = [kind |-> "none", ino |-> 0]
  OBVIOUS
<1>4. x.kind # "file"
  BY <1>3
<1>5. CASE UNCHANGED Files
  BY <1>2, <1>5, Zenon DEF Files, PutKept
<1>6. CASE Create /\ ~UNCHANGED Files
  BY <1>1, <1>2, <1>6, NewFileKept DEF Create
<1>7. CASE Copy
  BY <1>1, <1>2, <1>7, NewFileKept DEF Copy
<1>8. CASE RemoveOld
  <2>1. fs' = [fs EXCEPT ![Edit.file] = x] /\ disk' = disk
    BY <1>3, <1>8 DEF RemoveOld
  <2>2. Len(disk') \in Nat /\ Len(disk) <= Len(disk')
    BY <1>1, <2>1
  <2> QED BY <1>1, <1>2, <1>4, <2>1, <2>2, PathKept
<1>9. CASE Rename
  <2>1. fs' = [fs EXCEPT ![Edit.file] = fs[Edit.tmp], ![Edit.tmp] = x] /\ disk' = disk
    BY <1>3, <1>9 DEF Rename
  <2>2. PutFile \in Path => fs'[PutFile] = fs[PutFile]
    BY <1>1, <2>1
  <2>3. ASSUME HasPut, NEW q \in Path \ {PutFile}, fs'[q].kind = "file"
        PROVE  fs'[q].ino # PutIno
    <3>1. \E p \in Path \ {PutFile} : fs'[q] = x \/ fs'[q] = fs[p]
      BY <1>1, <2>1
    <3>2. PICK p \in Path \ {PutFile} : fs'[q] = x \/ fs'[q] = fs[p]
      BY <3>1
    <3>3. fs'[q] = fs[p]
      BY <1>4, <2>3, <3>2
    <3> QED BY <2>3, <3>3 DEF PutKept
  <2>4. PutKept'
    BY <2>1, <2>2, <2>3 DEF PutKept
  <2> QED BY <1>2, <2>4
<1> QED BY <1>5, <1>6, <1>7, <1>8, <1>9 DEF ModifyPasswords, CopyFails

\* What a step that changes a file is: one of the editor, or of a request that
\* has been let in.
Allowed ==
  Files' # Files =>
    \/ editor' # editor
    \/ \E w \in Worker :
         /\ job'[w] # job[w] /\ job'[w].passed = "put"
         /\ IsPutOrDelete(req[w]) /\ req[w].cred \in ToSet(Before(PutFile))

\* Together: no step changes it, and those that change files are allowed.
LEMMA PutFileStep ==
  ASSUME IInv, PutFileInv, [Next]_vars
  PROVE  PutFileInv' /\ Allowed
<1>1. PutKept /\ \A w \in Worker : PutJob(req[w], job[w])
  BY DEF PutFileInv
<1>2. ASSUME NEW v \in Worker, Handle(v) PROVE PutFileInv' /\ Allowed
  <2>1. Spares(v)
    BY <1>1, <1>2, HandleSpares
  <2>2. Others(v)
    <3>1. TypeInv
      BY DEF IInv
    <3> QED BY <1>2, <3>1, OthersStay
  <2>3. req' = req
    BY Zenon, <1>2 DEF Handle, World, Convert, Authorize, Change, Dispatch, Scan, Open, Send,
       PutDir, MkDir, PutOpen, Forward, Receive, Close, OpenSsi, Ssi
  <2>4. ASSUME NEW w \in Worker PROVE PutJob(req[w], job'[w])
    <3>1. CASE w = v
      BY <2>1, <3>1 DEF Spares
    <3>2. CASE w # v
      <4>1. PutJob(req[w], job[w])
        BY <1>1
      <4>2. /\ job'[w].pc = job[w].pc /\ job'[w].path = job[w].path
            /\ job'[w].ino = job[w].ino
            /\ job'[w].passed = job[w].passed /\ job'[w].depth = job[w].depth
        BY <2>2, <3>2 DEF Others
      <4> QED BY <4>1, <4>2 DEF PutJob
    <3> QED BY <3>1, <3>2
  <2>5. PutFileInv'
    <3>1. \A w \in Worker : PutJob(req[w], job[w])'
      BY <2>3, <2>4 DEF PutJob
    <3> QED BY <2>1, <3>1 DEF PutFileInv, Spares
  <2>6. Allowed
    <3>1. job'[v].passed = "put" => IsPutOrDelete(req[v]) /\ req[v].cred \in ToSet(Before(PutFile))
      BY <2>1 DEF Spares, PutJob
    <3> QED BY <2>1, <3>1 DEF Spares, Allowed
  <2> QED BY <2>5, <2>6
<1>3. CASE ModifyPasswords
  <2>1. PutKept' /\ req' = req /\ job' = job /\ editor' # editor
    BY <1>1, <1>3, EditorKeeps
  <2>2. \A w \in Worker : PutJob(req[w], job[w])'
    BY <1>1, <2>1, Zenon
  <2> QED BY <2>1, <2>2 DEF PutFileInv, Allowed
<1>4. CASE UNCHANGED <<fs, disk, req, job>>
  <2>1. PutFileInv'
    BY <1>4, Zenon DEF PutFileInv, PutKept
  <2> QED BY <1>4, <2>1 DEF Files, Allowed
<1>5. \/ \E v \in Worker : Handle(v)
      \/ ModifyPasswords
      \/ UNCHANGED <<fs, disk, req, job>>
  BY DEF Next, vars, Files, Leave, Tick, Stop
<1> QED BY <1>2, <1>3, <1>4, <1>5

\* It is as it was, at first.
LEMMA InitPutFile ==
  ASSUME Init
  PROVE  PutFileInv
<1>1. fs = InitialFs /\ disk = InitialDisk /\ job = [w \in Worker |-> Job0]
  BY Zenon DEF Init, Job0
<1>2. PutKept
  <2>1. Len(InitialDisk) \in Nat
    BY FilesAssumption, LenProperties DEF FilesAssumption
  <2>2. HasPut => \A p \in Path \ {PutFile} : fs[p].kind = "file" => fs[p].ino # PutIno
    BY <1>1, PutFacts
  <2> QED BY <1>1, <2>1, <2>2 DEF PutKept
<1>3. ASSUME NEW w \in Worker PROVE PutJob(req[w], job[w])
  <2>1. job[w].pc = "idle" /\ job[w].passed = "no"
    <3>1. job[w] = Job0
      BY <1>1
    <3> QED BY <3>1 DEF Job0
  <2> QED BY <2>1 DEF PutJob, Writing
<1> QED BY <1>2, <1>3 DEF PutFileInv

\* A file is only changed by mg_modify_passwords_file, or for a user whom the
\* PUT passwords file, as it was before the first request, has let in: no
\* request can make itself be let in by changing that file.
THEOREM OnlyTheAuthorized == Spec => ChangesAuthorized
<1>1. Init => IInv /\ PutFileInv
  BY InitInv, InitPutFile
<1>2. IInv /\ PutFileInv /\ [Next]_vars => IInv' /\ PutFileInv' /\ Allowed
  BY NextInv, PutFileStep
<1> DEFINE Changed ==
      Files' # Files =>
       \/ editor' # editor
       \/ \E w \in Worker :
            /\ job'[w] # job[w] /\ job'[w].passed = "put"
            /\ IsPutOrDelete(req[w]) /\ req[w].cred \in ToSet(Before(Config.put))
<1>3. Allowed => Changed
  BY DEF Allowed, PutFile
<1>4. Spec => [][Changed]_vars
  <2> HIDE DEF Changed
  <2> QED BY <1>1, <1>2, <1>3, PTL DEF Spec
<1> QED BY <1>4 DEF ChangesAuthorized
-----------------------------------------------------------------------------
(* What requests are let out to whom *)

\* What most steps make of the job of a worker, as far as the guarded directory
\* and what is hidden tell.
Goes(r, j, k) ==
  /\ k.path = j.path /\ k.file = j.file /\ k.gap = j.gap /\ k.passed \in {j.passed, "put"}
  /\ k.pc \notin {"idle", "authorize"} /\ k.depth \in {j.depth, j.depth + 1} /\ Making(r, k)
  /\ 401 \in ToSet(k.replies) => 401 \in ToSet(j.replies) \/ IsPutOrDelete(r)

Moves(r, j, k) ==
  Goes(r, j, k) /\ k.names = j.names /\ k.sent = j.sent /\ k.pc \notin {"open", "send"}

\* One more reply.
LEMMA OneMore ==
  ASSUME NEW s \in Seq(Nat), NEW c \in Nat
  PROVE  Append(s, c) \in Seq(Nat) /\ ToSet(Append(s, c)) = ToSet(s) \cup {c}
<1>1. PICK t \in Seq(Nat) : t = Append(s, c)
  BY AppendProperties
<1>2. PICK n \in Nat : n = Len(s) /\ DOMAIN s = 1 .. n
  BY LenProperties
<1>3. /\ Len(t) = n + 1 /\ DOMAIN t = 1 .. n + 1
      /\ t[n + 1] = c /\ \A i \in 1 .. n : t[i] = s[i]
  BY <1>1, <1>2, AppendProperties, LenProperties
<1>4. 1 .. n + 1 = (1 .. n) \cup {n + 1}
  OBVIOUS
<1>5. ToSet(t) = ToSet(s) \cup {c}
  BY <1>2, <1>3, <1>4 DEF ToSet
<1> QED BY <1>1, <1>5

\* What Answer adds to the status lines of a job.
LEMMA AnswerAppends ==
  ASSUME NEW j \in Job, NEW c \in Nat
  PROVE  \E s \in Seq(Nat) :
           s = Append(j.replies, c) /\ ToSet(s) = ToSet(j.replies) \cup {c}
<1>1. j.replies \in Seq(Nat)
  BY JobFields
<1>2. /\ Append(j.replies, c) \in Seq(Nat)
      /\ ToSet(Append(j.replies, c)) = ToSet(j.replies) \cup {c}
  BY Zenon, <1>1, OneMore
<1> QED BY Zenon, <1>2

LEMMA AnswerMoves ==
  ASSUME IInv, NEW w \in Worker, NEW c \in Nat, Answer(w, c),
         c # 401 \/ IsPutOrDelete(req[w])
  PROVE  Moves(req[w], job[w], job'[w]) /\ job'[w].pc = "end"
<1>1. job[w] \in Job /\ job \in [Worker -> Job]
  BY DEF IInv, TypeInv
<1>2. PICK s \in Seq(Nat) : s = Append(job[w].replies, c) /\ ToSet(s) = ToSet(job[w].replies) \cup {c}
  BY Zenon, <1>1, AnswerAppends
<1>3. job'[w] = [job[w] EXCEPT !.pc = "end", !.replies = s]
  <2> HIDE DEF Job
  <2> QED BY <1>1, <1>2 DEF Answer
<1>4. /\ job'[w].pc = "end" /\ job'[w].path = job[w].path /\ job'[w].file = job[w].file
      /\ job'[w].gap = job[w].gap /\ job'[w].passed = job[w].passed
      /\ job'[w].names = job[w].names /\ job'[w].sent = job[w].sent
      /\ job'[w].depth = job[w].depth /\ job'[w].replies = s
  BY <1>1, <1>3 DEF Job
<1> QED BY <1>2, <1>4 DEF Moves, Goes, Making

LEMMA GotoMoves ==
  ASSUME IInv, NEW w \in Worker, NEW l \in {"dispatch", "list", "propfind", "putOpen", "end"},
         Goto(w, l)
  PROVE  Moves(req[w], job[w], job'[w]) /\ job'[w].pc = l
<1>1. job[w] \in Job /\ job \in [Worker -> Job]
  BY DEF IInv, TypeInv
<1>2. job'[w] = [job[w] EXCEPT !.pc = l]
  <2> HIDE DEF Job
  <2> QED BY <1>1 DEF Goto
<1>3. /\ job'[w].pc = l /\ job'[w].path = job[w].path /\ job'[w].file = job[w].file
      /\ job'[w].gap = job[w].gap /\ job'[w].passed = job[w].passed
      /\ job'[w].names = job[w].names /\ job'[w].sent = job[w].sent
      /\ job'[w].depth = job[w].depth /\ job'[w].replies = job[w].replies
  BY <1>1, <1>2 DEF Job
<1> QED BY <1>3 DEF Moves, Goes, Making

\* The steps of PUT and DELETE.
LEMMA ChangeMoves ==
  ASSUME IInv, NEW w \in Worker, Change(w)
  PROVE  /\ Moves(req[w], job[w], job'[w]) /\ job'[w].pc \in {"end", "putDir"}
         /\ IsPutOrDelete(req[w]) /\ job[w].pc # "idle"
         /\ \/ UNCHANGED Files
            \/ /\ fs' = [fs EXCEPT ![job[w].path] = [kind |-> "none", ino |-> 0]]
               /\ disk' = disk /\ Removable(job[w].path)
<1>1. /\ job[w] \in Job /\ job \in [Worker -> Job] /\ IsPutOrDelete(req[w])
      /\ job[w].pc = "dispatch"
  BY Zenon DEF IInv, TypeInv, Change, At
<1>2. CASE \E s \in {401, 500} : Answer(w, s) /\ UNCHANGED Files
  BY <1>1, <1>2, AnswerMoves
<1>3. CASE /\ job' = [job EXCEPT ![w].pc = "end", ![w].passed = "put", ![w].replies = Append(@, 200)]
           /\ fs' = [fs EXCEPT ![job[w].path] = [kind |-> "none", ino |-> 0]]
           /\ UNCHANGED disk /\ Removable(job[w].path)
  <2>1. PICK s \in Seq(Nat) : s = Append(job[w].replies, 200)
    <3>1. job[w] \in Job
      BY <1>1
    <3>2. PICK c \in Nat : c = 200
      OBVIOUS
    <3>3. \E s \in Seq(Nat) : s = Append(job[w].replies, c)
                              /\ ToSet(s) = ToSet(job[w].replies) \cup {c}
      BY Zenon, <3>1, AnswerAppends
    <3> QED BY <3>2, <3>3
  <2>2. job'[w] = [job[w] EXCEPT !.pc = "end", !.passed = "put", !.replies = s]
    <3> HIDE DEF Job
    <3> QED BY <1>1, <1>3, <2>1
  <2>3. /\ job'[w].pc = "end" /\ job'[w].path = job[w].path /\ job'[w].file = job[w].file
        /\ job'[w].gap = job[w].gap /\ job'[w].passed = "put"
        /\ job'[w].names = job[w].names /\ job'[w].sent = job[w].sent
        /\ job'[w].depth = job[w].depth
    BY <1>1, <2>2 DEF Job
  <2> QED BY <1>1, <1>3, <2>3 DEF Moves, Goes, Making
<1>4. CASE /\ UNCHANGED Files
           /\ job' = [job EXCEPT ![w].pc = "putDir", ![w].passed = "put",
                                 ![w].status = IF Exists(job[w].path) /\ Reached(w) THEN 200 ELSE 201]
  <2>1. PICK s : s = IF Exists(job[w].path) /\ Reached(w) THEN 200 ELSE 201
    OBVIOUS
  <2>2. job'[w] = [job[w] EXCEPT !.pc = "putDir", !.passed = "put", !.status = s]
    <3> HIDE DEF Job
    <3> QED BY <1>1, <1>4, <2>1
  <2>3. /\ job'[w].pc = "putDir" /\ job'[w].path = job[w].path /\ job'[w].file = job[w].file
        /\ job'[w].gap = job[w].gap /\ job'[w].passed = "put"
        /\ job'[w].names = job[w].names /\ job'[w].sent = job[w].sent
        /\ job'[w].depth = job[w].depth
    BY <1>1, <2>2 DEF Job
  <2> QED BY <1>1, <1>4, <2>3 DEF Moves, Goes, Making
<1> QED BY <1>2, <1>3, <1>4 DEF Change, Delete

LEMMA PutDirMoves ==
  ASSUME IInv, NEW w \in Worker, job[w].depth # 0, PutDir(w)
  PROVE  Moves(req[w], job[w], job'[w]) /\ job'[w].pc \notin Writing /\ Quiet
<1>1. job[w] \in Job /\ job \in [Worker -> Job] /\ job[w].pc = "putDir" /\ Quiet
  BY Zenon DEF IInv, TypeInv, PutDir, At, Quiet
<1>2. PICK n \in Nat, m \in Nat : n = job[w].depth /\ m = Len(job[w].path) /\ n # 0
  <2>1. Len(job[w].path) \in Nat
    BY <1>1, JobFields, Bounds, EmptySeq, LenProperties
  <2> QED BY <1>1, <2>1, JobFields
<1>3. PICK e \in BOOLEAN : e = Exists(SubSeq(job[w].path, 1, job[w].depth))
  BY DEF Exists
<1>4. CASE Goto(w, "putOpen")
  BY <1>1, <1>4, GotoMoves DEF Writing
<1>5. CASE Answer(w, job[w].status)
  <2>1. StoreJob(w, job[w])
    BY DEF IInv, WorkerInv, StoreInv
  <2>2. job[w].status \in Nat /\ job[w].status # 401
    BY <1>1, <2>1 DEF StoreJob, Putting
  <2> QED BY <1>1, <1>5, <2>2, AnswerMoves DEF Writing
<1>6. CASE /\ n <= IF Slashed(w) THEN m ELSE m - 1
           /\ job' = [job EXCEPT ![w].pc = IF e THEN @ ELSE "mkdir",
                                 ![w].depth = IF e THEN @ + 1 ELSE @]
  <2>1. PICK l, d : l = (IF e THEN "putDir" ELSE "mkdir") /\ d = (IF e THEN n + 1 ELSE n)
    OBVIOUS
  <2>2. job'[w] = [job[w] EXCEPT !.pc = l, !.depth = d]
    <3> HIDE DEF Job
    <3> QED BY <1>1, <1>2, <1>6, <2>1
  <2>3. /\ job'[w].pc = l /\ job'[w].path = job[w].path /\ job'[w].file = job[w].file
        /\ job'[w].gap = job[w].gap /\ job'[w].passed = job[w].passed
        /\ job'[w].names = job[w].names /\ job'[w].sent = job[w].sent
        /\ job'[w].depth = d /\ job'[w].replies = job[w].replies
    BY <1>1, <2>2 DEF Job
  <2>4. Making(req[w], job'[w])
    BY <1>2, <1>6, <2>1, <2>3 DEF Making, Slashed
  <2> QED BY <1>1, <1>2, <2>1, <2>3, <2>4 DEF Moves, Goes, Writing
<1>7. \/ Goto(w, "putOpen") \/ Answer(w, job[w].status)
      \/ /\ ~(n > IF Slashed(w) THEN m ELSE m - 1)
         /\ job' = [job EXCEPT ![w].pc = IF e THEN @ ELSE "mkdir",
                               ![w].depth = IF e THEN @ + 1 ELSE @]
  BY <1>2, <1>3 DEF PutDir
<1>8. ~(n > IF Slashed(w) THEN m ELSE m - 1) => n <= IF Slashed(w) THEN m ELSE m - 1
  BY <1>2
<1> QED BY <1>4, <1>5, <1>6, <1>7, <1>8

LEMMA MkDirMoves ==
  ASSUME IInv, NEW w \in Worker, MkDir(w)
  PROVE  /\ Moves(req[w], job[w], job'[w]) /\ job'[w].pc \notin Writing
         /\ disk' = disk /\ job[w].pc = "mkdir"
         /\ LET q == SubSeq(job[w].path, 1, job[w].depth) IN
              fs' = fs \/ (fs[q].kind = "none" /\ fs' = [fs EXCEPT ![q] = [kind |-> "dir", ino |-> 0]])
<1>1. job[w] \in Job /\ job \in [Worker -> Job] /\ job[w].pc = "mkdir" /\ disk' = disk
  BY Zenon DEF IInv, TypeInv, MkDir, At
<1>2. CASE Answer(w, 500) /\ UNCHANGED fs
  BY <1>1, <1>2, AnswerMoves DEF Writing
<1>3. CASE job' = [job EXCEPT ![w].pc = "putDir", ![w].depth = @ + 1]
  <2>1. PICK d : d = job[w].depth + 1
    OBVIOUS
  <2>2. job'[w] = [job[w] EXCEPT !.pc = "putDir", !.depth = d]
    <3> HIDE DEF Job
    <3> QED BY <1>1, <1>3, <2>1
  <2>3. /\ job'[w].pc = "putDir" /\ job'[w].path = job[w].path /\ job'[w].file = job[w].file
        /\ job'[w].gap = job[w].gap /\ job'[w].passed = job[w].passed
        /\ job'[w].names = job[w].names /\ job'[w].sent = job[w].sent
        /\ job'[w].depth = d /\ job'[w].replies = job[w].replies
    BY <1>1, <2>2 DEF Job
  <2>4. Moves(req[w], job[w], job'[w]) /\ job'[w].pc \notin Writing
    BY <2>1, <2>3 DEF Moves, Goes, Making, Writing
  <2> QED BY <1>1, <1>3, <2>4 DEF MkDir
<1> QED BY <1>1, <1>2, <1>3 DEF MkDir

\* fopen of the path, as far as the directory and the disk tell.
Fopens(w, ino) ==
  LET p == job[w].path IN
  /\ p \in Path /\ ~IsDir(p) /\ job'[w].pc = "forward" /\ job'[w].ino = ino
  /\ fs' = [fs EXCEPT ![p] = [kind |-> "file", ino |-> ino]]
  /\ \/ IsFile(p) /\ ino = fs[p].ino /\ disk' = [disk EXCEPT ![ino] = Empty]
     \/ ~IsFile(p) /\ ino = Len(disk) + 1 /\ disk' = Append(disk, Empty)

LEMMA PutOpenMoves ==
  ASSUME IInv, NEW w \in Worker, PutOpen(w)
  PROVE  /\ Moves(req[w], job[w], job'[w]) /\ job[w].pc = "putOpen"
         /\ \/ UNCHANGED Files /\ job'[w].pc = "end"
            \/ \E ino \in Nat : Fopens(w, ino)
<1>1. /\ job[w] \in Job /\ job \in [Worker -> Job] /\ job[w].pc = "putOpen"
      /\ Len(disk) \in Nat
  BY Zenon, LenProperties DEF IInv, TypeInv, PutOpen, At
<1>2. CASE Answer(w, 500) /\ UNCHANGED Files
  BY <1>1, <1>2, AnswerMoves
<1>3. CASE IsDir(Parent(job[w].path)) /\ ~IsDir(job[w].path)
  <2> DEFINE p == job[w].path
  <2> DEFINE ino0 == IF IsFile(p) THEN fs[p].ino ELSE Len(disk) + 1
  <2>1. p \in Path
    BY <1>1, <1>3, JobFields DEF IsDir
  <2>2. PICK ino \in Nat : /\ ino = ino0
                           /\ IsFile(p) => ino = fs[p].ino
                           /\ ~IsFile(p) => ino = Len(disk) + 1
    BY <1>1, <2>1, FsFacts
  <2>3. /\ fs' = [fs EXCEPT ![p] = [kind |-> "file", ino |-> ino0]]
        /\ disk' = IF IsFile(p) THEN [disk EXCEPT ![ino0] = Empty] ELSE Append(disk, Empty)
        /\ job' = [v \in Worker |->
             IF v = w THEN [job[w] EXCEPT !.pc = "forward", !.ino = ino0, !.off = Seek(req[w]),
                              !.status = IF req[w].range.n > 0 THEN 206 ELSE @,
                              !.shared = Writers(ino0) # {}]
             ELSE IF v \in Writers(ino0) THEN [job[v] EXCEPT !.shared = TRUE] ELSE job[v]]
    BY <1>3, Zenon DEF PutOpen
  <2>4. PICK off, st, sh : /\ off = Seek(req[w]) /\ sh = (Writers(ino0) # {})
                           /\ st = IF req[w].range.n > 0 THEN 206 ELSE job[w].status
    OBVIOUS
  <2> HIDE DEF ino0
  <2>5. job'[w] = [job[w] EXCEPT !.pc = "forward", !.ino = ino, !.off = off,
                                 !.status = st, !.shared = sh]
    <3>1. job'[w] = [job[w] EXCEPT !.pc = "forward", !.ino = ino0, !.off = Seek(req[w]),
                                !.status = IF req[w].range.n > 0 THEN 206 ELSE @,
                                !.shared = Writers(ino0) # {}]
      BY Zenon, <2>3
    <3> QED BY <2>2, <2>4, <3>1
  <2>6. /\ job'[w].pc = "forward" /\ job'[w].path = p /\ job'[w].file = job[w].file
        /\ job'[w].gap = job[w].gap /\ job'[w].passed = job[w].passed
        /\ job'[w].names = job[w].names /\ job'[w].sent = job[w].sent
        /\ job'[w].depth = job[w].depth /\ job'[w].replies = job[w].replies
        /\ job'[w].ino = ino
    BY <1>1, <2>5 DEF Job
  <2>7. Moves(req[w], job[w], job'[w])
    BY <2>6 DEF Moves, Goes, Making
  <2>8. Fopens(w, ino)
    BY <1>3, <2>1, <2>2, <2>3, <2>6 DEF Fopens
  <2> QED BY <1>1, <2>7, <2>8
<1> QED BY <1>1, <1>2, <1>3, Zenon DEF PutOpen

\* What a write makes of the disk: cells of w, or holes, in the file it has open.
Writes(w) ==
  \/ disk' = disk
  \/ \E d : /\ disk' = [disk EXCEPT ![job[w].ino] = d]
            /\ \A c \in ToSet(d.data) : c \in ToSet(disk[job[w].ino].data) \/ c = Hole \/ c.by = w

PutMoves(w) ==
  /\ Moves(req[w], job[w], job'[w]) /\ job'[w].ino = job[w].ino
  /\ fs' = fs /\ job[w].pc \in Writing /\ Writes(w)

LEMMA FlushWrites ==
  ASSUME IInv, NEW w \in Worker, NEW j \in Job, job[w].pc \in Writing, j.ino = job[w].ino,
         StoreJob(w, j), Write(w, j)
  PROVE  Writes(w)
<1>1. job[w].ino \in 1 .. Len(disk)
  BY DEF IInv, WorkerInv, StoreInv, StoreJob, Inode
<1>2. PICK data \in Seq(CellType) : data = disk[job[w].ino].data
  BY <1>1, DiskFacts DEF IInv
<1>3. PICK e \in Seq(CellType), off \in Nat : e = j.pend /\ off = j.off
  BY JobFields
<1>4. PICK t : t = Written(data, off, e)
  OBVIOUS
<1>5. Overlaid(t, data, off, e)
  BY <1>4, WrittenFacts
<1>6. PICK d : d = [data |-> t, mtime |-> now]
  OBVIOUS
<1>7. ASSUME NEW c \in ToSet(d.data)
      PROVE  c \in ToSet(disk[job[w].ino].data) \/ c = Hole \/ c.by = w
  <2>1. d.data = t /\ t \in Seq(CellType)
    BY <1>5, <1>6 DEF Overlaid
  <2>2. PICK k \in 1 .. Len(t) : c = t[k]
    BY <1>7, <2>1, LenProperties DEF ToSet
  <2>3. c = IF k > off /\ k <= off + Len(e) THEN e[k - off]
            ELSE IF k <= Len(data) THEN data[k] ELSE Hole
    BY <1>5, <2>2 DEF Overlaid
  <2>4. k \in Nat /\ k >= 1 /\ Len(e) \in Nat /\ Len(data) \in Nat
    BY <2>1, <2>2, LenProperties
  <2>5. CASE k > off /\ k <= off + Len(e)
    <3>1. k - off \in 1 .. Len(e)
      BY <2>4, <2>5
    <3>2. PICK i \in 1 .. Len(e) : i = k - off
      BY <3>1
    <3>3. e[i] = Cell(w, Stored(j) + i)
      BY <1>3 DEF StoreJob
    <3> QED BY <2>3, <2>5, <3>2, <3>3 DEF Cell
  <2>6. CASE ~(k > off /\ k <= off + Len(e)) /\ k <= Len(data)
    <3>1. c = data[k] /\ k \in 1 .. Len(data)
      BY <2>3, <2>4, <2>6
    <3>2. data[k] \in ToSet(data)
      BY <3>1, LenProperties DEF ToSet
    <3> QED BY <1>2, <3>1, <3>2
  <2>7. CASE ~(k > off /\ k <= off + Len(e)) /\ ~(k <= Len(data))
    BY <2>3, <2>7
  <2> QED BY <2>5, <2>6, <2>7
<1>8. disk' = disk \/ disk' = [disk EXCEPT ![job[w].ino] = d]
  <2>1. CASE j.pend = <<>>
    BY <2>1 DEF Write
  <2>2. CASE j.pend # <<>>
    <3>1. disk' = [disk EXCEPT ![job[w].ino] = [data |-> Written(@.data, off, e), mtime |-> now]]
      BY <1>3, <2>2 DEF Write
    <3>2. disk' = [disk EXCEPT ![job[w].ino] = [data |-> Written(data, off, e), mtime |-> now]]
      BY <1>2, <3>1
    <3> QED BY <1>4, <1>6, <3>2
  <2> QED BY <2>1, <2>2
<1> QED BY <1>7, <1>8 DEF Writes

\* A push of what w is from now on.
LEMMA PushMoves ==
  ASSUME IInv, NEW w \in Worker, job[w].pc \in Writing, fs' = fs, NEW j \in Job, NEW f \in Job,
         Push(w, j, f), Moves(req[w], job[w], j), Moves(req[w], job[w], f),
         j.ino = job[w].ino, f.ino = job[w].ino, StoreJob(w, j)
  PROVE  PutMoves(w)
<1>1. job[w] \in Job /\ job \in [Worker -> Job]
  BY DEF IInv, TypeInv
<1>2. \/ job'[w] = j /\ disk' = disk
      \/ job'[w] = Flushed(j) /\ Write(w, j)
      \/ job'[w] = [f EXCEPT !.lost = TRUE, !.pend = <<>>] /\ disk' = disk
  <2> HIDE DEF Job
  <2> QED BY <1>1 DEF Push, Write, WriteFails, Flushed
<1>3. CASE job'[w] = j /\ disk' = disk
  BY <1>3 DEF PutMoves, Writes
<1>4. CASE job'[w] = Flushed(j) /\ Write(w, j)
  <2>1. PICK k : k = job'[w]
    OBVIOUS
  <2>2. /\ k.pc = j.pc /\ k.path = j.path /\ k.file = j.file /\ k.ino = j.ino /\ k.sent = j.sent
        /\ k.replies = j.replies /\ k.passed = j.passed
        /\ k.gap = j.gap /\ k.names = j.names /\ k.depth = j.depth
    BY <1>4, <2>1, FlushedFacts
  <2>3. Moves(req[w], job[w], k)
    BY <2>2 DEF Moves, Goes, Making
  <2>4. Writes(w)
    BY <1>4, FlushWrites
  <2> QED BY <2>1, <2>2, <2>3, <2>4 DEF PutMoves
<1>5. CASE job'[w] = [f EXCEPT !.lost = TRUE, !.pend = <<>>] /\ disk' = disk
  <2>1. PICK k : k = job'[w]
    OBVIOUS
  <2>2. /\ k.pc = f.pc /\ k.path = f.path /\ k.file = f.file /\ k.ino = f.ino /\ k.sent = f.sent
        /\ k.replies = f.replies /\ k.passed = f.passed
        /\ k.gap = f.gap /\ k.names = f.names /\ k.depth = f.depth
    BY <1>5, <2>1 DEF Job
  <2>3. Moves(req[w], job[w], k)
    BY <2>2 DEF Moves, Goes, Making
  <2> QED BY <1>5, <2>1, <2>2, <2>3 DEF PutMoves, Writes
<1> QED BY <1>2, <1>3, <1>4, <1>5

\* A job that has the reply to a body, or has received more of it, moves on.
LEMMA RepliedMoves ==
  ASSUME IInv, NEW w \in Worker, job[w].pc \in Writing, NEW j \in Job, NEW st \in Nat,
         j.replies = <<>>, Moves(req[w], job[w], j), NEW k, k = Replied(j, st),
         IsPutOrDelete(req[w])
  PROVE  Moves(req[w], job[w], k) /\ k.ino = j.ino /\ k \in Job
<1>1. /\ k \in Job /\ k.pc = "close" /\ k.path = j.path /\ k.file = j.file
      /\ k.ino = j.ino /\ k.sent = j.sent /\ k.passed = j.passed
      /\ k.gap = j.gap /\ k.names = j.names /\ k.depth = j.depth
  BY JobReplies
<1> QED BY <1>1 DEF Moves, Goes, Making

LEMMA ReceivedMoves ==
  ASSUME IInv, NEW w \in Worker, NEW n, NEW k \in Job, k = Received(w, n),
         IsPutOrDelete(req[w])
  PROVE  Moves(req[w], job[w], k)
<1>1. PICK c, p : /\ c = job[w].consumed + n
                  /\ p = job[w].pend \o Body(w, job[w].consumed, job[w].consumed + n)
  OBVIOUS
<1>2. k = [job[w] EXCEPT !.pc = "body", !.consumed = c, !.pend = p] /\ job[w] \in Job
  BY <1>1, JobFacts DEF Received, IInv
<1>3. /\ k.pc = "body" /\ k.path = job[w].path /\ k.file = job[w].file
      /\ k.gap = job[w].gap /\ k.passed = job[w].passed
      /\ k.names = job[w].names /\ k.sent = job[w].sent
      /\ k.depth = job[w].depth /\ k.replies = job[w].replies
  BY <1>2 DEF Job
<1> QED BY <1>3 DEF Moves, Goes, Making

\* Who writes has a PUT.
LEMMA WritingIsPut ==
  ASSUME IInv, NEW w \in Worker, job[w].pc \in Writing \cup Putting
  PROVE  IsPutOrDelete(req[w]) /\ job[w] \in Job /\ StoreJob(w, job[w])
<1>1. StoreJob(w, job[w]) /\ job[w] \in Job
  BY JobFacts DEF IInv, WorkerInv, StoreInv
<1> QED BY <1>1 DEF StoreJob, IsPutOrDelete

LEMMA SelfMoves ==
  ASSUME NEW r, NEW j \in Job, j.pc \in Writing
  PROVE  Moves(r, j, j)
<1>1. /\ j.pc \notin {"idle", "authorize", "open", "send", "mkdir"}
  BY DEF Writing
<1> QED BY <1>1 DEF Moves, Goes, Making

LEMMA ForwardMoves ==
  ASSUME IInv, NEW w \in Worker, Forward(w)
  PROVE  PutMoves(w)
<1>1. job[w].pc = "forward" /\ fs' = fs /\ job[w].pc \in Writing
  BY Zenon DEF Forward, At, Writing
<1>2. PICK j \in Job : j = job[w]
  BY JobFacts DEF IInv
<1>3. /\ job[w].pc \in {"forward", "body"} /\ IsPutOrDelete(req[w]) /\ Moves(req[w], j, j)
      /\ job[w].pend = <<>> /\ job[w].consumed = 0 /\ job[w].replies = <<>>
  <2>1. StoreJob(w, job[w]) /\ IsPutOrDelete(req[w])
    BY <1>1, WritingIsPut
  <2> QED BY <1>1, <1>2, <2>1, SelfMoves DEF StoreJob
<1>4. ASSUME NEW st \in {411, 417}, job' = [job EXCEPT ![w] = Replied(job[w], st)], disk' = disk
      PROVE  PutMoves(w)
  <2>1. PICK k : k = Replied(j, st)
    OBVIOUS
  <2>2. Moves(req[w], job[w], k) /\ k.ino = job[w].ino
    BY <1>1, <1>2, <1>3, <2>1, RepliedMoves
  <2>3. job'[w] = k
    <3>1. job \in [Worker -> Job]
      BY DEF IInv, TypeInv
    <3> HIDE DEF Job
    <3> QED BY <1>2, <1>4, <2>1, <3>1
  <2> QED BY <1>1, <1>4, <2>2, <2>3 DEF PutMoves, Writes
<1> DEFINE b == [job[w] EXCEPT !.pc = "body", !.consumed = req[w].buffered,
                               !.pend = Body(w, 0, req[w].buffered)]
<1>5. CASE req[w].length # -1 /\ Push(w, b, b)
  <2>1. PICK n \in Nat : n = req[w].buffered /\ n <= req[w].length
    <3>1. /\ req[w].length \in Int /\ req[w].length >= -1 /\ req[w].buffered \in Nat
          /\ req[w].length >= 0 => req[w].buffered <= req[w].length
      BY JobFacts, RequestFacts DEF IInv
    <3>2. req[w].length >= 0
      BY <1>5, <3>1
    <3> QED BY <3>1, <3>2
  <2>2. b = Received(w, n)
    <3>1. 0 + n = n /\ Body(w, 0, n) \in Seq(CellType)
      BY BodyFacts
    <3>2. <<>> \o Body(w, 0, n) = Body(w, 0, n)
      BY <3>1
    <3> QED BY <1>3, <2>1, <3>1, <3>2 DEF Received
  <2>3. job[w].consumed + n <= req[w].length
    BY <1>3, <2>1
  <2> HIDE DEF b
  <2>4. b \in Job /\ Continues(w, b) /\ StoreJob(w, b)
    BY <1>3, <2>2, <2>3, MoreInv
  <2>5. Moves(req[w], job[w], b) /\ b.ino = job[w].ino
    BY <1>3, <2>2, <2>4, ReceivedMoves DEF Continues
  <2> QED BY <1>1, <1>5, <2>4, <2>5, PushMoves
<1>6. \/ \E st \in {411, 417} : job' = [job EXCEPT ![w] = Replied(@, st)] /\ disk' = disk
      \/ req[w].length # -1 /\ Push(w, b, b)
  BY ZenonT(60) DEF Forward
<1> QED BY ZenonT(60), <1>4, <1>5, <1>6

LEMMA ReceiveMoves ==
  ASSUME IInv, NEW w \in Worker, Receive(w)
  PROVE  PutMoves(w)
<1>1. job[w].pc = "body" /\ fs' = fs /\ job[w].pc \in Writing
  BY Zenon DEF Receive, At, Writing
<1>2. PICK j \in Job : j = job[w]
  BY JobFacts DEF IInv
<1>3. /\ job[w].pc \in {"forward", "body"} /\ job[w].replies = <<>>
      /\ IsPutOrDelete(req[w]) /\ Moves(req[w], j, j)
  <2>1. StoreJob(w, job[w]) /\ IsPutOrDelete(req[w])
    BY <1>1, WritingIsPut
  <2> QED BY <1>1, <1>2, <2>1, SelfMoves DEF StoreJob
<1>4. PICK c \in Nat, len \in Int : c = job[w].consumed /\ len = req[w].length
  BY <1>2, JobFields, JobFacts, RequestFacts DEF IInv
<1>5. ASSUME NEW st \in Nat, job' = [job EXCEPT ![w] = Replied(job[w], st)], disk' = disk
      PROVE  PutMoves(w)
  <2>1. PICK k : k = Replied(j, st)
    OBVIOUS
  <2>2. Moves(req[w], job[w], k) /\ k.ino = job[w].ino
    BY <1>1, <1>2, <1>3, <2>1, RepliedMoves
  <2>3. job'[w] = k
    <3>1. job \in [Worker -> Job]
      BY DEF IInv, TypeInv
    <3> HIDE DEF Job
    <3> QED BY <1>2, <1>5, <2>1, <3>1
  <2> QED BY <1>1, <1>5, <2>2, <2>3 DEF PutMoves, Writes
<1>6. ASSUME NEW n \in 1 .. Min({len - c, Chunk}),
             Push(w, [job[w] EXCEPT !.consumed = @ + n,
                                    !.pend = @ \o Body(w, job[w].consumed, job[w].consumed + n)],
                  Replied([job[w] EXCEPT !.consumed = @ + n,
                             !.pend = @ \o Body(w, job[w].consumed, job[w].consumed + n)], 577))
      PROVE  PutMoves(w)
  <2> DEFINE m == [job[w] EXCEPT !.consumed = @ + n,
                     !.pend = @ \o Body(w, job[w].consumed, job[w].consumed + n)]
  <2>1. m = Received(w, n)
    <3>1. [job[w] EXCEPT !.pc = "body"] = job[w]
      BY <1>1, <1>2 DEF Job
    <3> QED BY <3>1, <1>1, <1>2 DEF Received, Job
  <2>2. n \in Nat /\ c + n <= len
    <3>1. Chunk \in Int
      BY Bounds
    <3>2. PICK x \in Int : x = len - c
      OBVIOUS
    <3>3. Min({x, Chunk}) = IF x <= Chunk THEN x ELSE Chunk
      BY <3>1, MinOfTwo
    <3>4. PICK y \in Int : y = Min({x, Chunk}) /\ y <= x
      BY <3>1, <3>3
    <3>5. n \in 1 .. y
      BY <3>2, <3>4
    <3> QED BY <3>2, <3>4, <3>5
  <2>3. job[w].consumed + n <= req[w].length
    BY <1>4, <2>2
  <2> HIDE DEF m
  <2>4. m \in Job /\ Continues(w, m) /\ StoreJob(w, m) /\ m.replies = <<>>
    BY <1>3, <1>4, <2>1, <2>2, <2>3, MoreInv
  <2>5. PICK f : f = Replied(m, 577)
    OBVIOUS
  <2>6. Push(w, m, f)
    BY <1>6, <2>5 DEF m
  <2>7. Moves(req[w], job[w], m) /\ m.ino = job[w].ino
    BY <1>3, <2>1, <2>4, ReceivedMoves DEF Continues
  <2>8. Moves(req[w], job[w], f) /\ f.ino = job[w].ino /\ f \in Job
    <3>1. 577 \in Nat
      OBVIOUS
    <3> QED BY <1>1, <1>3, <2>4, <2>5, <2>7, <3>1, RepliedMoves
  <2> QED BY <1>1, <2>4, <2>6, <2>7, <2>8, PushMoves
<1>7. job[w].status \in Nat /\ 577 \in Nat
  BY <1>2, JobFields
<1> QED BY ZenonT(60), <1>4, <1>5, <1>6, <1>7 DEF Receive

LEMMA CloseMoves ==
  ASSUME IInv, NEW w \in Worker, Close(w)
  PROVE  PutMoves(w)
<1>1. job[w].pc = "close" /\ job[w].pc \in Writing /\ fs' = fs
  BY Zenon DEF Close, At, Writing
<1>2. PICK j \in Job : j = job[w]
  BY JobFacts DEF IInv
<1>3. PICK k : k = [j EXCEPT !.pc = "end"]
  OBVIOUS
<1>4. /\ k \in Job /\ k.pc = "end" /\ k.path = j.path /\ k.file = j.file /\ k.ino = j.ino
      /\ k.gap = j.gap /\ k.passed = j.passed /\ k.names = j.names /\ k.sent = j.sent
      /\ k.depth = j.depth /\ k.replies = j.replies /\ k.pend = j.pend
      /\ k.consumed = j.consumed /\ k.status = j.status
  <2>1. "end" \in Place
    BY DEF Place
  <2> QED BY <1>2, <1>3, <2>1 DEF Job
<1>5. Moves(req[w], job[w], k)
  BY <1>2, <1>4 DEF Moves, Goes, Making
<1>6. StoreJob(w, k)
  <2>1. StoreJob(w, j)
    BY <1>1, <1>2, WritingIsPut
  <2> QED BY <1>4, <2>1 DEF StoreJob, Stored, Putting, Writing
<1>7. Push(w, k, k)
  BY <1>2, <1>3 DEF Close, Push
<1> QED BY <1>1, <1>2, <1>4, <1>5, <1>6, <1>7, PushMoves

\* The steps that only look, and say nothing about a file.
LEMMA OpenSsiMoves ==
  ASSUME IInv, NEW w \in Worker, OpenSsi(w)
  PROVE  Moves(req[w], job[w], job'[w]) /\ job'[w].pc \notin Writing /\ Quiet
<1>1. job[w] \in Job /\ job \in [Worker -> Job] /\ job[w].pc = "openSsi" /\ Quiet
  BY Zenon DEF IInv, TypeInv, OpenSsi, At, Quiet
<1>2. CASE \E s \in {200, 500} : Answer(w, s)
  BY <1>1, <1>2, AnswerMoves DEF Writing
<1>3. CASE \E st : job' = [job EXCEPT ![w].pc = "ssi", ![w].replies = Append(@, 200),
                                      ![w].stack = st]
  <2>0. PICK st : job' = [job EXCEPT ![w].pc = "ssi", ![w].replies = Append(@, 200),
                                     ![w].stack = st]
    BY Zenon, <1>3
  <2>1. PICK s \in Seq(Nat) :
          s = Append(job[w].replies, 200) /\ ToSet(s) = ToSet(job[w].replies) \cup {200}
    <3>1. job[w] \in Job
      BY <1>1
    <3>2. PICK c \in Nat : c = 200
      OBVIOUS
    <3>3. \E s \in Seq(Nat) : s = Append(job[w].replies, c)
                              /\ ToSet(s) = ToSet(job[w].replies) \cup {c}
      BY Zenon, <3>1, AnswerAppends
    <3> QED BY <3>2, <3>3
  <2>2. job'[w] = [job[w] EXCEPT !.pc = "ssi", !.replies = s, !.stack = st]
    <3> HIDE DEF Job
    <3> QED BY <1>1, <2>0, <2>1
  <2>3. /\ job'[w].pc = "ssi" /\ job'[w].path = job[w].path /\ job'[w].file = job[w].file
        /\ job'[w].gap = job[w].gap /\ job'[w].passed = job[w].passed
        /\ job'[w].names = job[w].names /\ job'[w].sent = job[w].sent
        /\ job'[w].depth = job[w].depth /\ job'[w].replies = s
    BY <1>1, <2>2 DEF Job
  <2> QED BY <1>1, <2>1, <2>3 DEF Moves, Goes, Making, Writing
<1>4. \/ \E s \in {200, 500} : Answer(w, s)
      \/ \E st : job' = [job EXCEPT ![w].pc = "ssi", ![w].replies = Append(@, 200),
                                    ![w].stack = st]
  BY Zenon DEF OpenSsi
<1> QED BY <1>2, <1>3, <1>4

\* The same of those that say something.
Says(w) == Goes(req[w], job[w], job'[w]) /\ job'[w].pc \notin Writing \cup {"open"} /\ Quiet

LEMMA ScanSays ==
  ASSUME IInv, NEW w \in Worker, Scan(w)
  PROVE  /\ Says(w) /\ job'[w].sent = job[w].sent /\ job'[w].pc = "end"
         /\ job'[w].names \in {job[w].names, Shown(job[w].path)}
<1>1. job[w] \in Job /\ job \in [Worker -> Job] /\ Quiet
  BY Zenon DEF IInv, TypeInv, Scan, Quiet
<1>2. CASE Answer(w, 500)
  BY <1>1, <1>2, AnswerMoves DEF Says, Moves, Writing
<1>3. CASE \E c \in {200, 207} :
             job' = [job EXCEPT ![w].pc = "end", ![w].names = Shown(job[w].path),
                                ![w].replies = Append(@, c)]
  <2>0. PICK c \in {200, 207} :
          job' = [job EXCEPT ![w].pc = "end", ![w].names = Shown(job[w].path),
                             ![w].replies = Append(@, c)]
    BY Zenon, <1>3
  <2> DEFINE n == Shown(job[w].path)
  <2>1. PICK s \in Seq(Nat) :
          s = Append(job[w].replies, c) /\ ToSet(s) = ToSet(job[w].replies) \cup {c}
    <3>1. job[w] \in Job /\ c \in Nat
      BY <1>1
    <3> QED BY Zenon, <3>1, AnswerAppends
  <2> HIDE DEF n
  <2>2. job'[w] = [job[w] EXCEPT !.pc = "end", !.names = n, !.replies = s]
    <3> HIDE DEF Job
    <3> QED BY <1>1, <2>0, <2>1 DEF n
  <2>3. /\ job'[w].pc = "end" /\ job'[w].path = job[w].path /\ job'[w].file = job[w].file
        /\ job'[w].gap = job[w].gap /\ job'[w].passed = job[w].passed
        /\ job'[w].names = n /\ job'[w].sent = job[w].sent
        /\ job'[w].depth = job[w].depth /\ job'[w].replies = s
    BY <1>1, <2>2 DEF Job
  <2>4. c # 401 /\ Making(req[w], job'[w])
    BY <2>3 DEF Making
  <2>5. Goes(req[w], job[w], job'[w])
    BY <2>1, <2>3, <2>4 DEF Goes
  <2> QED BY <1>1, <2>3, <2>5 DEF Says, Writing, n
<1>4. \/ Answer(w, 500)
      \/ \E c \in {200, 207} :
           job' = [job EXCEPT ![w].pc = "end", ![w].names = Shown(job[w].path),
                              ![w].replies = Append(@, c)]
  BY ZenonT(60) DEF Scan
<1> QED BY <1>2, <1>3, <1>4

LEMMA OpenSays ==
  ASSUME IInv, NEW w \in Worker, Open(w)
  PROVE  /\ Says(w) /\ job'[w].names = job[w].names /\ job'[w].sent = job[w].sent
         /\ job[w].pc = "open"
         /\ job'[w].pc = "send" => IsFile(job[w].path) /\ job'[w].ino = fs[job[w].path].ino
<1>1. job[w] \in Job /\ job \in [Worker -> Job] /\ job[w].pc = "open" /\ Quiet
  BY Zenon DEF IInv, TypeInv, Open, At, Quiet
<1>2. CASE Answer(w, 500)
  BY <1>1, <1>2, AnswerMoves DEF Says, Moves, Writing
<1>3. PICK l, ino, cl, off, c :
        /\ l = IF req[w].method = "HEAD" \/ IsDir(job[w].path) THEN "end" ELSE "send"
        /\ ino = fs[job[w].path].ino /\ off = Seek(req[w])
        /\ cl = ContentLength(req[w], job[w].file.size)
        /\ c = IF Ranged(req[w]) THEN 206 ELSE 200
  OBVIOUS
<1>4. CASE /\ IsFile(job[w].path) \/ IsDir(job[w].path)
           /\ job' = [job EXCEPT ![w].pc = l, ![w].ino = ino, ![w].cl = cl, ![w].left = cl,
                                 ![w].off = off, ![w].replies = Append(@, c)]
  <2>1. PICK s \in Seq(Nat) :
          s = Append(job[w].replies, c) /\ ToSet(s) = ToSet(job[w].replies) \cup {c}
    <3>1. job[w] \in Job /\ c \in Nat
      BY <1>1, <1>3
    <3> QED BY Zenon, <3>1, AnswerAppends
  <2>2. job'[w] = [job[w] EXCEPT !.pc = l, !.ino = ino, !.cl = cl, !.left = cl,
                                 !.off = off, !.replies = s]
    <3> HIDE DEF Job
    <3> QED BY <1>1, <1>4, <2>1
  <2>3. /\ job'[w].pc = l /\ job'[w].path = job[w].path /\ job'[w].file = job[w].file
        /\ job'[w].gap = job[w].gap /\ job'[w].passed = job[w].passed
        /\ job'[w].names = job[w].names /\ job'[w].sent = job[w].sent
        /\ job'[w].depth = job[w].depth /\ job'[w].replies = s /\ job'[w].ino = ino
    BY <1>1, <2>2 DEF Job
  <2>4. l \in {"end", "send"} /\ c # 401 /\ (l = "send" => ~IsDir(job[w].path))
    BY <1>3
  <2>5. Making(req[w], job'[w])
    BY <2>3, <2>4 DEF Making
  <2>6. Goes(req[w], job[w], job'[w])
    BY <2>1, <2>3, <2>4, <2>5 DEF Goes
  <2> QED BY <1>1, <1>3, <1>4, <2>3, <2>4, <2>6 DEF Says, Writing
<1>5. \/ Answer(w, 500)
      \/ /\ IsFile(job[w].path) \/ IsDir(job[w].path)
         /\ job' = [job EXCEPT ![w].pc = l, ![w].ino = ino, ![w].cl = cl, ![w].left = cl,
                               ![w].off = off, ![w].replies = Append(@, c)]
  BY ZenonT(60), <1>3 DEF Open
<1> QED BY <1>2, <1>4, <1>5

LEMMA SendSays ==
  ASSUME IInv, NEW w \in Worker, Send(w)
  PROVE  /\ Says(w) /\ job'[w].names = job[w].names /\ job'[w].ino = job[w].ino
         /\ job[w].pc = "send" /\ Inode(job[w].ino)
         /\ job'[w].sent \in Seq(CellType)
         /\ ToSet(job'[w].sent) \subseteq ToSet(job[w].sent) \cup ToSet(disk[job[w].ino].data)
<1> DEFINE b == ReadAt(job[w].ino, job[w].off, Min({Chunk, job[w].left}))
<1>1. /\ job[w] \in Job /\ job \in [Worker -> Job] /\ job[w].pc = "send" /\ Quiet
      /\ Inode(job[w].ino) /\ job[w].sent \in Seq(CellType)
  <2>1. job[w] \in Job /\ job \in [Worker -> Job] /\ job[w].pc = "send" /\ Quiet
    BY Zenon DEF IInv, TypeInv, Send, At, Quiet
  <2>2. Inode(job[w].ino)
    BY <2>1 DEF IInv, WorkerInv, SentInv, Sending
  <2> QED BY <2>1, <2>2, JobFields
<1>2. CASE Goto(w, "end")
  <2>1. job'[w].sent = job[w].sent /\ Says(w) /\ job'[w].names = job[w].names
    BY <1>1, <1>2, GotoMoves DEF Moves, Says, Writing
  <2>2. job'[w] = [job[w] EXCEPT !.pc = "end"]
    <3> HIDE DEF Job
    <3> QED BY <1>1, <1>2 DEF Goto
  <2>3. job'[w].ino = job[w].ino
    BY <1>1, <2>2 DEF Job
  <2> QED BY <1>1, <2>1, <2>3
<1>3. CASE /\ job[w].left > 0
           /\ job' = [job EXCEPT ![w].off = @ + Len(b), ![w].left = @ - Len(b), ![w].sent = @ \o b]
  <2>1. PICK n \in Nat : n = Min({Chunk, job[w].left})
    <3>1. PICK a \in Nat, l \in Int : a = Chunk /\ l = job[w].left /\ l > 0
      BY <1>1, <1>3, Bounds, JobFields
    <3>2. Min({a, l}) = IF a <= l THEN a ELSE l
      BY MinOfTwo
    <3>3. Min({a, l}) \in Nat
      BY <3>1, <3>2
    <3> QED BY <3>1, <3>3
  <2>2. PICK d \in Seq(CellType) : d = disk[job[w].ino].data
    BY <1>1, DiskFacts DEF IInv, Inode
  <2>3. PICK x \in Seq(CellType) :
          x = b /\ \A i \in 1 .. Len(x) : job[w].off + i <= Len(d) /\ x[i] = d[job[w].off + i]
    <3>1. job[w].off \in Nat
      BY <1>1, JobFields
    <3> QED BY <1>1, <2>1, <2>2, <3>1, ReadFacts
  <2> HIDE DEF b
  <2>4. PICK o, l, t : o = job[w].off + Len(x) /\ l = job[w].left - Len(x) /\ t = job[w].sent \o x
    OBVIOUS
  <2>5. job'[w] = [job[w] EXCEPT !.off = o, !.left = l, !.sent = t]
    <3> HIDE DEF Job
    <3> QED BY <1>1, <1>3, <2>3, <2>4
  <2>6. /\ job'[w].pc = "send" /\ job'[w].path = job[w].path /\ job'[w].file = job[w].file
        /\ job'[w].gap = job[w].gap /\ job'[w].passed = job[w].passed
        /\ job'[w].names = job[w].names /\ job'[w].sent = t /\ job'[w].ino = job[w].ino
        /\ job'[w].depth = job[w].depth /\ job'[w].replies = job[w].replies
    BY <1>1, <2>5 DEF Job
  <2>7. Says(w)
    BY <1>1, <2>6 DEF Says, Goes, Making, Writing
  <2>8. t \in Seq(CellType) /\ ToSet(t) \subseteq ToSet(job[w].sent) \cup ToSet(d)
    <3>1. PICK s \in Seq(CellType), m \in Nat, k \in Nat : s = job[w].sent /\ m = Len(s) /\ k = Len(x)
      BY <1>1, LenProperties
    <3>2. /\ t \in Seq(CellType) /\ Len(t) = m + k
          /\ \A i \in 1 .. m : t[i] = s[i]
          /\ \A i \in 1 .. k : t[m + i] = x[i]
      <4>1. x \in Seq(CellType) /\ t = s \o x
        BY <2>4, <3>1
      <4> QED BY <3>1, <4>1, Joined
    <3>3. ASSUME NEW c \in ToSet(t) PROVE c \in ToSet(s) \cup ToSet(d)
      <4>1. PICK i \in 1 .. m + k : c = t[i]
        BY <3>2, <3>3, LenProperties DEF ToSet
      <4>2. CASE i <= m
        <5>1. i \in 1 .. m /\ c = s[i]
          BY <3>2, <4>1, <4>2
        <5> QED BY <3>1, <5>1, LenProperties DEF ToSet
      <4>3. CASE i > m
        <5>1. PICK u \in 1 .. k : i = m + u
          BY <4>3
        <5>2. job[w].off + u \in 1 .. Len(d) /\ c = d[job[w].off + u]
          <6>1. job[w].off \in Nat
            BY <1>1, JobFields
          <6>2. PICK v \in Nat : v = job[w].off + u /\ v >= 1
            BY <6>1
          <6>3. v <= Len(d) /\ x[u] = d[v]
            BY <2>3, <3>1, <6>2
          <6> QED BY <3>2, <4>1, <5>1, <6>2, <6>3, LenProperties
        <5> QED BY <5>2, LenProperties DEF ToSet
      <4> QED BY <4>1, <4>2, <4>3
    <3> QED BY <3>1, <3>2, <3>3
  <2> QED BY <1>1, <2>2, <2>6, <2>7, <2>8
<1>4. \/ Goto(w, "end")
      \/ /\ ~(job[w].left <= 0)
         /\ job' = [job EXCEPT ![w].off = @ + Len(b), ![w].left = @ - Len(b), ![w].sent = @ \o b]
  BY ZenonT(60) DEF Send
<1>5. ~(job[w].left <= 0) => job[w].left > 0
  BY <1>1, JobFields
<1> QED BY <1>2, <1>3, <1>4, <1>5

LEMMA SsiSays ==
  ASSUME IInv, NEW w \in Worker, Ssi(w)
  PROVE  /\ Says(w) /\ job'[w].names = job[w].names /\ job'[w].pc # "send"
         /\ job[w].path \in Config.ssi
<1>1. job[w] \in Job /\ job \in [Worker -> Job] /\ job[w].pc = "ssi" /\ Quiet
  BY Zenon DEF IInv, TypeInv, Ssi, At, Quiet
<1>2. job[w].path \in Config.ssi
  BY <1>1 DEF IInv, WorkerInv, PlaceInv
<1>3. PICK l, st, b, x : \/ job' = [job EXCEPT ![w].stack = st, ![w].pc = IF l THEN "end" ELSE @]
                         \/ job' = [job EXCEPT ![w].stack = st]
                         \/ job' = [job EXCEPT ![w].stack = st,
                                               ![w].sent = IF x THEN @ ELSE @ \o b]
  BY Zenon DEF Ssi
<1>4. \/ job'[w] = [job[w] EXCEPT !.stack = st, !.pc = IF l THEN "end" ELSE @]
      \/ job'[w] = [job[w] EXCEPT !.stack = st]
      \/ job'[w] = [job[w] EXCEPT !.stack = st, !.sent = IF x THEN @ ELSE @ \o b]
  <2> HIDE DEF Job
  <2> QED BY <1>1, <1>3
<1>5. /\ job'[w].pc \in {"end", "ssi"} /\ job'[w].path = job[w].path /\ job'[w].file = job[w].file
      /\ job'[w].gap = job[w].gap /\ job'[w].passed = job[w].passed
      /\ job'[w].names = job[w].names
      /\ job'[w].depth = job[w].depth /\ job'[w].replies = job[w].replies
  BY ZenonT(60), <1>1, <1>4 DEF Job
<1>6. Making(req[w], job'[w])
  BY <1>5 DEF Making
<1> QED BY SMTT(30), <1>1, <1>2, <1>5, <1>6 DEF Says, Goes, Writing

\* What the job of w becomes keeps to what the guarded directory asks of it.
Settled(w) ==
  /\ Apart(req[w], job'[w]) /\ GuardJob(req[w], job'[w])
  /\ job'[w].pc = "authorize" => Quiet /\ Looks(req[w], job'[w])

LEMMA GoesSettles ==
  ASSUME NEW w \in Worker, Goes(req[w], job[w], job'[w]), job[w].pc # "idle",
         Apart(req[w], job[w]), GuardJob(req[w], job[w])
  PROVE  Settled(w)
<1> DEFINE j == job[w]
<1> DEFINE k == job'[w]
<1>1. k.depth \in Nat \ {0}
  BY DEF Goes, Apart
<1>2. Apart(req[w], k)
  BY <1>1 DEF Goes, Apart
<1>3. GuardOf(req[w], k) = GuardOf(req[w], j)
  BY DEF Goes, GuardOf
<1>4. GuardJob(req[w], k)
  BY <1>3 DEF Goes, GuardJob
<1> QED BY <1>2, <1>4 DEF Settled, Goes

\* The guarded directory, from GuardAssumption.
LEMMA GuardFacts ==
  /\ Dir \in Path \cup {<<>>} /\ Dir \in Seq(Name) /\ Edit.file \in Seq(Name) /\ Edit.tmp \in Seq(Name)
  /\ Edit.file = Append(Dir, Config.passwords) /\ Config.passwords \in STRING
  /\ Parent(Edit.file) = Dir /\ Parent(Edit.tmp) = Dir
  /\ Dir # <<>> => InitialFs[Dir].kind = "dir" /\ Dir \in Path
  /\ Config.global = NoPath
  /\ \A w \in Worker : \A r \in Request[w] :
       /\ IsPrefix(Dir, r.path) =>
            \A k \in DOMAIN Config.protect : ~IsPrefix(Config.protect[k].prefix, r.path)
       /\ IsPutOrDelete(r) => ~IsPrefix(Edit.file, r.path) /\ ~IsPrefix(Edit.tmp, r.path)
       /\ r.method = "PUT" => \A n \in 1 .. Len(r.path) :
            n < Len(r.path) \/ r.slash => Parent(SubSeq(r.path, 1, n)) # Dir
  /\ \A k \in DOMAIN Config.index : Append(Parent(Dir), Config.index[k]) # Dir
<1>1. /\ Dir = <<>> \/ (Dir \in Path /\ InitialFs[Dir].kind = "dir")
      /\ Edit.file = Append(Dir, Config.passwords) /\ Parent(Edit.tmp) = Dir
      /\ Config.global = NoPath
      /\ \A k \in DOMAIN Config.index : Append(Parent(Dir), Config.index[k]) # Dir
  BY GuardAssumption DEF GuardAssumption, Dir
<1>2. ASSUME NEW w \in Worker, NEW r \in Request[w]
      PROVE  /\ IsPrefix(Dir, r.path) =>
                  \A k \in DOMAIN Config.protect : ~IsPrefix(Config.protect[k].prefix, r.path)
             /\ IsPutOrDelete(r) => ~IsPrefix(Edit.file, r.path) /\ ~IsPrefix(Edit.tmp, r.path)
             /\ r.method = "PUT" => \A n \in 1 .. Len(r.path) :
                  n < Len(r.path) \/ r.slash => Parent(SubSeq(r.path, 1, n)) # Dir
  BY GuardAssumption, EditAssumption DEF GuardAssumption, EditAssumption, Dir, IsPutOrDelete
<1>3. Dir \in Path \cup {<<>>}
  BY <1>1
<1>4. Path \cup {<<>>} \subseteq Seq(Name) /\ Edit.file \in Path /\ Edit.tmp \in Path
  BY PutFacts, EditFacts
<1>5. Config.passwords \in STRING
  <2>1. Config \in ConfigType
    BY Bounds
  <2> QED BY <2>1, Zenon DEF ConfigType
<1>6. Parent(Edit.file) = Dir
  BY DEF Dir
<1> QED BY <1>1, <1>2, <1>3, <1>4, <1>5, <1>6

\* The directory a path is in.
LEMMA ParentFacts ==
  ASSUME NEW p \in Seq(Name), NEW u \in Seq(Name)
  PROVE  /\ p # <<>> /\ IsPrefix(u, Parent(p)) => IsPrefix(u, p)
         /\ \A x \in Name : Parent(Append(p, x)) = p
         /\ p = <<>> => Parent(p) = <<>>
<1>1. PICK n \in Nat : n = Len(p)
  BY LenProperties
<1>2. ASSUME p # <<>>, IsPrefix(u, Parent(p)) PROVE IsPrefix(u, p)
  <2>1. n # 0
    BY <1>1, <1>2, EmptySeq
  <2>2. PICK m \in 0 .. Len(p) : m = Len(p) - 1
    BY <1>1, <2>1
  <2>3. Parent(p) = SubSeq(p, 1, m)
    BY <2>2 DEF Parent, Front
  <2> QED BY <1>2, <2>3, PrefixFacts
<1>3. ASSUME NEW x \in Name PROVE Parent(Append(p, x)) = p
  <2>1. PICK t \in Seq(Name) : t = Append(p, x)
    BY AppendProperties
  <2>2. Len(t) = n + 1 /\ \A i \in 1 .. n : t[i] = p[i]
    BY <1>1, <2>1, AppendProperties
  <2>3. Parent(t) = SubSeq(t, 1, n)
    BY <1>1, <2>2 DEF Parent, Front
  <2>4. SubSeq(t, 1, n) \in Seq(Name) /\ Len(SubSeq(t, 1, n)) = n
        /\ \A i \in 1 .. n : SubSeq(t, 1, n)[i] = t[i]
    <3>1. n \in 0 .. Len(t)
      BY <1>1, <2>2
    <3> QED BY <3>1, CutFacts
  <2>5. SubSeq(t, 1, n) = p
    BY <1>1, <2>2, <2>4, SeqEqual
  <2> QED BY <2>1, <2>3, <2>5
<1>4. ASSUME p = <<>> PROVE Parent(p) = <<>>
  BY <1>4 DEF Parent, Front
<1> QED BY <1>2, <1>3, <1>4

\* A part of the path of a request is no nearer to the guarded directory.
LEMMA PartOfPath ==
  ASSUME NEW w \in Worker, NEW r \in Request[w],
         NEW path \in (Path \cup {<<>>}) \cap (Prefixes(r.path) \cup {r.path})
  PROVE  /\ IsPrefix(Dir, path) => IsPrefix(Dir, r.path)
         /\ IsPutOrDelete(r) => ~IsPrefix(Edit.file, path) /\ ~IsPrefix(Edit.tmp, path)
         /\ r.method = "PUT" => \A n \in 1 .. Len(path) :
              n < Len(path) \/ r.slash => Parent(SubSeq(path, 1, n)) # Dir
<1>1. PICK p \in Seq(Name) : p = r.path
  BY RequestFacts, PutFacts
<1>2. PICK m \in 0 .. Len(p) : /\ path = SubSeq(p, 1, m) /\ Len(path) = m
                               /\ \A n \in 1 .. m : SubSeq(path, 1, n) = SubSeq(p, 1, n)
  <2>1. Len(p) \in Nat
    BY LenProperties
  <2>2. PICK m \in 0 .. Len(p) : path = SubSeq(p, 1, m)
    <3>1. CASE path = p
      <4>1. PICK m \in 0 .. Len(p) : m = Len(p)
        BY <2>1
      <4>2. /\ SubSeq(p, 1, m) \in Seq(Name) /\ Len(SubSeq(p, 1, m)) = m
            /\ \A i \in 1 .. m : SubSeq(p, 1, m)[i] = p[i]
        BY CutFacts
      <4>3. SubSeq(p, 1, m) = p
        BY <4>1, <4>2, SeqEqual
      <4> QED BY <3>1, <4>3
    <3>2. CASE path \in Prefixes(p)
      BY <3>2 DEF Prefixes
    <3> QED BY <1>1, <3>1, <3>2
  <2>3. path \in Seq(Name) /\ Len(path) = m /\ \A i \in 1 .. m : path[i] = p[i]
    BY <2>2, CutFacts
  <2>4. ASSUME NEW n \in 1 .. m PROVE SubSeq(path, 1, n) = SubSeq(p, 1, n)
    <3>1. n \in 0 .. Len(path) /\ n \in 0 .. Len(p) /\ \A i \in 1 .. n : i \in 1 .. m
      BY <2>1, <2>3
    <3>2. /\ SubSeq(path, 1, n) \in Seq(Name) /\ Len(SubSeq(path, 1, n)) = n
          /\ \A i \in 1 .. n : SubSeq(path, 1, n)[i] = path[i]
      BY <2>3, <3>1, CutFacts
    <3>3. /\ SubSeq(p, 1, n) \in Seq(Name) /\ Len(SubSeq(p, 1, n)) = n
          /\ \A i \in 1 .. n : SubSeq(p, 1, n)[i] = p[i]
      BY <3>1, CutFacts
    <3>4. \A i \in 1 .. n : SubSeq(path, 1, n)[i] = SubSeq(p, 1, n)[i]
      BY <2>3, <3>1, <3>2, <3>3
    <3> QED BY <3>2, <3>3, <3>4, SeqEqual
  <2> QED BY <2>2, <2>3, <2>4
<1>3. \A u \in Seq(Name) : IsPrefix(u, path) => IsPrefix(u, p)
  BY <1>2, PrefixFacts
<1>4. ASSUME r.method = "PUT", NEW n \in 1 .. Len(path), n < Len(path) \/ r.slash
      PROVE  Parent(SubSeq(path, 1, n)) # Dir
  <2>1. n \in 1 .. m /\ n \in 1 .. Len(p) /\ (n < Len(p) \/ r.slash)
    BY <1>2, <1>4, LenProperties
  <2>2. Parent(SubSeq(p, 1, n)) # Dir
    BY <1>1, <1>4, <2>1, GuardFacts
  <2> QED BY <1>2, <2>1, <2>2
<1> QED BY <1>1, <1>3, <1>4, GuardFacts

LEMMA ConvertSettles ==
  ASSUME IInv, NEW w \in Worker, HasEdit => IsDir(Dir), Apart(req[w], job[w]),
         GuardJob(req[w], job[w]), Convert(w)
  PROVE  /\ Settled(w) /\ job'[w].pc = "authorize" /\ Quiet
         /\ job'[w].names = job[w].names /\ job'[w].sent = <<>>
<1>1. TypeInv /\ job[w] \in Job /\ job \in [Worker -> Job] /\ req[w] \in Request[w]
  BY JobFacts DEF IInv, TypeInv
<1>2. PICK path \in (Path \cup {<<>>}) \cap (Prefixes(req[w].path) \cup {req[w].path}),
           f \in FileInfo, was \in Seq(CellType) :
        /\ job[w].pc = "idle" /\ Quiet /\ FoundAs(path, f, was)
        /\ job' = [job EXCEPT ![w].pc = "authorize", ![w].path = path,
                              ![w].file = f, ![w].was = was]
  BY Zenon, ConvertFacts
<1>3. IsDir(path) => f.dir
  BY <1>2 DEF FoundAs
<1>4. job'[w] = [job[w] EXCEPT !.pc = "authorize", !.path = path, !.file = f, !.was = was]
  <2> HIDE DEF Job
  <2> QED BY <1>1, <1>2, <1>3
<1>5. /\ job'[w].pc = "authorize" /\ job'[w].path = path /\ job'[w].file = f
      /\ job'[w].passed = job[w].passed /\ job'[w].names = job[w].names
      /\ job'[w].sent = job[w].sent /\ job'[w].depth = job[w].depth
      /\ job'[w].replies = job[w].replies
  BY <1>1, <1>4 DEF Job
<1>6. job[w].replies = <<>> /\ job[w].sent = <<>> /\ job[w].passed = "no"
  <2>1. PlaceInv(w)
    BY DEF IInv, WorkerInv
  <2> QED BY <1>2, <2>1 DEF PlaceInv, Early, GuardJob
<1>7. /\ IsPrefix(Dir, path) => IsPrefix(Dir, req[w].path)
      /\ IsPutOrDelete(req[w]) => ~IsPrefix(Edit.file, path) /\ ~IsPrefix(Edit.tmp, path)
      /\ req[w].method = "PUT" => \A n \in 1 .. Len(path) :
           n < Len(path) \/ req[w].slash => Parent(SubSeq(path, 1, n)) # Dir
  BY <1>1, PartOfPath
<1>8. Apart(req[w], job'[w])
  BY <1>5, <1>7 DEF Apart, Making
<1>9. GuardJob(req[w], job'[w])
  BY <1>5, <1>6, EmptyToSet DEF GuardJob
<1>10. Looks(req[w], job'[w])
  BY <1>3, <1>5, <1>7, GuardFacts DEF Looks
<1> QED BY <1>2, <1>5, <1>6, <1>8, <1>9, <1>10 DEF Settled

\* Who is about to be let past the guarded directory is so by its file.
LEMMA GuardingFile ==
  ASSUME IInv, NEW w \in Worker, HasEdit, IsDir(Dir), Looks(req[w], job[w]),
         job[w].pc = "authorize", GuardOf(req[w], job[w]) = Dir
  PROVE  AuthFile(w) = Edit.file
<1> DEFINE p == job[w].path
<1>1. p \in Seq(Name) /\ req[w] \in Request[w] /\ (p = <<>> => job[w].file.dir)
  <2>1. PlaceInv(w)
    BY DEF IInv, WorkerInv
  <2>2. p \in Path \cup {<<>>} /\ req[w] \in Request[w]
    BY JobFacts, JobFields DEF IInv
  <2> QED BY <2>1, <2>2, PutFacts DEF PlaceInv
<1>2. IsPrefix(Dir, p)
  <2>1. CASE job[w].file.dir \/ (req[w].slash /\ job[w].file.mtime = 0)
    <3>1. p = Dir /\ 0 \in 0 .. Len(Dir)
      BY <2>1, GuardFacts, LenProperties DEF GuardOf
    <3> QED BY <3>1, GuardFacts, PrefixFacts
  <2>2. CASE ~(job[w].file.dir \/ (req[w].slash /\ job[w].file.mtime = 0))
    <3>1. p # <<>> /\ Parent(p) = Dir /\ 0 \in 0 .. Len(Dir)
      BY <1>1, <2>2, GuardFacts, LenProperties DEF GuardOf
    <3>2. IsPrefix(Dir, Dir)
      BY <3>1, GuardFacts, PrefixFacts
    <3> QED BY <1>1, <3>1, <3>2, GuardFacts, ParentFacts
  <2> QED BY <2>1, <2>2
<1>3. {k \in DOMAIN Config.protect : IsPrefix(Config.protect[k].prefix, req[w].path)} = {}
  <2>1. IsPrefix(Dir, req[w].path)
    BY <1>2 DEF Looks
  <2> QED BY <1>1, <2>1, GuardFacts
<1>4. (IF IsDir(p) \/ Slashed(w) THEN p ELSE Parent(p)) = Dir
  BY <1>1 DEF GuardOf, Looks, Slashed
<1> HIDE DEF p
<1>5. AuthFile(w) = Append(IF IsDir(p) \/ Slashed(w) THEN p ELSE Parent(p), Config.passwords)
  BY Zenon, <1>3, GuardFacts DEF AuthFile, p
<1> QED BY <1>4, <1>5, GuardFacts

LEMMA AuthorizeSettles ==
  ASSUME IInv, NEW w \in Worker, HasEdit => EditKept, Apart(req[w], job[w]),
         GuardJob(req[w], job[w]), Looks(req[w], job[w]), Authorize(w)
  PROVE  /\ Settled(w) /\ job'[w].pc \in {"dispatch", "end"} /\ Quiet
         /\ job'[w].names = job[w].names /\ job'[w].sent = job[w].sent
         /\ job'[w].path = job[w].path
<1>1. job[w] \in Job /\ job \in [Worker -> Job] /\ job[w].pc = "authorize" /\ Quiet
  BY Zenon, AuthorizeFacts DEF IInv, TypeInv
<1>2. ASSUME Moves(req[w], job[w], job'[w]), job'[w].pc \in {"dispatch", "end"}
      PROVE  /\ Settled(w) /\ job'[w].names = job[w].names /\ job'[w].sent = job[w].sent
             /\ job'[w].path = job[w].path
  <2>1. Goes(req[w], job[w], job'[w]) /\ job[w].pc # "idle"
    BY <1>1, <1>2 DEF Moves
  <2> QED BY <1>2, <2>1, GoesSettles DEF Moves, Goes
<1>3. HasEdit /\ GuardOf(req[w], job[w]) = Dir => AuthFile(w) = Edit.file
  BY <1>1, GuardingFile DEF EditKept
<1>4. CASE \E s \in {200, 302} : Answer(w, s)
  <2>1. Moves(req[w], job[w], job'[w]) /\ job'[w].pc = "end"
    BY <1>4, AnswerMoves
  <2> QED BY <1>1, <1>2, <2>1
<1>5. CASE Goto(w, "dispatch")
  <2>1. Moves(req[w], job[w], job'[w]) /\ job'[w].pc = "dispatch"
    BY <1>5, GotoMoves
  <2> QED BY <1>1, <1>2, <2>1
<1>6. CASE /\ ~Opens(AuthFile(w))
           /\ job' = [job EXCEPT ![w].pc = "dispatch", ![w].passed = "noFile",
                                 ![w].gap = (editor = "removed")]
  <2>1. PICK g \in BOOLEAN : g = (editor = "removed")
    OBVIOUS
  <2>2. job'[w] = [job[w] EXCEPT !.pc = "dispatch", !.passed = "noFile", !.gap = g]
    <3> HIDE DEF Job
    <3> QED BY <1>1, <1>6, <2>1
  <2>3. /\ job'[w].pc = "dispatch" /\ job'[w].path = job[w].path /\ job'[w].file = job[w].file
        /\ job'[w].gap = g /\ job'[w].passed = "noFile"
        /\ job'[w].names = job[w].names /\ job'[w].sent = job[w].sent
        /\ job'[w].depth = job[w].depth /\ job'[w].replies = job[w].replies
    BY <1>1, <2>2 DEF Job
  <2>4. GuardOf(req[w], job'[w]) = GuardOf(req[w], job[w])
    BY <2>3 DEF GuardOf
  <2>5. HasEdit /\ GuardOf(req[w], job[w]) = Dir => g
    <3>1. IsFile(Edit.file) => Opens(Edit.file)
      BY EditFacts DEF Opens
    <3>2. Edit.file # <<>>
      BY GuardFacts, AppendProperties, EmptySeq, LenProperties
    <3> QED BY <1>3, <1>6, <2>1, <3>1, <3>2 DEF EditKept, IsFile
  <2>6. Apart(req[w], job'[w]) /\ GuardJob(req[w], job'[w])
    BY <1>1, <2>3, <2>4, <2>5 DEF Apart, Making, GuardJob
  <2> QED BY <1>1, <2>3, <2>6 DEF Settled
<1>7. CASE job' = [job EXCEPT ![w].pc = "dispatch", ![w].passed = "cred"]
  <2>1. job'[w] = [job[w] EXCEPT !.pc = "dispatch", !.passed = "cred"]
    <3> HIDE DEF Job
    <3> QED BY <1>1, <1>7
  <2>2. /\ job'[w].pc = "dispatch" /\ job'[w].path = job[w].path /\ job'[w].file = job[w].file
        /\ job'[w].passed = "cred"
        /\ job'[w].names = job[w].names /\ job'[w].sent = job[w].sent
        /\ job'[w].depth = job[w].depth /\ job'[w].replies = job[w].replies
    BY <1>1, <2>1 DEF Job
  <2>3. GuardOf(req[w], job'[w]) = GuardOf(req[w], job[w])
    BY <2>2 DEF GuardOf
  <2>4. Apart(req[w], job'[w]) /\ GuardJob(req[w], job'[w])
    BY <1>1, <2>2, <2>3 DEF Apart, Making, GuardJob
  <2> QED BY <1>1, <2>2, <2>4 DEF Settled
<1>8. CASE /\ Answer(w, 401) /\ Opens(AuthFile(w))
           /\ ~Authorized(req[w], Lines(AuthFile(w)))
  <2>1. PICK s \in Seq(Nat) : s = Append(job[w].replies, 401)
    <3>1. job[w] \in Job
      BY <1>1
    <3>2. PICK c \in Nat : c = 401
      OBVIOUS
    <3>3. \E s \in Seq(Nat) : s = Append(job[w].replies, c)
                              /\ ToSet(s) = ToSet(job[w].replies) \cup {c}
      BY Zenon, <3>1, AnswerAppends
    <3> QED BY <3>2, <3>3
  <2>2. job'[w] = [job[w] EXCEPT !.pc = "end", !.replies = s]
    <3> HIDE DEF Job
    <3> QED BY <1>1, <1>8, <2>1 DEF Answer
  <2>3. /\ job'[w].pc = "end" /\ job'[w].path = job[w].path /\ job'[w].file = job[w].file
        /\ job'[w].gap = job[w].gap /\ job'[w].passed = job[w].passed
        /\ job'[w].names = job[w].names /\ job'[w].sent = job[w].sent
        /\ job'[w].depth = job[w].depth
    BY <1>1, <2>2 DEF Job
  <2>4. GuardOf(req[w], job'[w]) = GuardOf(req[w], job[w])
    BY <2>3 DEF GuardOf
  <2>5. HasEdit /\ GuardOf(req[w], job[w]) = Dir => ~LetInByBoth(req[w])
    <3>1. ASSUME HasEdit, GuardOf(req[w], job[w]) = Dir PROVE Lines(Edit.file) \in {OldLines, NewLines}
      BY <1>3, <1>8, <3>1 DEF EditKept, Opens, IsFile
    <3> QED BY <1>3, <1>8, <3>1 DEF LetInByBoth
  <2>6. Apart(req[w], job'[w]) /\ GuardJob(req[w], job'[w])
    BY <1>1, <2>3, <2>4, <2>5 DEF Apart, Making, GuardJob
  <2> QED BY <1>1, <2>3, <2>6 DEF Settled
<1>9. \/ \E s \in {200, 302} : Answer(w, s)
      \/ Goto(w, "dispatch")
      \/ /\ ~Opens(AuthFile(w))
         /\ job' = [job EXCEPT ![w].pc = "dispatch", ![w].passed = "noFile",
                               ![w].gap = (editor = "removed")]
      \/ job' = [job EXCEPT ![w].pc = "dispatch", ![w].passed = "cred"]
      \/ /\ Answer(w, 401) /\ Opens(AuthFile(w))
         /\ ~Authorized(req[w], Lines(AuthFile(w)))
  BY DEF Authorize
<1> QED BY <1>1, <1>4, <1>5, <1>6, <1>7, <1>8, <1>9

\* A file that will be served, by another path or the same.
Serves(w, p, f) ==
  LET j == job[w]  k == job'[w] IN
  /\ k.path = p /\ k.file = f /\ k.gap = j.gap /\ k.passed = j.passed
  /\ k.names = j.names /\ k.sent = j.sent /\ k.depth = j.depth
  /\ k.pc \in {"openSsi", "open", "end"}
  /\ 401 \in ToSet(k.replies) => 401 \in ToSet(j.replies)

LEMMA ServeFileServes ==
  ASSUME IInv, NEW w \in Worker, NEW p, NEW f, NEW was, ServeFile(w, p, f, was)
  PROVE  \/ Moves(req[w], job[w], job'[w]) /\ job'[w].pc = "end"
         \/ Serves(w, p, f)
<1>1. job[w] \in Job /\ job \in [Worker -> Job]
  BY DEF IInv, TypeInv
<1>2. CASE \E s \in {200, 501} : Answer(w, s)
  BY <1>2, AnswerMoves
<1>3. CASE \E l \in {"openSsi", "open"} :
             job' = [job EXCEPT ![w].pc = l, ![w].path = p, ![w].file = f, ![w].was = was]
  <2>1. PICK l \in {"openSsi", "open"} :
          job' = [job EXCEPT ![w].pc = l, ![w].path = p, ![w].file = f, ![w].was = was]
    BY <1>3
  <2>2. job'[w] = [job[w] EXCEPT !.pc = l, !.path = p, !.file = f, !.was = was]
    <3> HIDE DEF Job
    <3> QED BY <1>1, <2>1
  <2>3. /\ job'[w].pc = l /\ job'[w].path = p /\ job'[w].file = f
        /\ job'[w].gap = job[w].gap /\ job'[w].passed = job[w].passed
        /\ job'[w].names = job[w].names /\ job'[w].sent = job[w].sent
        /\ job'[w].depth = job[w].depth /\ job'[w].replies = job[w].replies
    BY <1>1, <2>2 DEF Job
  <2> QED BY <2>3 DEF Serves
<1>4. CASE job' = [job EXCEPT ![w].pc = "end", ![w].path = p, ![w].file = f, ![w].was = was,
                              ![w].replies = Append(@, 304)]
  <2>1. PICK s \in Seq(Nat) : s = Append(job[w].replies, 304)
                              /\ ToSet(s) = ToSet(job[w].replies) \cup {304}
    <3>1. job[w] \in Job
      BY <1>1
    <3>2. PICK c \in Nat : c = 304
      OBVIOUS
    <3>3. \E s \in Seq(Nat) : s = Append(job[w].replies, c)
                              /\ ToSet(s) = ToSet(job[w].replies) \cup {c}
      BY Zenon, <3>1, AnswerAppends
    <3> QED BY <3>2, <3>3
  <2>2. job'[w] = [job[w] EXCEPT !.pc = "end", !.path = p, !.file = f, !.was = was,
                                 !.replies = s]
    <3> HIDE DEF Job
    <3> QED BY <1>1, <1>4, <2>1
  <2>3. /\ job'[w].pc = "end" /\ job'[w].path = p /\ job'[w].file = f
        /\ job'[w].gap = job[w].gap /\ job'[w].passed = job[w].passed
        /\ job'[w].names = job[w].names /\ job'[w].sent = job[w].sent
        /\ job'[w].depth = job[w].depth /\ job'[w].replies = s
    BY <1>1, <2>2 DEF Job
  <2> QED BY <2>1, <2>3 DEF Serves
<1>5. \/ \E s \in {200, 501} : Answer(w, s)
      \/ \E l \in {"openSsi", "open"} :
           job' = [job EXCEPT ![w].pc = l, ![w].path = p, ![w].file = f, ![w].was = was]
      \/ job' = [job EXCEPT ![w].pc = "end", ![w].path = p, ![w].file = f, ![w].was = was,
                            ![w].replies = Append(@, 304)]
  BY DEF ServeFile
<1> QED BY <1>2, <1>3, <1>4, <1>5

\* No index leads into the guarded directory, or to what is hidden.
LEMMA IndexApart ==
  ASSUME IInv, NEW w \in Worker, Indexes(job[w].path) # {}
  PROVE  LET q == Append(job[w].path, Config.index[Min(Indexes(job[w].path))]) IN
         q \notin Config.hidden /\ q # Dir /\ Parent(q) = job[w].path
<1> DEFINE p == job[w].path
<1> DEFINE n == Min(Indexes(p))
<1>1. n \in DOMAIN Config.index
  <2>1. Indexes(p) \subseteq Nat
    BY ConfigFacts, LenProperties DEF Indexes
  <2>2. n \in Indexes(p)
    BY <2>1, MinFacts
  <2> QED BY <2>2 DEF Indexes
<1>2. p \in Path \cup {<<>>} /\ p \in Seq(Name)
  BY JobFacts, JobFields, PutFacts DEF IInv
<1> HIDE DEF n, p
<1>3. Config.index[n] \in Name
  <2>1. Config.index \in Seq(STRING)
    BY ConfigFacts
  <2>2. Config.index[n] \in STRING
    BY <1>1, <2>1, ElementOfSeq, LenProperties
  <2> QED BY <2>2 DEF Name
<1>4. Append(p, Config.index[n]) \notin Config.hidden
  BY <1>1, <1>2, HiddenAssumption DEF HiddenAssumption
<1>5. Parent(Append(p, Config.index[n])) = p
  BY <1>2, <1>3, ParentFacts
<1>6. Append(p, Config.index[n]) # Dir
  <2>1. ASSUME Append(p, Config.index[n]) = Dir PROVE FALSE
    <3>1. Parent(Dir) = p
      BY <1>5, <2>1
    <3>2. Append(Parent(Dir), Config.index[n]) = Dir
      BY <2>1, <3>1
    <3> QED BY <1>1, <3>2, GuardFacts
  <2> QED BY <2>1
<1> QED BY <1>4, <1>5, <1>6 DEF p, n

\* What is served or listed is not hidden, and one directory up at most.
LEMMA DispatchSettles ==
  ASSUME IInv, NEW w \in Worker, Apart(req[w], job[w]), GuardJob(req[w], job[w]), Dispatch(w)
  PROVE  /\ Settled(w) /\ job'[w].pc \notin Writing \cup {"send", "authorize"} /\ Quiet
         /\ job'[w].names = job[w].names /\ job'[w].sent = <<>>
         /\ job'[w].pc = "open" => job'[w].path \notin Config.hidden
<1> DEFINE p  == job[w].path
<1> DEFINE f  == job[w].file
<1> DEFINE ix == Indexes(p)
<1> DEFINE q  == Append(p, Config.index[Min(ix)])
<1>1. job[w] \in Job /\ job \in [Worker -> Job] /\ job[w].pc = "dispatch" /\ Quiet
  BY Zenon DEF IInv, TypeInv, Dispatch, At, Quiet
<1>2. job[w].sent = <<>>
  BY <1>1 DEF IInv, WorkerInv, PlaceInv, Early
<1>3. CASE Moves(req[w], job[w], job'[w]) /\ job'[w].pc \in {"end", "propfind", "list"}
  <2>1. Settled(w)
    BY <1>1, <1>3, GoesSettles DEF Moves
  <2> QED BY <1>1, <1>2, <1>3, <2>1 DEF Moves, Writing
<1>4. ASSUME NEW x, NEW g, Serves(w, x, g), x \notin Config.hidden,
             (IF g.dir \/ (req[w].slash /\ g.mtime = 0) THEN x ELSE Parent(x)) = Dir
               => GuardOf(req[w], job[w]) = Dir,
             x = p \/ ~IsPutOrDelete(req[w])
      PROVE  /\ Settled(w) /\ job'[w].pc \notin Writing \cup {"send", "authorize"} /\ Quiet
             /\ job'[w].names = job[w].names /\ job'[w].sent = <<>>
             /\ job'[w].pc = "open" => job'[w].path \notin Config.hidden
  <2>1. GuardOf(req[w], job'[w]) = Dir => GuardOf(req[w], job[w]) = Dir
    BY <1>4 DEF Serves, GuardOf
  <2>2. GuardJob(req[w], job'[w])
    BY <1>1, <1>4, <2>1 DEF Serves, GuardJob
  <2>3. Apart(req[w], job'[w])
    BY <1>1, <1>4 DEF Serves, Apart, Making
  <2> QED BY <1>1, <1>2, <1>4, <2>2, <2>3 DEF Serves, Settled, Writing
<1>5. CASE \E s \in {200, 404, 301, 207, 403} : Answer(w, s)
  BY <1>3, <1>5, AnswerMoves
<1>6. CASE Goto(w, "propfind") \/ Goto(w, "list")
  BY <1>3, <1>6, GotoMoves
<1>7. CASE /\ ~f.dir /\ p \notin Config.hidden
           /\ ServeFile(w, p, f, job[w].was)
  <2>1. CASE Serves(w, p, f)
    BY <1>4, <1>7, <2>1 DEF GuardOf
  <2> QED BY <1>3, <1>7, <2>1, ServeFileServes
<1>8. CASE /\ f.dir /\ ix # {} /\ ~IsPutOrDelete(req[w])
           /\ ServeFile(w, q, Stat(q), Contents(q))
  <2>1. q \notin Config.hidden /\ q # Dir /\ Parent(q) = p
    BY <1>8, IndexApart
  <2> HIDE DEF q
  <2>2. CASE Serves(w, q, Stat(q))
    <3>1. (IF Stat(q).dir \/ (req[w].slash /\ Stat(q).mtime = 0) THEN q ELSE Parent(q)) = Dir
            => p = Dir
      BY <2>1
    <3>2. p = Dir => GuardOf(req[w], job[w]) = Dir
      BY <1>8 DEF GuardOf
    <3> QED BY <1>4, <1>8, <2>1, <2>2, <3>1, <3>2
  <2> QED BY <1>3, <1>8, <2>2, ServeFileServes
<1>9. \/ \E s \in {200, 404, 301, 207, 403} : Answer(w, s)
      \/ Goto(w, "propfind") \/ Goto(w, "list")
      \/ ~f.dir /\ p \notin Config.hidden /\ ServeFile(w, p, f, job[w].was)
      \/ f.dir /\ ix # {} /\ ~IsPutOrDelete(req[w]) /\ ServeFile(w, q, Stat(q), Contents(q))
  BY DEF Dispatch
<1> QED BY <1>5, <1>6, <1>7, <1>8, <1>9

\* What a step of w makes of the files.
Touches(w) ==
  \/ UNCHANGED Files /\ job'[w].pc \notin Writing
  \/ /\ IsPutOrDelete(req[w]) /\ job[w].pc # "idle"
     /\ \/ /\ fs' = [fs EXCEPT ![job[w].path] = [kind |-> "none", ino |-> 0]]
           /\ disk' = disk /\ Removable(job[w].path) /\ job'[w].pc \notin Writing
        \/ LET q == SubSeq(job[w].path, 1, job[w].depth) IN
             /\ job[w].pc = "mkdir" /\ fs[q].kind = "none"
             /\ fs' = [fs EXCEPT ![q] = [kind |-> "dir", ino |-> 0]]
             /\ disk' = disk /\ job'[w].pc \notin Writing
        \/ \E ino \in Nat : Fopens(w, ino)
        \/ fs' = fs /\ Writes(w) /\ job[w].pc \in Writing /\ job'[w].ino = job[w].ino

LEMMA HandleSettles ==
  ASSUME IInv, NEW w \in Worker, HasEdit => EditKept, Apart(req[w], job[w]),
         GuardJob(req[w], job[w]), Looks(req[w], job[w]), Handle(w)
  PROVE  Settled(w) /\ Touches(w)
<1>1. ASSUME Goes(req[w], job[w], job'[w]), job[w].pc # "idle" PROVE Settled(w)
  BY <1>1, GoesSettles
<1>2. ASSUME Quiet, job'[w].pc \notin Writing PROVE Touches(w)
  BY <1>2 DEF Quiet, Touches
<1>3. CASE Convert(w)
  <2>1. HasEdit => IsDir(Dir)
    BY DEF EditKept
  <2> QED BY <1>2, <1>3, <2>1, ConvertSettles DEF Writing
<1>4. CASE Authorize(w)
  BY <1>2, <1>4, AuthorizeSettles DEF Writing
<1>5. CASE Change(w)
  <2>1. job'[w].pc \notin Writing
    BY <1>5, ChangeMoves DEF Writing
  <2> QED BY <1>1, <1>5, <2>1, ChangeMoves DEF Moves, Touches
<1>6. CASE Dispatch(w)
  BY <1>2, <1>6, DispatchSettles
<1>7. CASE Scan(w) \/ Open(w) \/ Send(w) \/ Ssi(w)
  <2>1. job[w].pc # "idle"
    BY <1>7, Zenon DEF Scan, Open, Send, Ssi, At
  <2>2. Says(w)
    BY <1>7, ScanSays, OpenSays, SendSays, SsiSays
  <2> QED BY <1>1, <1>2, <2>1, <2>2 DEF Says
<1>8. CASE PutDir(w) \/ OpenSsi(w)
  <2>1. job[w].pc # "idle"
    BY <1>8, Zenon DEF PutDir, OpenSsi, At
  <2>2. job[w].depth # 0
    BY DEF Apart
  <2>3. Moves(req[w], job[w], job'[w]) /\ job'[w].pc \notin Writing /\ Quiet
    BY <1>8, <2>2, PutDirMoves, OpenSsiMoves
  <2> QED BY <1>1, <1>2, <2>1, <2>3 DEF Moves
<1>9. CASE MkDir(w)
  <2>1. job[w].pc \in Putting
    BY <1>9, MkDirMoves DEF Putting
  <2>2. IsPutOrDelete(req[w])
    BY <2>1, WritingIsPut
  <2> QED BY <1>1, <1>9, <2>2, MkDirMoves DEF Moves, Touches, Files
<1>10. CASE PutOpen(w)
  <2>1. job[w].pc \in Putting
    BY <1>10, PutOpenMoves DEF Putting
  <2>2. IsPutOrDelete(req[w])
    BY <2>1, WritingIsPut
  <2> QED BY <1>1, <1>10, <2>2, PutOpenMoves DEF Moves, Touches, Writing
<1>11. CASE Forward(w) \/ Receive(w) \/ Close(w)
  <2>1. PutMoves(w)
    BY <1>11, ForwardMoves, ReceiveMoves, CloseMoves
  <2>2. IsPutOrDelete(req[w]) /\ job[w].pc # "idle"
    BY <2>1, WritingIsPut DEF PutMoves, Writing
  <2> QED BY <1>1, <2>1, <2>2 DEF PutMoves, Moves, Touches
<1> QED BY <1>3, <1>4, <1>5, <1>6, <1>7, <1>8, <1>9, <1>10, <1>11 DEF Handle

\* What a path leads to is as it was, and still has no other name.
Spared(p) ==
  /\ fs'[p] = fs[p] /\ Alone(p)'
  /\ fs[p].kind = "file" => disk'[fs[p].ino] = disk[fs[p].ino]

\* A step of w spares a file that its path does not go through.
LEMMA TouchSpares ==
  ASSUME IInv, NEW w \in Worker, Touches(w), Others(w), NEW p \in Path, Alone(p),
         IsPutOrDelete(req[w]) /\ job[w].pc # "idle" => ~IsPrefix(p, job[w].path),
         Making(req[w], job[w])
  PROVE  Spared(p)
<1>1. /\ fs \in [Path -> FileType] /\ disk \in Seq(InodeType) /\ job[w] \in Job
      /\ now \in 0 .. MaxTime
  BY JobFacts DEF IInv, TypeInv
<1>2. PICK n \in Nat : n = Len(disk)
  BY <1>1, LenProperties
<1>3. PICK i \in Nat : i = fs[p].ino /\ (fs[p].kind = "file" => i \in 1 .. n)
  BY <1>2, FsFacts
<1>4. p \in Seq(Name) /\ job[w].path \in Seq(Name) /\ IsPrefix(p, p)
  <2>1. p \in Seq(Name) /\ job[w].path \in Seq(Name)
    BY <1>1, JobFields, PutFacts
  <2>2. 0 \in 0 .. Len(p)
    BY <2>1, LenProperties
  <2> QED BY <2>1, <2>2, PrefixFacts
\* Nobody else has begun to write.
<1>5. ASSUME fs'[p] = fs[p], fs[p].kind = "file",
             job'[w].pc \in Writing => job'[w].ino # i,
             \A q \in Path \ {p} : fs'[q] = fs[q] \/ fs'[q].kind # "file" \/ fs'[q].ino # i
      PROVE  Alone(p)'
  <2>1. ASSUME NEW q \in Path \ {p}, fs'[q].kind = "file" PROVE fs'[q].ino # fs'[p].ino
    BY <1>3, <1>5, <2>1 DEF Alone
  <2>2. ASSUME NEW v \in Worker, job'[v].pc \in Writing PROVE job'[v].ino # fs'[p].ino
    <3>1. CASE v = w
      BY <1>3, <1>5, <2>2, <3>1
    <3>2. CASE v # w
      <4>1. job'[v].pc = job[v].pc /\ job'[v].ino = job[v].ino
        BY <3>2 DEF Others
      <4> QED BY <1>5, <2>2, <4>1 DEF Alone
    <3> QED BY <3>1, <3>2
  <2> QED BY <2>1, <2>2 DEF Alone
<1>6. fs'[p].kind # "file" => Alone(p)'
  BY DEF Alone
<1>7. CASE UNCHANGED Files /\ job'[w].pc \notin Writing
  <2>1. fs' = fs /\ disk' = disk
    BY <1>7 DEF Files
  <2> QED BY <1>5, <1>6, <1>7, <2>1 DEF Spared
<1>8. ASSUME NEW q, q # p, NEW x, x.kind # "file", fs' = [fs EXCEPT ![q] = x], disk' = disk,
             job'[w].pc \notin Writing
      PROVE  Spared(p)
  <2>1. fs'[p] = fs[p] /\ \A a \in Path \ {p} : fs'[a] = fs[a] \/ fs'[a].kind # "file"
    BY <1>1, <1>8
  <2> QED BY <1>5, <1>6, <1>8, <2>1 DEF Spared
<1>9. CASE /\ IsPutOrDelete(req[w]) /\ job[w].pc # "idle"
           /\ fs' = [fs EXCEPT ![job[w].path] = [kind |-> "none", ino |-> 0]]
           /\ disk' = disk /\ job'[w].pc \notin Writing
  <2>1. PICK x : x = [kind |-> "none", ino |-> 0] /\ x.kind # "file"
    <3>1. [kind |-> "none", ino |-> 0].kind # "file"
      OBVIOUS
    <3> QED BY <3>1
  <2>2. job[w].path # p
    BY <1>4, <1>9
  <2> QED BY <1>8, <1>9, <2>1, <2>2
<1>10. CASE /\ IsPutOrDelete(req[w]) /\ job[w].pc = "mkdir"
            /\ fs' = [fs EXCEPT ![SubSeq(job[w].path, 1, job[w].depth)] = [kind |-> "dir", ino |-> 0]]
            /\ disk' = disk /\ job'[w].pc \notin Writing
  <2>1. PICK x : x = [kind |-> "dir", ino |-> 0] /\ x.kind # "file"
    <3>1. [kind |-> "dir", ino |-> 0].kind # "file"
      OBVIOUS
    <3> QED BY <3>1
  <2>2. job[w].depth \in 0 .. Len(job[w].path)
    BY <1>4, <1>10, LenProperties DEF Making
  <2>3. SubSeq(job[w].path, 1, job[w].depth) # p
    BY <1>4, <1>10, <2>2, PrefixFacts
  <2> QED BY <1>8, <1>10, <2>1, <2>3
<1>11. ASSUME NEW ino \in Nat, Fopens(w, ino), IsPutOrDelete(req[w]), job[w].pc # "idle"
       PROVE  Spared(p)
  <2>1. job[w].path # p /\ job[w].path \in Path
    BY <1>4, <1>11 DEF Fopens
  <2>2. PICK x : x = [kind |-> "file", ino |-> ino] /\ x.ino = ino
    <3>1. [kind |-> "file", ino |-> ino].ino = ino
      OBVIOUS
    <3> QED BY <3>1
  <2>3. fs' = [fs EXCEPT ![job[w].path] = x]
    BY <1>11, <2>2 DEF Fopens
  <2>4. fs'[p] = fs[p] /\ \A a \in Path \ {p} : fs'[a] = fs[a] \/ fs'[a].ino = ino
    BY <1>1, <2>1, <2>2, <2>3
  <2>5. ASSUME fs[p].kind = "file" PROVE ino # i /\ disk'[i] = disk[i]
    <3>1. PICK e : e = Empty
      OBVIOUS
    <3>2. CASE IsFile(job[w].path) /\ ino = fs[job[w].path].ino /\ disk' = [disk EXCEPT ![ino] = e]
      <4>1. ino # i
        BY <1>3, <2>1, <2>5, <3>2 DEF Alone, IsFile
      <4> QED BY <1>1, <1>2, <1>3, <2>5, <3>2, <4>1, LenProperties
    <3>3. CASE ino = Len(disk) + 1 /\ disk' = Append(disk, e)
      <4>1. e \in InodeType
        BY <3>1, EmptyFacts
      <4> QED BY <1>1, <1>2, <1>3, <2>5, <3>3, <4>1, AppendProperties
    <3> QED BY <1>11, <3>1, <3>2, <3>3 DEF Fopens
  <2>6. job'[w].ino = ino
    BY <1>11 DEF Fopens
  <2> QED BY <1>3, <1>5, <1>6, <2>4, <2>5, <2>6 DEF Spared
<1>12. CASE fs' = fs /\ Writes(w) /\ job[w].pc \in Writing /\ job'[w].ino = job[w].ino
  <2>1. ASSUME fs[p].kind = "file" PROVE job[w].ino # i /\ disk'[i] = disk[i]
    <3>1. job[w].ino # i
      BY <1>3, <1>12, <2>1 DEF Alone
    <3>2. disk' = disk \/ \E d : disk' = [disk EXCEPT ![job[w].ino] = d]
      BY <1>12 DEF Writes
    <3> QED BY <1>1, <1>2, <1>3, <2>1, <3>1, <3>2, LenProperties
  <2> QED BY <1>3, <1>5, <1>6, <1>12, <2>1 DEF Spared
<1> QED BY <1>7, <1>9, <1>10, <1>11, <1>12 DEF Touches

\* The guarded directory stays, and no other is made in it.
LEMMA TouchNear ==
  ASSUME IInv, EditKept, NEW w \in Worker, Touches(w), Apart(req[w], job[w])
  PROVE  /\ IsDir(Dir)'
         /\ \A q \in Path : fs'[q].kind = "dir" => fs[q].kind = "dir" \/ Parent(q) # Dir
<1>1. fs \in [Path -> FileType] /\ job[w] \in Job
  BY JobFacts DEF IInv, TypeInv
<1>2. Dir = <<>> \/ (Dir \in Path /\ fs[Dir].kind = "dir")
  BY GuardFacts DEF EditKept, IsDir
<1>3. ASSUME NEW p, NEW x, fs' = [fs EXCEPT ![p] = x], p # Dir \/ x.kind = "dir",
             x.kind = "dir" => Parent(p) # Dir
      PROVE  /\ IsDir(Dir)'
             /\ \A q \in Path : fs'[q].kind = "dir" => fs[q].kind = "dir" \/ Parent(q) # Dir
  <2>1. Dir = <<>> \/ fs'[Dir].kind = "dir"
    BY <1>1, <1>2, <1>3
  <2>2. ASSUME NEW q \in Path, fs'[q].kind = "dir" PROVE fs[q].kind = "dir" \/ Parent(q) # Dir
    <3>1. CASE q = p
      <4>1. fs'[q] = x
        BY <1>1, <1>3, <3>1
      <4> QED BY <1>3, <2>2, <3>1, <4>1
    <3>2. CASE q # p
      <4>1. fs'[q] = fs[q]
        BY <1>1, <1>3, <3>2
      <4> QED BY <2>2, <4>1
    <3> QED BY <3>1, <3>2
  <2> QED BY <2>1, <2>2 DEF IsDir, Dir
<1>4. CASE fs' = fs
  BY <1>2, <1>4 DEF IsDir, Dir
<1>5. CASE /\ fs' = [fs EXCEPT ![job[w].path] = [kind |-> "none", ino |-> 0]]
           /\ Removable(job[w].path)
  <2>1. PICK x : x = [kind |-> "none", ino |-> 0] /\ x.kind = "none"
    <3>1. [kind |-> "none", ino |-> 0].kind = "none"
      OBVIOUS
    <3> QED BY <3>1
  <2>2. ASSUME job[w].path = Dir PROVE FALSE
    <3>1. /\ Edit.file \in Path /\ Edit.tmp \in Path
          /\ Parent(Edit.file) = Dir /\ Parent(Edit.tmp) = Dir
      BY EditFacts, GuardFacts
    <3>2. ~IsFile(Dir)
      BY <1>2 DEF IsFile
    <3>3. ~IsFile(Edit.file) /\ ~IsFile(Edit.tmp)
      BY <1>5, <2>2, <3>1, <3>2 DEF Removable
    <3>4. Edit.file # <<>> /\ Edit.tmp # <<>>
      <4>1. Edit.file # <<>>
        BY GuardFacts, AppendProperties, EmptySeq, LenProperties
      <4>2. \A q \in Path : Parent(q) = job[w].path => ~IsFile(q) /\ ~IsDir(q)
        BY <1>5, <2>2, <3>2 DEF Removable
      <4>3. ~IsDir(Edit.tmp)
        BY <2>2, <3>1, <4>2
      <4> QED BY <4>1, <4>3 DEF IsDir
    <3> QED BY <3>3, <3>4 DEF EditKept, IsFile
  <2> QED BY <1>3, <1>5, <2>1, <2>2
<1>6. CASE /\ IsPutOrDelete(req[w]) /\ job[w].pc = "mkdir"
           /\ fs' = [fs EXCEPT ![SubSeq(job[w].path, 1, job[w].depth)] = [kind |-> "dir", ino |-> 0]]
  <2>1. PICK x : x = [kind |-> "dir", ino |-> 0] /\ x.kind = "dir"
    <3>1. [kind |-> "dir", ino |-> 0].kind = "dir"
      OBVIOUS
    <3> QED BY <3>1
  <2>2. req[w].method = "PUT"
    <3>1. StoreJob(w, job[w]) /\ job[w].pc \in Putting
      BY <1>6 DEF IInv, WorkerInv, StoreInv, Putting
    <3> QED BY <3>1 DEF StoreJob
  <2>3. PICK q : q = SubSeq(job[w].path, 1, job[w].depth)
    OBVIOUS
  <2>4. Parent(q) # Dir
    BY <1>6, <2>2, <2>3 DEF Apart, Making
  <2> QED BY <1>3, <1>6, <2>1, <2>3, <2>4
<1>7. ASSUME NEW ino \in Nat, Fopens(w, ino)
      PROVE  /\ IsDir(Dir)'
             /\ \A q \in Path : fs'[q].kind = "dir" => fs[q].kind = "dir" \/ Parent(q) # Dir
  <2>1. PICK x : x = [kind |-> "file", ino |-> ino] /\ x.kind = "file"
    <3>1. [kind |-> "file", ino |-> ino].kind = "file"
      OBVIOUS
    <3> QED BY <3>1
  <2>2. fs' = [fs EXCEPT ![job[w].path] = x] /\ job[w].path # Dir
    BY <1>7, <2>1 DEF Fopens, EditKept
  <2> QED BY <1>3, <2>1, <2>2
<1> QED BY <1>4, <1>5, <1>6, <1>7 DEF Touches, Files

\* So a request spares the passwords file and its temporary.
LEMMA HandleSparesEdit ==
  ASSUME IInv, EditKept, NEW w \in Worker, Touches(w), Others(w), editor' = editor,
         Apart(req[w], job[w])
  PROVE  EditKept'
<1>1. IsDir(Dir)'
  BY TouchNear
<1>2. Alone(Edit.file) /\ Alone(Edit.tmp) /\ Edit.file \in Path /\ Edit.tmp \in Path
  BY EditFacts DEF EditKept
<1>3. Spared(Edit.file) /\ Spared(Edit.tmp)
  BY <1>2, TouchSpares DEF Apart
<1>4. \A p \in {Edit.file, Edit.tmp} : fs[p].kind = "file" => Lines(p)' = Lines(p)
  BY <1>3 DEF Spared, Lines
<1>5. editor # "removed" => Lines(Edit.file)' = Lines(Edit.file)
  BY <1>4 DEF EditKept
<1>6. editor \in {"copied", "removed"} => Lines(Edit.tmp)' = Lines(Edit.tmp)
  BY <1>4 DEF EditKept
<1>7. fs'[Edit.file] = fs[Edit.file] /\ fs'[Edit.tmp] = fs[Edit.tmp]
      /\ Alone(Edit.file)' /\ Alone(Edit.tmp)'
  BY <1>3 DEF Spared
<1>8. /\ fs[Edit.file].kind = IF editor = "removed" THEN "none" ELSE "file"
      /\ fs[Edit.tmp].kind = IF editor \in {"copied", "removed"} THEN "file" ELSE "none"
      /\ editor # "removed" =>
           Lines(Edit.file) = IF editor = "done" THEN NewLines ELSE OldLines
      /\ editor \in {"copied", "removed"} => Lines(Edit.tmp) = NewLines
  BY DEF EditKept
<1> QED BY <1>1, <1>5, <1>6, <1>7, <1>8 DEF EditKept, NewLines, OldLines

\* The editor makes the new lines of the old ones, and makes no directory.
LEMMA EditorGuards ==
  ASSUME IInv, EditKept, ModifyPasswords
  PROVE  /\ EditKept' /\ req' = req /\ job' = job
         /\ \A q \in Path : fs'[q].kind = "dir" => fs[q].kind = "dir"
<1>1. /\ fs \in [Path -> FileType] /\ disk \in Seq(InodeType) /\ now \in 0 .. MaxTime
      /\ Edit.file \in Path /\ Edit.tmp \in Path /\ Edit.file # Edit.tmp
      /\ req' = req /\ job' = job
  BY EditFacts, EditAssumption DEF EditAssumption, IInv, TypeInv, ModifyPasswords, Create, Copy,
     CopyFails, RemoveOld, Rename
<1>2. PICK n \in Nat : n = Len(disk)
  BY <1>1, LenProperties
<1>3. PICK x : x = [kind |-> "none", ino |-> 0] /\ x.kind = "none"
  <2>1. [kind |-> "none", ino |-> 0].kind = "none"
    OBVIOUS
  <2> QED BY <2>1
<1>4. /\ Dir = <<>> \/ (Dir \in Path /\ fs[Dir].kind = "dir")
      /\ Alone(Edit.file) /\ Alone(Edit.tmp)
      /\ fs[Edit.file].kind = IF editor = "removed" THEN "none" ELSE "file"
      /\ fs[Edit.tmp].kind = IF editor \in {"copied", "removed"} THEN "file" ELSE "none"
      /\ editor # "removed" =>
           Lines(Edit.file) = IF editor = "done" THEN NewLines ELSE OldLines
      /\ editor \in {"copied", "removed"} => Lines(Edit.tmp) = NewLines
  BY GuardFacts DEF EditKept, IsDir
\* What is left to show of a step.
<1>5. ASSUME Dir = <<>> \/ fs'[Dir].kind = "dir", Alone(Edit.file)', Alone(Edit.tmp)',
             fs'[Edit.file].kind = IF editor' = "removed" THEN "none" ELSE "file",
             fs'[Edit.tmp].kind = IF editor' \in {"copied", "removed"} THEN "file" ELSE "none",
             editor' # "removed" =>
               disk'[fs'[Edit.file].ino].data = IF editor' = "done" THEN NewLines ELSE OldLines,
             editor' \in {"copied", "removed"} => disk'[fs'[Edit.tmp].ino].data = NewLines
      PROVE  EditKept'
  BY <1>5 DEF EditKept, IsDir, Lines, Dir, NewLines, OldLines
<1>6. CASE Create
  <2>1. editor = "idle" /\ editor' = "created" /\ IsFile(Edit.file)
    <3>1. Edit.file # <<>>
      BY GuardFacts, AppendProperties, EmptySeq, LenProperties
    <3> QED BY <1>4, <1>6, <3>1 DEF Create, IsFile
  <2>2. fs' = fs /\ disk' = disk
    BY <1>6, <2>1 DEF Create, Files
  <2>3. Alone(Edit.file)' /\ Alone(Edit.tmp)'
    BY <1>1, <1>4, <2>2 DEF Alone
  <2> QED BY <1>1, <1>4, <1>5, <2>1, <2>2, <2>3 DEF Lines
<1>7. CASE CopyFails
  <2>1. editor = "created" /\ editor' = "failed" /\ fs' = fs /\ disk' = disk
    BY <1>7 DEF CopyFails, Files
  <2>2. Alone(Edit.file)' /\ Alone(Edit.tmp)'
    BY <1>1, <1>4, <2>1 DEF Alone
  <2> QED BY <1>1, <1>4, <1>5, <2>1, <2>2 DEF Lines
<1>8. CASE Copy
  <2>1. PICK e : e = [data |-> NewLines, mtime |-> now] /\ e.data = NewLines
    <3>1. [data |-> NewLines, mtime |-> now].data = NewLines
      OBVIOUS
    <3> QED BY <3>1
  <2>2. PICK y : y = [kind |-> "file", ino |-> n + 1] /\ y.kind = "file" /\ y.ino = n + 1
    <3>1. PICK m : m = n + 1
      OBVIOUS
    <3>2. [kind |-> "file", ino |-> m].kind = "file" /\ [kind |-> "file", ino |-> m].ino = m
      OBVIOUS
    <3> QED BY <3>1, <3>2
  <2>3. /\ editor = "created" /\ editor' = "copied"
        /\ fs' = [fs EXCEPT ![Edit.tmp] = y] /\ disk' = Append(disk, e)
    BY <1>2, <1>4, <1>8, <2>1, <2>2 DEF Copy, NewLines
  <2>4. /\ fs'[Edit.file] = fs[Edit.file] /\ fs'[Edit.tmp] = y
        /\ \A q \in Path : q # Edit.tmp => fs'[q] = fs[q]
    BY <1>1, <2>3
  <2>5. disk'[n + 1] = e /\ \A i \in 1 .. n : disk'[i] = disk[i]
    <3>1. disk \in Seq(InodeType \cup {e})
      BY <1>1, SeqMonotonic
    <3> QED BY <1>2, <2>3, <3>1, AppendProperties
  <2>6. \A q \in Path : fs[q].kind = "file" => fs[q].ino \in 1 .. n
    BY <1>2, FsFacts
  <2>7. Alone(Edit.file)'
    <3>1. fs[Edit.file].ino # n + 1
      BY <1>1, <1>4, <2>3, <2>6
    <3> QED BY <1>1, <1>4, <2>2, <2>4, <3>1 DEF Alone
  <2>8. Alone(Edit.tmp)'
    <3>1. ASSUME NEW v \in Worker, job[v].pc \in Writing PROVE job[v].ino # n + 1
      <4>1. job[v].ino \in 1 .. n
        BY <1>2, <3>1 DEF IInv, WorkerInv, StoreInv, StoreJob, Inode
      <4> QED BY <4>1
    <3>2. \A q \in Path \ {Edit.tmp} : fs'[q].kind = "file" => fs'[q].ino # n + 1
      BY <2>4, <2>6
    <3> QED BY <1>1, <2>2, <2>4, <3>1, <3>2 DEF Alone
  <2>9. disk'[fs'[Edit.file].ino].data = OldLines
    BY <1>1, <1>4, <2>3, <2>4, <2>5, <2>6 DEF Lines
  <2>10. Dir = <<>> \/ fs'[Dir].kind = "dir"
    BY <1>4, <2>3, <2>4
  <2> QED BY <1>1, <1>4, <1>5, <2>1, <2>2, <2>3, <2>4, <2>5, <2>7, <2>8, <2>9, <2>10
<1>9. CASE RemoveOld
  <2>1. /\ editor = "copied" /\ editor' = "removed" /\ disk' = disk
        /\ fs' = [fs EXCEPT ![Edit.file] = x]
    BY <1>3, <1>9 DEF RemoveOld
  <2>2. fs'[Edit.file] = x /\ \A q \in Path : q # Edit.file => fs'[q] = fs[q]
    BY <1>1, <2>1
  <2>3. Alone(Edit.file)' /\ Alone(Edit.tmp)'
    BY <1>1, <1>3, <1>4, <2>2 DEF Alone
  <2>4. Dir = <<>> \/ fs'[Dir].kind = "dir"
    BY <1>4, <2>1, <2>2
  <2> QED BY <1>1, <1>3, <1>4, <1>5, <2>1, <2>2, <2>3, <2>4 DEF Lines
<1>10. CASE Rename
  <2>1. /\ editor = "removed" /\ editor' = "done" /\ disk' = disk
        /\ fs' = [fs EXCEPT ![Edit.file] = fs[Edit.tmp], ![Edit.tmp] = x]
    BY <1>3, <1>10 DEF Rename
  <2>2. /\ fs'[Edit.file] = fs[Edit.tmp] /\ fs'[Edit.tmp] = x
        /\ \A q \in Path : q # Edit.file /\ q # Edit.tmp => fs'[q] = fs[q]
    BY <1>1, <2>1
  <2>3. Alone(Edit.file)' /\ Alone(Edit.tmp)'
    BY <1>1, <1>3, <1>4, <2>2 DEF Alone
  <2>4. Dir = <<>> \/ fs'[Dir].kind = "dir"
    BY <1>4, <2>1, <2>2
  <2> QED BY <1>1, <1>3, <1>4, <1>5, <2>1, <2>2, <2>3, <2>4 DEF Lines
<1>11. \A q \in Path : fs'[q].kind = "dir" => fs[q].kind = "dir"
  <2>1. CASE \E k : \E p \in Path : k.kind # "dir" /\ fs' = [fs EXCEPT ![p] = k]
    <3>1. PICK k : \E p \in Path : k.kind # "dir" /\ fs' = [fs EXCEPT ![p] = k]
      BY <2>1
    <3>2. \A q \in Path : fs'[q] = fs[q] \/ fs'[q] = k
      BY <1>1, <3>1
    <3> QED BY <3>1, <3>2
  <2>2. CASE Copy \/ RemoveOld
    <3>1. [kind |-> "none", ino |-> 0].kind # "dir"
      OBVIOUS
    <3>2. \A m : [kind |-> "file", ino |-> m].kind # "dir"
      OBVIOUS
    <3> QED BY <1>1, <2>1, <2>2, <3>1, <3>2 DEF Copy, RemoveOld
  <2>3. CASE Create \/ CopyFails
    <3>1. \A m : [kind |-> "file", ino |-> m].kind # "dir"
      OBVIOUS
    <3> QED BY <1>1, <2>1, <2>3, <3>1 DEF Create, CopyFails, Files
  <2>4. CASE Rename
    <3>1. \A q \in Path : fs'[q] = x \/ fs'[q] = fs[q] \/ (q = Edit.file /\ fs'[q] = fs[Edit.tmp])
      BY <1>1, <1>3, <2>4 DEF Rename
    <3>2. fs[Edit.tmp].kind = "file"
      BY <1>4, <2>4 DEF Rename
    <3> QED BY <1>3, <3>1, <3>2
  <2> QED BY <2>2, <2>3, <2>4 DEF ModifyPasswords
<1> QED BY <1>1, <1>6, <1>7, <1>8, <1>9, <1>10, <1>11 DEF ModifyPasswords

\* Each step keeps what the guarded directory asks for.
LEMMA GuardStep ==
  ASSUME IInv, GuardInv, [Next]_vars
  PROVE  GuardInv'
<1>1. (HasEdit => EditKept) /\ \A w \in Worker :
        Apart(req[w], job[w]) /\ GuardJob(req[w], job[w]) /\ Looks(req[w], job[w])
  BY DEF GuardInv
\* What a job was looked up as stays true while no directory is made in Dir.
<1>2. ASSUME NEW w \in Worker, req' = req,
             HasEdit => \A q \in Path :
               fs'[q].kind = "dir" => fs[q].kind = "dir" \/ Parent(q) # Dir,
             job'[w].pc = job[w].pc, job'[w].path = job[w].path, job'[w].file = job[w].file
      PROVE  Looks(req[w], job[w])'
  <2>1. job[w].path \in Path \cup {<<>>}
    BY JobFacts, JobFields DEF IInv
  <2>2. HasEdit /\ job[w].path # <<>> /\ Parent(job[w].path) = Dir /\ fs'[job[w].path].kind = "dir"
          => fs[job[w].path].kind = "dir"
    BY <1>2, <2>1
  <2> QED BY <1>1, <1>2, <2>2 DEF Looks, IsDir, Dir
<1>3. ASSUME NEW v \in Worker, Handle(v) PROVE GuardInv'
  <2>1. Settled(v) /\ Touches(v)
    BY <1>1, <1>3, HandleSettles
  <2>2. Others(v)
    <3>1. TypeInv
      BY DEF IInv
    <3> QED BY <1>3, <3>1, OthersStay
  <2>3. req' = req /\ editor' = editor
    BY Zenon, <1>3 DEF Handle, World, Convert, Authorize, Change, Dispatch, Scan, Open, Send,
       PutDir, MkDir, PutOpen, Forward, Receive, Close, OpenSsi, Ssi
  <2>4. HasEdit =>
          /\ EditKept'
          /\ \A q \in Path : fs'[q].kind = "dir" => fs[q].kind = "dir" \/ Parent(q) # Dir
    BY <1>1, <2>1, <2>2, <2>3, HandleSparesEdit, TouchNear
  <2>5. ASSUME NEW w \in Worker
        PROVE  Apart(req[w], job[w])' /\ GuardJob(req[w], job[w])' /\ Looks(req[w], job[w])'
    <3>1. CASE w = v
      <4>1. Looks(req[w], job[w])'
        <5>1. job'[w].pc = "authorize" => fs' = fs /\ Looks(req[w], job'[w])
          BY <2>1, <3>1 DEF Settled, Quiet, Files
        <5> QED BY <2>3, <5>1 DEF Looks, IsDir, Dir
      <4> QED BY <2>1, <2>3, <3>1, <4>1 DEF Settled, Apart, GuardJob
    <3>2. CASE w # v
      <4>1. /\ job'[w].pc = job[w].pc /\ job'[w].path = job[w].path /\ job'[w].file = job[w].file
            /\ job'[w].depth = job[w].depth /\ job'[w].passed = job[w].passed
            /\ job'[w].gap = job[w].gap /\ job'[w].replies = job[w].replies
        BY <2>2, <3>2 DEF Others
      <4>2. Apart(req[w], job[w])' /\ GuardJob(req[w], job[w])'
        BY <1>1, <2>3, <4>1 DEF Apart, Making, GuardJob, GuardOf, LetInByBoth, NewLines, OldLines, Dir
      <4>3. Looks(req[w], job[w])'
        BY <1>2, <2>3, <2>4, <4>1
      <4> QED BY <4>2, <4>3
    <3> QED BY <3>1, <3>2
  <2> QED BY <2>4, <2>5 DEF GuardInv, HasEdit
<1>4. CASE ModifyPasswords
  <2>1. req' = req /\ job' = job
    BY <1>4 DEF ModifyPasswords, Create, Copy, CopyFails, RemoveOld, Rename
  <2>2. HasEdit => EditKept' /\ \A q \in Path : fs'[q].kind = "dir" => fs[q].kind = "dir"
    BY <1>1, <1>4, EditorGuards
  <2>3. ASSUME NEW w \in Worker
        PROVE  Apart(req[w], job[w])' /\ GuardJob(req[w], job[w])' /\ Looks(req[w], job[w])'
    <3>1. Looks(req[w], job[w])'
      BY <1>2, <2>1, <2>2
    <3> QED BY <1>1, <2>1, <3>1 DEF Apart, GuardJob
  <2> QED BY <2>2, <2>3 DEF GuardInv, HasEdit
<1>5. CASE UNCHANGED <<fs, disk, req, job, editor>>
  BY <1>1, <1>5, Zenon DEF GuardInv, EditKept, Alone, Looks, IsDir, Lines
<1>6. \/ \E v \in Worker : Handle(v)
      \/ ModifyPasswords
      \/ UNCHANGED <<fs, disk, req, job, editor>>
  BY DEF Next, vars, Files, Leave, Tick, Stop
<1> QED BY <1>3, <1>4, <1>5, <1>6

LEMMA InitGuard ==
  ASSUME Init
  PROVE  GuardInv
<1>1. fs = InitialFs /\ disk = InitialDisk /\ job = [w \in Worker |-> Job0] /\ editor = "idle"
  BY Zenon DEF Init, Job0
<1>2. ASSUME NEW w \in Worker
      PROVE  Apart(req[w], job[w]) /\ GuardJob(req[w], job[w]) /\ Looks(req[w], job[w])
  <2>1. /\ job[w].pc = "idle" /\ job[w].passed = "no" /\ job[w].depth = 1 /\ job[w].replies = <<>>
    <3>1. job[w] = Job0
      BY <1>1
    <3> QED BY <3>1 DEF Job0
  <2> QED BY <2>1, EmptyToSet DEF Apart, Making, GuardJob, Looks
<1>3. ASSUME HasEdit PROVE EditKept
  <2>1. IsDir(Dir)
    BY <1>1, GuardFacts DEF IsDir
  <2>2. /\ fs[Edit.file].kind = "file" /\ fs[Edit.tmp].kind = "none" /\ Edit.file \in Path
    BY <1>1, <1>3, EditAssumption, EditFacts DEF EditAssumption, HasEdit
  <2>3. Lines(Edit.file) = OldLines
    BY <1>1, <2>2 DEF Lines, OldLines, Before
  <2>4. Alone(Edit.file)
    <3>1. \A p \in Path \ {Edit.file} : fs[p].kind = "file" => fs[p].ino # fs[Edit.file].ino
      BY <1>1, GuardAssumption DEF GuardAssumption
    <3>2. \A w \in Worker : job[w].pc \notin Writing
      <4>1. \A w \in Worker : job[w].pc = "idle"
        BY <1>1, Job0Facts
      <4> QED BY <4>1 DEF Writing
    <3> QED BY <3>1, <3>2 DEF Alone
  <2> QED BY <1>1, <2>1, <2>2, <2>3, <2>4 DEF EditKept, Alone
<1> QED BY <1>2, <1>3 DEF GuardInv

\* What can be told from the bytes of the hidden files, from HiddenAssumption.
LEMMA PlainFacts ==
  /\ Config.hidden \subseteq Path /\ AllPlain(<<>>) /\ Plain(Hole)
  /\ \A c : c.by \in Worker => Plain(c)
  /\ Edit.file \notin Config.hidden => Plain(Cell(Edit.user, Edit.pass))
  /\ \A q \in Path \ Config.hidden : InitialFs[q].kind = "file" =>
       AllPlain(InitialDisk[InitialFs[q].ino].data)
<1>1. Config.hidden \subseteq Path
  <2>1. Config \in ConfigType
    BY Bounds
  <2> QED BY <2>1, Zenon DEF ConfigType
<1>2. ASSUME NEW p \in Config.hidden, NEW c, c \in ToSet(Before(p))
      PROVE  InitialFs[p].kind = "file" /\ c \in ToSet(InitialDisk[InitialFs[p].ino].data)
  BY <1>2, EmptyToSet DEF Before
<1>3. ASSUME NEW p \in Config.hidden, NEW c, c \in ToSet(Before(p))
      PROVE  /\ c.by # "hole" /\ c.by \notin Worker
             /\ Edit.file \notin Config.hidden => c # Cell(Edit.user, Edit.pass)
             /\ \A q \in Path \ Config.hidden : InitialFs[q].kind = "file" =>
                  c \notin ToSet(InitialDisk[InitialFs[q].ino].data)
  <2>1. InitialFs[p].kind = "file" /\ c \in ToSet(InitialDisk[InitialFs[p].ino].data)
    BY <1>2, <1>3
  <2>2. InitialFs[p].ino \in DOMAIN InitialDisk
    BY <1>1, <2>1, FilesAssumption DEF FilesAssumption
  <2>3. PICK n \in DOMAIN InitialDisk : n = InitialFs[p].ino
    BY <2>2
  <2>4. PICK k \in DOMAIN InitialDisk[n].data : c = InitialDisk[n].data[k]
    BY <2>1, <2>3 DEF ToSet
  <2>5. c.by \notin Worker
    BY <2>3, <2>4, FilesAssumption DEF FilesAssumption
  <2> QED BY <2>1, <2>5, HiddenAssumption DEF HiddenAssumption
<1>4. Plain(Hole)
  <2>1. Hole.by = "hole"
    BY DEF Hole, Cell
  <2> QED BY <1>3, <2>1 DEF Plain
<1>5. AllPlain(<<>>)
  BY EmptyToSet DEF AllPlain
<1>6. \A c : c.by \in Worker => Plain(c)
  BY <1>3 DEF Plain
<1>7. Edit.file \notin Config.hidden => Plain(Cell(Edit.user, Edit.pass))
  BY <1>3 DEF Plain
<1>8. \A q \in Path \ Config.hidden : InitialFs[q].kind = "file" =>
        AllPlain(InitialDisk[InitialFs[q].ino].data)
  BY <1>3 DEF Plain, AllPlain
<1> QED BY <1>1, <1>4, <1>5, <1>6, <1>7, <1>8

\* A new file leaves the others alone.
LEMMA Appended ==
  ASSUME IInv, NEW e \in InodeType, disk' = Append(disk, e)
  PROVE  /\ Len(disk) \in Nat /\ Len(disk') = Len(disk) + 1 /\ disk'[Len(disk) + 1] = e
         /\ \A n \in 1 .. Len(disk) : disk'[n] = disk[n]
<1>1. disk \in Seq(InodeType) /\ Len(disk) \in Nat
  BY LenProperties DEF IInv, TypeInv
<1> QED BY <1>1, AppendProperties

\* Files without a byte of a hidden one stay so, whoever writes to them.
PlainStay ==
  \A n \in 1 .. Len(disk) :
    n \in 1 .. Len(disk') /\ (AllPlain(disk[n].data) => AllPlain(disk'[n].data))

LEMMA TouchPlain ==
  ASSUME IInv, NEW w \in Worker, Touches(w)
  PROVE  PlainStay /\ \A p \in Path : PlainFile(p) => PlainFile(p)'
<1>1. /\ fs \in [Path -> FileType] /\ disk \in Seq(InodeType)
      /\ Empty \in InodeType /\ Empty.data = <<>> /\ Len(disk) \in Nat
  BY EmptyFacts, LenProperties DEF IInv, TypeInv, Empty
<1>2. ASSUME PlainStay, NEW p \in Path, PlainFile(p),
             fs'[p] = fs[p] \/ fs'[p].kind # "file" \/ AllPlain(disk'[fs'[p].ino].data)
      PROVE  PlainFile(p)'
  <2>1. fs[p].kind = "file" => fs[p].ino \in 1 .. Len(disk)
    BY FsFacts
  <2> QED BY <1>2, <2>1 DEF PlainFile, PlainStay, AllPlain, Plain, Before
<1>3. CASE UNCHANGED Files
  <2>1. fs' = fs /\ PlainStay
    BY <1>3 DEF Files, PlainStay
  <2> QED BY <1>2, <2>1
<1>4. ASSUME NEW q, NEW x, x.kind # "file", fs' = [fs EXCEPT ![q] = x], disk' = disk
      PROVE  PlainStay /\ \A p \in Path : PlainFile(p) => PlainFile(p)'
  <2>1. PlainStay /\ \A p \in Path : fs'[p] = fs[p] \/ fs'[p].kind # "file"
    BY <1>1, <1>4 DEF PlainStay
  <2> QED BY <1>2, <2>1
<1>5. CASE /\ fs' = [fs EXCEPT ![job[w].path] = [kind |-> "none", ino |-> 0]] /\ disk' = disk
  <2>1. PICK x : x = [kind |-> "none", ino |-> 0] /\ x.kind # "file"
    <3>1. [kind |-> "none", ino |-> 0].kind # "file"
      OBVIOUS
    <3> QED BY <3>1
  <2> QED BY <1>4, <1>5, <2>1
<1>6. CASE /\ fs' = [fs EXCEPT ![SubSeq(job[w].path, 1, job[w].depth)] = [kind |-> "dir", ino |-> 0]]
           /\ disk' = disk
  <2>1. PICK x : x = [kind |-> "dir", ino |-> 0] /\ x.kind # "file"
    <3>1. [kind |-> "dir", ino |-> 0].kind # "file"
      OBVIOUS
    <3> QED BY <3>1
  <2> QED BY <1>4, <1>6, <2>1
<1>7. ASSUME NEW ino \in Nat, Fopens(w, ino)
      PROVE  PlainStay /\ \A p \in Path : PlainFile(p) => PlainFile(p)'
  <2>1. PICK e \in InodeType : e = Empty /\ e.data = <<>>
    BY <1>1
  <2>2. PlainStay /\ disk'[ino] = e
    <3>1. CASE IsFile(job[w].path) /\ ino = fs[job[w].path].ino /\ disk' = [disk EXCEPT ![ino] = e]
      <4>1. ino \in 1 .. Len(disk)
        BY <1>7, <3>1, FsFacts DEF Fopens, IsFile
      <4>2. /\ Len(disk') = Len(disk) /\ disk'[ino] = e
            /\ \A n \in 1 .. Len(disk) : disk'[n] = disk[n] \/ disk'[n] = e
        BY <1>1, <3>1, <4>1, LenProperties
      <4> QED BY <2>1, <4>2, PlainFacts DEF PlainStay
    <3>2. CASE ino = Len(disk) + 1 /\ disk' = Append(disk, e)
      <4>1. /\ Len(disk') = Len(disk) + 1 /\ disk'[ino] = e
            /\ \A n \in 1 .. Len(disk) : disk'[n] = disk[n]
        BY <1>1, <3>2, Appended
      <4> QED BY <1>1, <4>1 DEF PlainStay
    <3> QED BY <1>7, <2>1, <3>1, <3>2 DEF Fopens
  <2>3. PICK x : x = [kind |-> "file", ino |-> ino] /\ x.ino = ino
    <3>1. [kind |-> "file", ino |-> ino].ino = ino
      OBVIOUS
    <3> QED BY <3>1
  <2>4. \A p \in Path : fs'[p] = fs[p] \/ fs'[p].ino = ino
    BY <1>1, <1>7, <2>3 DEF Fopens
  <2>5. AllPlain(disk'[ino].data)
    BY <2>1, <2>2, PlainFacts
  <2> QED BY <1>2, <2>2, <2>4, <2>5
<1>8. CASE fs' = fs /\ Writes(w) /\ job[w].pc \in Writing
  <2>1. PlainStay
    <3>1. job[w].ino \in 1 .. Len(disk)
      <4>1. StoreJob(w, job[w])
        BY Zenon DEF IInv, WorkerInv, StoreInv
      <4>2. Inode(job[w].ino)
        BY <1>8, <4>1 DEF StoreJob
      <4> QED BY <4>2 DEF Inode
    <3>2. CASE disk' = disk
      BY <3>2 DEF PlainStay
    <3>3. ASSUME NEW d, disk' = [disk EXCEPT ![job[w].ino] = d],
                 \A c \in ToSet(d.data) :
                   c \in ToSet(disk[job[w].ino].data) \/ c = Hole \/ c.by = w
          PROVE  PlainStay
      <4>1. /\ Len(disk') = Len(disk) /\ disk'[job[w].ino] = d
            /\ \A n \in 1 .. Len(disk) : n # job[w].ino => disk'[n] = disk[n]
        BY <1>1, <3>1, <3>3, LenProperties
      <4>2. AllPlain(disk[job[w].ino].data) => AllPlain(d.data)
        BY <3>3, PlainFacts DEF AllPlain
      <4> QED BY <4>1, <4>2 DEF PlainStay
    <3> QED BY <1>8, <3>2, <3>3 DEF Writes
  <2> QED BY <1>2, <1>8, <2>1
<1> QED BY <1>3, <1>5, <1>6, <1>7, <1>8 DEF Touches

\* What a step of w lists and sends.
LEMMA HandleHides ==
  ASSUME IInv, GuardInv, HiddenInv, NEW w \in Worker, Handle(w)
  PROVE  HiddenJob(job'[w]) /\ SendsPlain(job[w])'
<1>1. /\ HiddenJob(job[w]) /\ SendsPlain(job[w]) /\ (HasEdit => EditKept)
      /\ Apart(req[w], job[w]) /\ GuardJob(req[w], job[w]) /\ Looks(req[w], job[w])
      /\ HiddenFs
  BY DEF HiddenInv, GuardInv
<1>2. ASSUME job'[w].names = job[w].names, job'[w].sent = job[w].sent,
             job'[w].path = job[w].path, job'[w].pc \notin {"open", "send"}
      PROVE  HiddenJob(job'[w]) /\ SendsPlain(job[w])'
  BY <1>1, <1>2 DEF HiddenJob, SendsPlain, Free
<1>3. ASSUME job'[w].names = job[w].names, job'[w].sent = <<>>, job'[w].pc # "send",
             job'[w].pc = "open" => job'[w].path \notin Config.hidden
      PROVE  HiddenJob(job'[w]) /\ SendsPlain(job[w])'
  BY <1>1, <1>3, PlainFacts DEF HiddenJob, SendsPlain
<1>4. CASE Convert(w)
  <2>1. HasEdit => IsDir(Dir)
    BY <1>1 DEF EditKept
  <2> QED BY <1>1, <1>3, <1>4, <2>1, ConvertSettles
<1>5. CASE Authorize(w)
  BY <1>1, <1>2, <1>5, AuthorizeSettles
<1>6. CASE Dispatch(w)
  BY <1>1, <1>3, <1>6, DispatchSettles
<1>7. CASE Change(w) \/ PutDir(w) \/ MkDir(w) \/ PutOpen(w) \/ OpenSsi(w)
           \/ Forward(w) \/ Receive(w) \/ Close(w)
  <2>1. job[w].depth # 0
    BY <1>1 DEF Apart
  <2>2. Moves(req[w], job[w], job'[w])
    BY <1>7, <2>1, ChangeMoves, PutDirMoves, MkDirMoves, PutOpenMoves, OpenSsiMoves,
       ForwardMoves, ReceiveMoves, CloseMoves DEF PutMoves
  <2> QED BY <1>2, <2>2 DEF Moves, Goes
<1>8. CASE Scan(w)
  <2>1. Says(w) /\ job'[w].sent = job[w].sent /\ job'[w].pc = "end"
        /\ job'[w].names \in {job[w].names, Shown(job[w].path)}
    BY <1>8, ScanSays
  <2>2. \A q \in Shown(job[w].path) : Last(q) \notin Config.hiddenNames
    BY DEF Shown
  <2> QED BY <1>1, <2>1, <2>2 DEF Says, Goes, HiddenJob, SendsPlain, Free
<1>9. CASE Open(w)
  <2>1. /\ Says(w) /\ job'[w].names = job[w].names /\ job'[w].sent = job[w].sent
        /\ job[w].pc = "open"
        /\ job'[w].pc = "send" => IsFile(job[w].path) /\ job'[w].ino = fs[job[w].path].ino
    BY <1>9, OpenSays
  <2>2. disk' = disk /\ job'[w].path = job[w].path
    BY <2>1 DEF Says, Goes, Quiet, Files
  <2>3. ASSUME Free(job[w]), job'[w].pc = "send" PROVE AllPlain(disk[job'[w].ino].data)
    <3>1. job[w].path \in Path
      BY <2>1, <2>3, JobFacts, JobFields DEF IInv, IsFile
    <3>2. job[w].path \notin Config.hidden \cup {Edit.tmp}
      BY <1>1, <2>1, <2>3 DEF HiddenJob, Free
    <3> QED BY <1>1, <2>1, <2>3, <3>1, <3>2 DEF HiddenFs, PlainFile, IsFile
  <2> QED BY <1>1, <2>1, <2>2, <2>3
        DEF Says, HiddenJob, SendsPlain, Free, AllPlain, Plain, Before
<1>10. CASE Send(w)
  <2>1. /\ Says(w) /\ job'[w].names = job[w].names /\ job'[w].ino = job[w].ino
        /\ job[w].pc = "send"
        /\ ToSet(job'[w].sent) \subseteq ToSet(job[w].sent) \cup ToSet(disk[job[w].ino].data)
    BY <1>10, SendSays
  <2>2. disk' = disk /\ job'[w].path = job[w].path
    BY <2>1 DEF Says, Goes, Quiet, Files
  <2>3. Free(job[w]) => AllPlain(job'[w].sent) /\ AllPlain(disk[job[w].ino].data)
    BY <1>1, <2>1 DEF HiddenJob, SendsPlain, AllPlain
  <2> QED BY <1>1, <2>1, <2>2, <2>3
        DEF Says, HiddenJob, SendsPlain, Free, AllPlain, Plain, Before
<1>11. CASE Ssi(w)
  <2>1. /\ Says(w) /\ job'[w].names = job[w].names /\ job'[w].pc # "send"
        /\ job[w].path \in Config.ssi
    BY <1>11, SsiSays
  <2> QED BY <1>1, <2>1 DEF Says, Goes, HiddenJob, SendsPlain, Free
<1> QED BY <1>4, <1>5, <1>6, <1>7, <1>8, <1>9, <1>10, <1>11 DEF Handle

\* The edited lines of a file that is not hidden are not either.
LEMMA EditorHides ==
  ASSUME IInv, HiddenFs, ModifyPasswords
  PROVE  HiddenFs' /\ PlainStay /\ job' = job
<1>1. /\ fs \in [Path -> FileType] /\ disk \in Seq(InodeType) /\ now \in 0 .. MaxTime
      /\ Edit.file \in Path /\ Edit.tmp \in Path /\ Edit.file # Edit.tmp
      /\ Len(disk) \in Nat /\ job' = job
  BY EditFacts, EditAssumption, LenProperties DEF EditAssumption, IInv, TypeInv, ModifyPasswords,
     Create, Copy, CopyFails, RemoveOld, Rename
<1>2. PICK x : x = [kind |-> "none", ino |-> 0] /\ x.kind = "none"
  <2>1. [kind |-> "none", ino |-> 0].kind = "none"
    OBVIOUS
  <2> QED BY <2>1
\* Each file is an old one, or a new one that is plain where it must be.
<1>3. ASSUME PlainStay,
             \A p \in Path \ (Config.hidden \cup {Edit.tmp}) :
               fs'[p] = fs[p] \/ fs'[p].kind # "file" \/ AllPlain(disk'[fs'[p].ino].data),
             \/ fs'[Edit.tmp] = fs[Edit.tmp] \/ fs'[Edit.tmp].kind # "file"
             \/ Edit.file \notin Config.hidden => AllPlain(disk'[fs'[Edit.tmp].ino].data)
      PROVE  HiddenFs'
  <2>1. ASSUME NEW p \in Path, PlainFile(p),
               fs'[p] = fs[p] \/ fs'[p].kind # "file" \/ AllPlain(disk'[fs'[p].ino].data)
        PROVE  fs'[p].kind = "file" => AllPlain(disk'[fs'[p].ino].data)
    <3>1. fs[p].kind = "file" => fs[p].ino \in 1 .. Len(disk)
      BY FsFacts
    <3> QED BY <1>3, <2>1, <3>1 DEF PlainFile, PlainStay
  <2>2. \A p \in Path \ (Config.hidden \cup {Edit.tmp}) :
          fs'[p].kind = "file" => AllPlain(disk'[fs'[p].ino].data)
    BY <1>3, <2>1 DEF HiddenFs
  <2>3. Edit.file \notin Config.hidden =>
          (fs'[Edit.tmp].kind = "file" => AllPlain(disk'[fs'[Edit.tmp].ino].data))
    BY <1>1, <1>3, <2>1 DEF HiddenFs
  <2> QED BY <2>2, <2>3 DEF HiddenFs, PlainFile, AllPlain, Plain, Before
<1>4. CASE disk' = disk /\ fs' = fs
  BY <1>1, <1>3, <1>4 DEF PlainStay
\* A new file.
<1>5. ASSUME NEW q \in Path, NEW e \in InodeType, disk' = Append(disk, e),
             fs' = [fs EXCEPT ![q] = [kind |-> "file", ino |-> Len(disk) + 1]],
             q # Edit.tmp \/ Edit.file \notin Config.hidden => AllPlain(e.data)
      PROVE  HiddenFs' /\ PlainStay
  <2>1. PICK n \in Nat : n = Len(disk) + 1
    BY <1>1
  <2>2. PICK y : y = [kind |-> "file", ino |-> n] /\ y.ino = n
    <3>1. [kind |-> "file", ino |-> n].ino = n
      OBVIOUS
    <3> QED BY <3>1
  <2>3. Len(disk') = n /\ disk'[n] = e /\ \A i \in 1 .. Len(disk) : disk'[i] = disk[i]
    BY <1>5, <2>1, Appended
  <2>4. PlainStay
    BY <1>1, <2>1, <2>3 DEF PlainStay
  <2>5. fs'[q] = y /\ \A p \in Path : p # q => fs'[p] = fs[p]
    BY <1>1, <1>5, <2>1, <2>2
  <2> QED BY <1>1, <1>3, <1>5, <2>2, <2>3, <2>4, <2>5
<1>6. CASE Create
  <2>1. PICK e \in InodeType : e = Empty /\ e.data = <<>>
    BY EmptyFacts DEF Empty
  <2> QED BY <1>1, <1>4, <1>5, <1>6, <2>1, PlainFacts DEF Create, Files
<1>7. CASE Copy
  <2>1. IsFile(Edit.file) /\ fs[Edit.file].ino \in 1 .. Len(disk)
    BY <1>1, <1>7, FsFacts DEF Copy, IsFile
  <2>2. PICK lines \in Seq(CellType) : lines = Lines(Edit.file)
    BY <2>1, DiskFacts DEF IInv, Lines
  <2>3. PICK s \in Seq(CellType) :
          /\ s = Edited(lines)
          /\ \A i \in 1 .. Len(s) : \/ s[i] = Cell(Edit.user, Edit.pass)
                                    \/ \E k \in 1 .. Len(lines) : s[i] = lines[k]
    <3>1. PICK s : s = Edited(lines)
      OBVIOUS
    <3> QED BY <3>1, EditedFacts
  <2>4. ASSUME Edit.file \notin Config.hidden PROVE AllPlain(s)
    <3>1. AllPlain(lines)
      BY <1>1, <2>1, <2>2, <2>4 DEF HiddenFs, PlainFile, IsFile, Lines
    <3>2. \A k \in 1 .. Len(lines) : Plain(lines[k])
      BY <3>1, LenProperties DEF AllPlain, ToSet
    <3>3. \A i \in 1 .. Len(s) : Plain(s[i])
      BY <2>3, <2>4, <3>2, PlainFacts
    <3> QED BY <3>3, LenProperties DEF AllPlain, ToSet
  <2>5. PICK e \in InodeType : e = [data |-> s, mtime |-> now] /\ e.data = s
    <3>1. PICK t \in 0 .. MaxTime : t = now
      BY <1>1
    <3>2. [data |-> s, mtime |-> t] \in InodeType /\ [data |-> s, mtime |-> t].data = s
      BY DEF InodeType
    <3> QED BY <3>1, <3>2
  <2>6. /\ fs' = [fs EXCEPT ![Edit.tmp] = [kind |-> "file", ino |-> Len(disk) + 1]]
        /\ disk' = Append(disk, e)
    BY <1>7, <2>2, <2>3, <2>5 DEF Copy
  <2> QED BY <1>1, <1>5, <2>4, <2>5, <2>6
<1>8. CASE CopyFails
  BY <1>1, <1>4, <1>8 DEF CopyFails, Files
<1>9. CASE RemoveOld
  <2>1. disk' = disk /\ fs' = [fs EXCEPT ![Edit.file] = x]
    BY <1>2, <1>9 DEF RemoveOld
  <2>2. PlainStay /\ \A p \in Path : fs'[p] = fs[p] \/ fs'[p].kind # "file"
    BY <1>1, <1>2, <2>1 DEF PlainStay
  <2> QED BY <1>1, <1>3, <2>2
<1>10. CASE Rename
  <2>1. disk' = disk /\ fs' = [fs EXCEPT ![Edit.file] = fs[Edit.tmp], ![Edit.tmp] = x]
    BY <1>2, <1>10 DEF Rename
  <2>2. /\ PlainStay /\ fs'[Edit.tmp].kind # "file" /\ fs'[Edit.file] = fs[Edit.tmp]
        /\ \A p \in Path : p # Edit.file /\ p # Edit.tmp => fs'[p] = fs[p]
    BY <1>1, <1>2, <2>1 DEF PlainStay
  <2>3. Edit.file \notin Config.hidden =>
          fs'[Edit.file].kind # "file" \/ AllPlain(disk'[fs'[Edit.file].ino].data)
    BY <2>1, <2>2 DEF HiddenFs, PlainFile
  <2>4. \A p \in Path \ (Config.hidden \cup {Edit.tmp}) :
          fs'[p] = fs[p] \/ fs'[p].kind # "file" \/ AllPlain(disk'[fs'[p].ino].data)
    BY <2>2, <2>3
  <2> QED BY <1>1, <1>3, <2>2, <2>4
<1> QED BY <1>1, <1>6, <1>7, <1>8, <1>9, <1>10 DEF ModifyPasswords

LEMMA HiddenStep ==
  ASSUME IInv, GuardInv, HiddenInv, [Next]_vars
  PROVE  HiddenInv'
<1>1. HiddenFs /\ \A w \in Worker : HiddenJob(job[w]) /\ SendsPlain(job[w])
  BY DEF HiddenInv
\* Who sends goes on sending from a file that is still plain.
<1>2. ASSUME PlainStay, NEW w \in Worker, job'[w].names = job[w].names,
             job'[w].sent = job[w].sent, job'[w].path = job[w].path,
             job'[w].pc = job[w].pc, job'[w].ino = job[w].ino
      PROVE  HiddenJob(job[w])' /\ SendsPlain(job[w])'
  <2>1. HiddenJob(job[w])'
    BY <1>1, <1>2 DEF HiddenJob, Free, AllPlain, Plain, Before
  <2>2. job[w].pc = "send" => job[w].ino \in 1 .. Len(disk)
    BY DEF IInv, WorkerInv, SentInv, Sending, Inode
  <2>3. Free(job[w]) /\ job[w].pc = "send" => AllPlain(disk'[job[w].ino].data)
    BY <1>1, <1>2, <2>2 DEF SendsPlain, PlainStay
  <2> QED BY <1>2, <2>1, <2>3 DEF SendsPlain, Free, AllPlain, Plain, Before
<1>3. ASSUME NEW v \in Worker, Handle(v) PROVE HiddenInv'
  <2>1. Touches(v)
    <3>1. /\ HasEdit => EditKept
          /\ Apart(req[v], job[v]) /\ GuardJob(req[v], job[v]) /\ Looks(req[v], job[v])
      BY DEF GuardInv
    <3> QED BY <1>3, <3>1, HandleSettles
  <2>2. PlainStay /\ \A p \in Path : PlainFile(p) => PlainFile(p)'
    BY <2>1, TouchPlain
  <2>3. HiddenFs'
    BY <1>1, <2>2, EditFacts DEF HiddenFs
  <2>4. Others(v)
    <3>1. TypeInv
      BY DEF IInv
    <3> QED BY <1>3, <3>1, OthersStay
  <2>5. ASSUME NEW w \in Worker PROVE HiddenJob(job[w])' /\ SendsPlain(job[w])'
    <3>1. CASE w = v
      <4>1. HiddenJob(job'[w]) /\ SendsPlain(job[w])'
        BY <1>3, <3>1, HandleHides
      <4> QED BY <4>1 DEF HiddenJob, Free, AllPlain, Plain, Before
    <3>2. CASE w # v
      <4>1. /\ job'[w].pc = job[w].pc /\ job'[w].path = job[w].path /\ job'[w].ino = job[w].ino
            /\ job'[w].names = job[w].names /\ job'[w].sent = job[w].sent
        BY <2>4, <3>2 DEF Others
      <4> QED BY <1>2, <2>2, <4>1
    <3> QED BY <3>1, <3>2
  <2> QED BY <2>3, <2>5 DEF HiddenInv
<1>4. CASE ModifyPasswords
  <2>1. HiddenFs' /\ PlainStay /\ job' = job
    BY <1>1, <1>4, EditorHides
  <2>2. \A w \in Worker : HiddenJob(job[w])' /\ SendsPlain(job[w])'
    BY <1>2, <2>1
  <2> QED BY <2>1, <2>2 DEF HiddenInv
<1>5. CASE UNCHANGED <<fs, disk, job>>
  BY <1>1, <1>5, Zenon DEF HiddenInv, HiddenFs, PlainFile, HiddenJob, SendsPlain, Free,
     AllPlain, Plain, Before
<1>6. \/ \E v \in Worker : Handle(v)
      \/ ModifyPasswords
      \/ UNCHANGED <<fs, disk, job>>
  BY DEF Next, vars, Files, Leave, Tick, Stop
<1> QED BY <1>3, <1>4, <1>5, <1>6

LEMMA InitHidden ==
  ASSUME Init
  PROVE  HiddenInv
<1>1. fs = InitialFs /\ disk = InitialDisk /\ job = [w \in Worker |-> Job0]
  BY Zenon DEF Init, Job0
<1>2. HiddenFs
  <2>1. fs[Edit.tmp].kind = "none"
    BY <1>1, EditAssumption DEF EditAssumption
  <2> QED BY <1>1, <2>1, PlainFacts DEF HiddenFs, PlainFile
<1>3. ASSUME NEW w \in Worker PROVE HiddenJob(job[w]) /\ SendsPlain(job[w])
  <2>1. job[w].pc = "idle" /\ job[w].names = {} /\ job[w].sent = <<>>
    <3>1. job[w] = Job0
      BY <1>1
    <3> QED BY <3>1 DEF Job0
  <2> QED BY <2>1, PlainFacts DEF HiddenJob, SendsPlain
<1> QED BY <1>2, <1>3 DEF HiddenInv

\* Whoever is let past the directory of the passwords file that is being edited
\* without a credential looked between remove and rename; nobody whom both files
\* let in is refused; and nothing hidden is listed or sent.
THEOREM AccessIsHeld == Spec => []AccessHeld
<1>1. Init => IInv /\ GuardInv /\ HiddenInv
  BY InitInv, InitGuard, InitHidden
<1>2. IInv /\ GuardInv /\ HiddenInv /\ [Next]_vars => IInv' /\ GuardInv' /\ HiddenInv'
  BY NextInv, GuardStep, HiddenStep
<1>3. GuardInv => Guarded /\ OthersKept
  <2> SUFFICES ASSUME GuardInv, NEW w \in Worker, Guard(w) = Parent(Edit.file)
               PROVE  /\ job[w].passed = "noFile" /\ Before(Edit.file) # <<>> => job[w].gap
                      /\ ~IsPutOrDelete(req[w]) /\ Authorized(req[w], Before(Edit.file))
                         /\ Authorized(req[w], Edited(Before(Edit.file)))
                         => 401 \notin ToSet(job[w].replies)
    BY DEF Guarded, OthersKept
  <2>1. GuardJob(req[w], job[w]) /\ GuardOf(req[w], job[w]) = Dir
    BY DEF GuardInv, GuardOf, Guard, Slashed, Dir
  <2>2. CASE HasEdit
    BY <2>1, <2>2 DEF GuardJob, LetInByBoth, NewLines, OldLines
  <2>3. CASE ~HasEdit
    <3>1. Before(Edit.file) = <<>>
      BY <2>3 DEF Before, HasEdit
    <3>2. ~Authorized(req[w], <<>>)
      BY DEF Authorized
    <3> QED BY <3>1, <3>2
  <2> QED BY <2>2, <2>3
<1>4. HiddenInv => HiddenKept
  <2> SUFFICES ASSUME HiddenInv, NEW w \in Worker
               PROVE  /\ \A q \in job[w].names : Last(q) \notin Config.hiddenNames
                      /\ job[w].path \notin Config.ssi \cup {Edit.tmp} =>
                           \A p \in Config.hidden : ToSet(Before(p)) \cap ToSet(job[w].sent) = {}
    BY DEF HiddenKept
  <2>1. HiddenJob(job[w])
    BY DEF HiddenInv
  <2> QED BY <2>1 DEF HiddenJob, Free, AllPlain, Plain
<1> QED BY <1>1, <1>2, <1>3, <1>4, PTL DEF Spec, AccessHeld
=============
