# A specification of cudamond

`cudamond` reads the sensors of the NVIDIA GPUs of a machine through NVML and
serves them to a web page.  It is one process: the main thread refreshes an
array of `struct device` every half second, the threads of the embedded
mongoose server copy that array into JSON replies, and `cudamon.js` polls once
a second and draws.  No lock protects the array.

The modules here model the daemon, the page, and the web server that cudamond
embeds and whose every request passes through: its thread pool, its
connections, its files and CGI programs, and the functions that read the texts
of requests and options.

## 1. The system

| component | source | state | operations |
|---|---|---|---|
| monitor | `src/src/monitor.c`, `src/include/monitor.h` | `struct monitor` (devices, `last_update`, `active`), `struct device` (readings, `feature_support`, `event_set`) | `monitor_new` with `init_device_info` and `get_device_features`, `monitor_start` with `update_device_info`, `monitor_destroy` |
| server | `src/src/server.c` | the static `monitor`, `srv->ctx` | `server_new`, `server_start`, `server_destroy`, `begin_request_handler` with `ajax_send_init` and `ajax_send_update` |
| process | `src/src/main.c`, `src/src/device.c` | the NVML session, the `atexit` handler | `main`, `shutdown_nvml`, `nvml_try` |
| web client | `src/www/cudamon.js` | `devices`, `graphs` and their series, the connection label | load (`ajaxInit`, `ajaxUpdate`, `addGraph`), then `ajaxUpdate` once a second |
| thread pool | `mongoose.c:4842-5180` | the ring of sockets, `stop_flag`, `num_threads`, one mutex, three condition variables | `mg_start`, `mg_stop`, `master_thread`, `produce_socket`, `worker_thread`, `consume_socket` |
| mongoose connections | `mongoose.c` | `struct mg_connection`: the buffer and its counts | `process_new_connection`, `getreq`, `read_request`, `mg_read`, keep-alive |
| mongoose files | `mongoose.c` | the document root, the passwords files | `handle_request`: authentication, GET, PUT, DELETE, listings, SSI; `mg_modify_passwords_file` |
| mongoose CGI | `mongoose.c` | two pipes and a child for each request | `handle_cgi_request`, `spawn_process`, `forward_body_data`, the environment |
| mongoose texts and options | `mongoose.c` | none | URIs, heads of requests, variables, cookies, header fields, dates, options and their lists, MIME types, patterns, networks, throttling, ports, uploads |
| fake server, page assets, NVML | `src/faker.rb`, `src/www`, `src/lib/nvml` | none that matters | |

How they interact:

- `main` builds the monitor and the server, `server_start` stores the monitor in
  a static pointer and calls `mg_start`, and `monitor_start` takes over the main
  thread.
- The master thread puts accepted sockets into the ring, a worker takes one and
  serves its requests one after the other.  Before a worker looks at files it
  calls back `begin_request_handler`, which reads the monitor through that
  static pointer while the main thread writes it.
- Workers share the file system with each other and with whoever edits a
  passwords file; a CGI child inherits every descriptor the process has open.
- `mon->active` is the only signal from the server to the monitor: cleared when
  `mg_start` fails.
- The page sees the daemon through `/ajax/init` and `/ajax/update` only.

What is hard in it, and what makes each part correct (line by line in
`PROJECT.json`, under `hazards`):

- **Copies without a lock.**  A reply mixes values of different passes.  It must
  still hold only values the device had during the request, keep the devices
  within one pass of each other, not claim a time long before its values, carry
  the keys `init` announced, and never go back for a client that asks again.
- **Queries that fail.**  A feature is detected once; later a query of it may
  fail at any time.  The old value must stay, and stay announced.
- **Start and end.**  Handlers run before `mg_start` returns.  `main` frees the
  monitor *before* it stops the server.  `mg_start` may fail.
- **The page.**  It polls a daemon that may die, cut a reply short, or come back
  with other devices, and must neither stop, nor grow, nor draw what nobody
  measured.
- **The pool.**  Lost wakeups, a ring that is full, sockets owned by two threads
  or by none, and the race between `mg_start`, `mg_stop` and workers that exit.
- **The byte stream.**  Requests arrive in any pieces and pipelined; what a
  handler did not read must be discarded to the byte, and what `Connection:`
  promised must be what happens next.
- **Pipes.**  Two pipes of finite size between two processes, each of which may
  stop, and any step of setting them up may fail.
- **Files that change under a request.**  A file is looked up, then opened, then
  read, while another request truncates or removes it and a passwords file is
  replaced.
- **Texts at their ends.**  A buffer that ends in the middle of a boundary, an
  escape that becomes a dot, a size that does not fit.

## 2. The modules

| module | what it is |
|---|---|
| `Registers` | abstract specification: what a client that polls is promised |
| `Telemetry` | the data path: probing, passes, requests, replies; shown to implement `Registers` |
| `MCTelemetry` | two pairs of devices for TLC |
| `TelemetryProofs` | theorems about `Telemetry`, its refinement of `Registers` included |
| `Lifecycle` | the process from `main` to its end |
| `LifecycleProofs` | theorems about `Lifecycle` |
| `Service` | abstract specification: what the thread pool promises |
| `SocketQueue` | the thread pool, shown to implement `Service` |
| `SocketQueueProofs` | theorems about `SocketQueue`, its refinement of `Service` included |
| `Client` | the page `cudamon.js` |
| `MCClient` | three fleets of devices for TLC |
| `ClientProofs` | theorems about `Client` |
| `HttpConnection` | a worker's loop over the requests of a connection |
| `MCHttpConnection` | ten kinds of messages for TLC |
| `HttpConnectionProofs` | theorems about `HttpConnection` |
| `Cgi` | workers that run CGI programs |
| `MCCgi` | eight requests with their programs for TLC |
| `CgiProofs` | theorems about `Cgi` |
| `Files` | requests for files, and the editor of a passwords file |
| `MCFiles` | a document root and two dozen requests for TLC |
| `FilesProofs` | theorems about `Files` |
| `StreamLemmas` | what those three keep needing: least elements, sequences cut and joined |
| `Uri`, `Headers`, `Requests`, `Options`, `Listing`, `Access`, `Digest`, `CgiEnvironment`, `Upload`, `Numbers` | the functions that turn one text or number into another, as operators |
| `MCTexts` | inputs for those, with what each is for |

Operators called *mutant* in a comment are defects a change of the code could
introduce; `PROJECT.json` says which property each of them breaks.

### Telemetry

A measured value is abstracted to the number of the pass that read it: 0 is the
`memset`, 1 the start-up probe, k > 1 the (k-1)-st `update_device_info`.  This
keeps what the properties are about, which value is newer, and drops degrees
and megahertz.  `last_update` is likewise the number of the pass that stored it,
so it stands for a clock that is not set back.

| model | code |
|---|---|
| `support`, `reading` | `dev->feature_support`; the numeric members of `struct device` |
| `ProbeDevice`, `StartServer` | an iteration of `init_device_info` with `get_device_features`; its end |
| `BeginPass`, `Refresh`, `RefreshFails`, `SkipQuery`, `NextDevice`, `EndPass` | `monitor_start` and `update_device_info`, one query per step |
| `BeginRequest`, `SendFeatures`, `EndInit` | `begin_request_handler`, `ajax_send_init` |
| `CopyWord`, `NextCopy`, `EndUpdate` | `ajax_send_update`: the structure copy word by word, in any order, then `last_update` |

The copy and NVML's stores race, which C leaves undefined.  The model lets every
aligned word be read at any moment, in any order, and a structure of several
words (`nvmlMemory_t`) tear.  It does not let one word tear: no target of the
driver does.  A query that succeeds stores its words in one step; the copy is
what is split, and a copy that stops between two words sees the same mixtures.

A failing query is a choice: a query in `Flaky` may fail at any time, one the
device cannot answer always does.  `CountClockAccepted` says whether NVML takes
`NVML_CLOCK_COUNT` as a clock domain; the header says it is none, and both
values are checked.

`floor`, `known` and `seen` are history: the readings when a request arrived,
what `init` told a client, the last reply it got.

`Registers` has no pass, no loop and no copy.  Each word of each device is a register
whose value only grows; a client asks, and gets in one step every word that is
shown, each with a value it had since then, and the time (`Ask`, `Reply`).
`ImplementsRegisters` maps `reading` and `lastUpdate` to the registers, `seen` to
the replies, and forgets the copy in progress.

### Lifecycle

One action per call of `main` that can fail or that another thread can observe.
`mg_start` is two steps, the threads exist and then it returns, because handlers
run in between.  A pass is its waits on the event sets, a request one use of
the monitor by a worker.  `Kill` is a signal: no handler is installed, so nothing
registered with `atexit` runs.  `main` cannot reach its `return 0`: the loop is
left only when `mg_start` failed, and then `mg_stop` is given NULL.  The branch
of `ServerDestroy` for a live context is kept because the code has it.
`server_start`'s test that the static pointer is still NULL is always false the
one time it is made, and is left out.

### SocketQueue and Service

Between two steps of a thread the others may do anything.  A critical section is
split only where it touches what the mutex does not protect: `stop_flag`, and
`num_threads`, which `mg_start` increments in two unlocked steps (`LoadCount`,
`StoreCount`).  `sqHead` and `sqTail` are the code's indices with its wrapping
loop, not an ideal queue.  A worker's decrement is two steps as well, and the
assertion behind it a third, because it reads the count again; `lost` is history:
an update of the count was overwritten by another.  Nothing happens after a failed
assertion or after `mg_stop` freed the context under a worker (`Alive`, a guard
of every action through `AppAt`, `MasterAt` and `At`).  The kernel is a backlog; `Serve` is one connection,
whose insides are `HttpConnection`, and the close of its socket.

`Service` has no thread: a `backlog`, the accepted `line`, the set `served`;
`Connect`, `Accept`, `Take` and `Close`.  The refinement maps `line` to the ring
followed by the socket in the master's hands, which is why its capacity is
`QueueSize + 1`, and `served` to the sockets of the workers that will serve them.

### Client

The page's requests are synchronous and a script is never interrupted, so a
request with the function that handles its answer is one step, whatever the
daemon does before and after.  An answer is full, or none (`$.parseJSON` gives
null and `update` says "Interrupted"), or cut short by the daemon's death
(`$.parseJSON` throws).  Where an exception ends the script (while the page
loads) and where only one call of the timer is the difference between
`FirstUpdate...` and `Poll...`.

| model | code |
|---|---|
| `page` | where the top level of the script is |
| `devices`, `series`, `getData`, `drawn` | `devices`, `graphs[key].series[i].data`, `graphs[key].getData`, `graphs[key].graph` |
| `Reached`, `Trimmed`, `Update`, `UpdateInterrupted` | `update`: how far the loop gets before it throws, the cut to `SERIES_MAX`, the rest, and its null branch |
| `AjaxInit`, `AddGraphs`, `Poll` and their failures | `ajaxInit`, the calls of `addGraph` with `setInterval`, `ajaxUpdate` |
| `DaemonStarts`, `DaemonEnds` | the environment; a new daemon may have other devices |

A point keeps the number of its reply for `data.time`: that the replies of a
daemon do not go back is `MonotonicReplies` of `Telemetry`.  `log` is history,
kept for the first `MaxReply` replies; the page goes on polling after that.

### HttpConnection

One worker and the connections it is given, one after the other.  A byte is a
cell `<<i, j>>`, the j-th of the i-th message the client sent, so that what the
parser takes for a request can be compared with what the client meant.  `conn`
holds the counts the code computes with (`requestLen`, `contentLen`,
`consumed`), with its -1 for "no length" and for a failed read, and
`DiscardLen` and `Moved` are what `process_new_connection` makes of them, the
`memmove` from before the buffer included.

| model | code |
|---|---|
| `Send`, `HangUp` | the client; chunks of any size come from `ReadMore` and `ReadPull` |
| `Serve` | a worker is given a socket |
| `ReadMore`, `ReadFails`, `Parse` | `read_request`, `getreq`, `get_request_len`, the checks before `handle_request` |
| `Read`, `ReadPull`, `ReadReturns` | `mg_read`: the buffered part, then `pull` |
| `Reply` | a handler, by what it does to `status_code`, `must_close` and the `Connection` header: mongoose's own (`Served`) and CGI programs, whose header is sent on (`Forwarded`) |
| `Finish` | the end of the loop's body and its condition |

`request_info` points into the buffer.  When the bytes it points at are
overwritten (`Survives`), the model takes the fields for gone.  A first line
that `parse_http_message` refuses leaves no headers, and a version that may be
`1.1` all the same (`Unparsed`).  cudamond runs with keep-alive off; the run has
both values.

### Cgi

Several workers in one process.  A pipe is a sequence of at most `Cap` cells
and, for each end, the set of processes that hold it: a read sees the end of
file, and a write fails, only once nobody holds the other end.  `fork` gives a
child what the server holds at that moment (`Fork`), the pipes of the other
workers included.  Each step that can fail has that alternative: the pipes, the
fork, `fdopen`, `exec`, the body (`StartForward`, `Push`, `Pull`), the program's
headers (`ReadHead`).  A program is how it treats its input (`ProgramType`) and
how much it prints; it may crash at any time.

### Files

`handle_request` from its path on, for several workers that share one file
system.  `fs` gives the file of every path and `disk` the contents of every
file there has been, so that a file that was removed stays as it was for those
who have it open.  A byte is a cell that says who wrote it; a line of a passwords
file is a cell too, a user and the number of his password.

| model | code |
|---|---|
| `Convert`, `Authorize`, `Change`, `Dispatch` | `convert_uri_to_file_name`, `check_authorization`, the branches of `handle_request` in their order; the slash at the end of a URI goes along to `stat`, `fopen` and `remove` (`Asked`, `Slashed`) |
| `Open`, `Send` | `handle_file_request`, `send_file_data`; ranges and etags |
| `Scan` | `scan_directory`, an entry at a time, with what is then printed |
| `PutDir`, `MkDir`, `PutOpen`, `Forward`, `Receive`, `Close` | `put_dir`, `put_file`, `forward_body_data`; what stdio holds back is `pend` |
| `OpenSsi`, `Ssi` | `send_ssi_file` and its includes, a stack of open files |
| `Create`, `Copy`, `CopyFails`, `RemoveOld`, `Rename` | `mg_modify_passwords_file` |
| `Tick`, `Leave`, `Stop` | the clock, a client that leaves, `stop_flag` |

`gap`, `was`, `lost` and `shared` are history: was a file missing because the
editor was between `remove` and `rename`, what did the file hold when its size
was taken, did a write fail that nobody looks at, did another PUT write to the
file.

What is hidden are two sets: `Config.hidden`, the paths that match the patterns,
which `handle_request` goes by, and `Config.hiddenNames`, the bare names that
match them, which `scan_directory` goes by.  `PasswordsHidden` ties the two where
the code does: `**.htpasswd$` matches every passwords file of a directory both
ways.

### The functions

These modules hold no state: an operator for each function, named after it.

| module | functions |
|---|---|
| `Uri` | `url_decode`, `url_encode`, `remove_double_dots_and_double_slashes`, `mg_get_var`, `mg_get_cookie`, the directory redirect, the link of a directory entry |
| `Headers` | `skip_quoted`, the fields of `parse_auth_header`, `parse_date_string` with its own leap-day rule |
| `Requests` | `parse_http_message`, `parse_http_headers`, `get_header` |
| `Options` | the options of `mg_start`, `mg_get_option`, `next_option` (an entry without `=` has no value at all, which is not the empty one), `get_mime_type` |
| `Listing` | `compare_dir_entries`, the links that sort the page |
| `Access` | `match_prefix`, `parse_net`, `check_acl` and `set_acl_option`, `set_throttle` with `mg_write`, `set_ports_option` |
| `Digest` | `mg_md5` over a list of strings: which blocks the transformation is given |
| `CgiEnvironment` | `addenv`, `prepare_cgi_environment`: lengths and positions of the block |
| `Upload` | `mg_upload` |
| `Numbers` | the casts and `%d` of `ajax_send_update` |

A recursive operator there is a loop of the code over a text; the modules are
for TLC only.  `MCTexts` has one variable, the input, picked in one step, and
each property is a reference definition: what the function is for, with the
exceptions the code makes of it written out (they are listed in section 6).

## 3. The runs

| run | question | answer |
|---|---|---|
| `telemetry_safety` | What may a client rely on while queries fail now and then? | Every word of a reply was current during the request (`WithinRequest`), was read from NVML (`PrintsOnlyRead`), is at most a pass ahead of the reply's time (`TimeCoversReply`); nothing goes back (`MonotonicReplies`); all in all, the daemon implements `Registers` (`ImplementsRegisters`), so keys match `init` |
| `telemetry_steady` | And while none fails? | Devices of a reply are at most a pass apart, a memory clock still unread in pass 1 aside (`SkewBound`), `last_update` dates the readings (`LastUpdateDatesReadings`), the last pass reaches a client that polls, so passes and requests end (`CatchesUp`) |
| `lifecycle` | Is the process sound from start to end, whatever fails? | No handler meets a monitor that is not there (`HandlersSeeMonitor`), NVML is called inside its session (`NvmlBracketed`), the event sets waited on are open and the known ones released (`EventSetsKept`), a daemon that cannot serve ends, one that serves goes on until a signal (`RunsWhileServing`, `ServesUntilKilled`) |
| `pool_serving` | Does the pool serve everybody? | It implements `Service` (`ImplementsService`), and each connection is served while a worker is left and the assertion on the count holds (`Served`) |
| `pool_stopping` | Is a socket ever shared or lost, and is `mg_stop` safe? | A served socket has one owner (`OneOwner`), none is lost before the stop (`NoneForgotten`), no worker outlives the context unless an update of the count was lost (`StopIsLast`) |
| `client_page` | What does the page make of a daemon that comes and goes? | A series is the exact window of the last replies that had its key (`SeriesIsWindow`), also when `update` throws half way; only the point of the first update is a placeholder (`OnlyFirstUnmeasured`); a loaded page recovers (`Recovers`) |
| `http_connection` | Does every byte of the stream reach the request it belongs to? | Requests start where messages do, and a handler reads its body and nothing else, until a body is left on the wire or a request refused for its first line is discarded by another's length (`BytesExact`); the `Connection` header of mongoose's own replies tells the truth (`HeaderKept`); a stop waits for one request more (`StopServesOneMore`); a connection ends, keep-alive after a failed read excepted (`ConnectionEnds`) |
| `cgi` | What passes through the pipes, and who is left holding them? | The program's output and the client's body pass whole and in order, and no program answers for half a body (`RelayExact`); a request is answered once, a failed fork excepted, and leaves nothing behind (`Settled`); it ends if the programs are patient (`Finishes`) |
| `files` | What do clients get, store and change while others change the same files? | A GET gets what its header announced, or the truth that nothing changed (`GetIsTrue`), a body acknowledged is stored (`PutStored`), files change only through the PUT users or the editor (`ChangesAuthorized`), guarded and hidden files are kept (`AccessHeld`), every request ends with one status line (`RequestsEnd`), each with the exceptions its comment names |
| `texts` | Do the functions do what they are for? | Paths are clean and links lead back (`PathsHold`), heads, variables, cookies, header fields, dates and digests are read right (`RequestTextsRead`), options mean what they say (`OptionsDecide`), listings, environments, uploads and numbers hold what they were made from (`HandedOnExactly`), each with the exceptions its comment names |
| `stale_utilization`, `stop_returns` | Does the code do what a comment says of it? | No; see section 6 |

Every state machine has a theorem that its variables keep their types; TLC
checks that as well where the types hold bounds of the code (`http_connection`,
`cgi`, `files`).

Bounds, and why they are enough:

- `MaxPass = 3`: the probe and two refreshes.  A reply can then meet the values
  of start-up, of a pass and of the next one, which is the most two threads can
  be apart in one comparison; the theorems have no bound on it.
- Two devices: the smallest number for which "an earlier device" and "a later
  one" differ.  Together the two instances have every feature but power, whose
  code has the shape of the fan's.  One has a reading of three words.
- One client: handlers share nothing, each is a reader of the monitor's state
  and of its own.  Two clients multiply the states and add no behaviour to one
  of them.
- `lifecycle`: two devices, two workers, no other bound; its state is finite.
- The pool: two workers and three connections, a ring of one or two slots
  instead of 20.  The ring is full with as many sockets waiting as it has slots,
  the indices wrap after two, and each connection may come back when closed.
- `client_page`: two keys, fleets of one and two devices (one of them with
  nothing to draw), windows of two points and a history of five replies: a
  device appears, disappears and returns while a window fills and moves on.
- `http_connection`: two connections of two messages each, because what a
  connection inherits from the one before it, and a request from the one before
  it, is what can go wrong.  A buffer of four cells is smaller than one of the
  ten kinds of messages and holds two others at once; `mg_read` asks for one or
  two cells, so it is cut short by the buffer and by the socket.
- `cgi`: pipes, header buffer and chunk of two cells, so each of them fills.  One
  worker has seven requests, the other the one that makes it fork in between:
  what a child inherits needs one other child.
- `files`: chunks of one cell, so every file of two is read and written in two
  steps; one level of SSI includes, with a file that includes itself twice over;
  a clock of two seconds, so a file may be rewritten within and after one.  Of the
  files that exist, two are hidden both ways, one by its path and one by its name.
- `texts`: sizes scaled down together (a block of 4 for MD5's 64, addresses of
  two 2-bit numbers, words of 4 bits), each input set large enough that every
  branch is taken at both sides of its boundary.  Networks have a number less or
  more than they should, entries of lists a value or none.
- Fault switches (`SpawnMayFail`, `MemoryMayFail`, `SpuriousWakeups`,
  `MayStop`) are off only where a run asks a question that a fault changes.
  `pool_stopping` has them all on, with two workers: enough for one to leave
  while the other is being counted, the case in which an update of the count is
  lost (`lost`) or the assertion on it fails (`Aborted`).
- Deadlock is checked except where the system may really come to rest: the pool
  after a stop or when no worker is left, requests that are all over (`cgi`,
  `files`, `http_connection`), and `texts`, which picks one input.  In
  `telemetry_*` the monitor stops at `MaxPass` and clients go on.

Fairness:

- Threads are scheduled: weak fairness of the monitor's, handlers', main's,
  master's, workers' and application's steps.  What each may wait for is
  bounded: the event wait by its 1 ms argument, the sleep by the interval, a
  handler on a slow client by the 30 s socket timeouts mongoose sets.
- A mutex is only weakly fair.  `Served` holds with that: a worker that waits for
  the lock is not needed when another one is taking sockets.
- A handler that may read again and again replies sooner or later: strong
  fairness of `Reply` in `HttpConnection`.
- CGI programs are scheduled like the workers.  They need not be patient and
  need not crash; `Finishes` speaks only of programs that read before they print,
  or print no more than a pipe holds, because the server writes the whole body
  before it reads.
- A page that polls asks for updates again and again, however often it is
  reloaded in between: strong fairness of that one action, used by `CatchesUp`.
- The browser runs the script and its timer; nobody has to start a daemon.
- Nothing obliges a client to connect, to send or to leave, an operator to send a
  signal or an application to call `mg_stop`.

## 4. What is proved

`tlapm` checks all proofs; they hold for every value of the constants, so for
any number of devices, any failures, any number of clients or workers and of
passes.

**Telemetry** (`TelemetryProofs`), from `ConstantsAssumption`: `TypeCorrect`,
`RepliesWithinRequest`, `TimestampsCoverReplies`, `KeysAlwaysMatch`,
`RepliesAreMonotonic`, `TelemetryImplementsRegisters`.  None of these is inductive.  The invariant behind them,
`IInv`, adds:

- `PassInv` and `ReadingInv`: no reading is ahead of the pass under way, and
  `lastUpdate` is that pass or, during an update, the one before it;
- `QuietInv`: no client does anything before the server starts;
- `IdleInv`: a handler that is not in `ajax_send_update` has copied nothing,
  and only devices below its loop index are copied;
- `FloorInv` and `CopyInv`: what was copied lies between the reading when the
  request arrived and the reading now; and a complete copy has exactly the words
  its features print;
- `SeenInv` and `KnownInv`: the values a client has seen are not ahead of the
  readings, nor its time of `lastUpdate`; what it knows of features is what
  `support` holds.

Readings and `lastUpdate` only grow and `support` is fixed once the server
starts.  So a value copied later than the one seen before is not older, which is
`RepliesAreMonotonic`: the new request's floor is above everything seen.

`TelemetryImplementsRegisters` is the refinement.  A step of the monitor is `Prepare`
or `Measure`, because readings only grow and stay within a pass of `lastUpdate`
(`MonitorGrows`); the steps of a copy are stutters; and the last one is `Reply`,
because by then `CopyInv` has every word copied and `WithinRequest` each of them
between the floor and the reading.  `KeysAlwaysMatch` is a consequence for the client:
in `Registers`, `told` and the keys of a reply are both what is `shown`.

Three more need an assumption on the driver, stated in the theorem:

- `RepliesWereRead` (`PrintsOnlyRead`), for an NVML that refuses
  `NVML_CLOCK_COUNT`: one that accepts it has its memory clock announced and
  printed before any pass read it.  `ReadInv`: every word that a feature prints
  has been filled.
- `LastUpdateIsTrue` (`LastUpdateDatesReadings`) and `DevicesAreClose`
  (`SkewBound`), while no query fails (`NoFailures`): none is flaky, and a device
  that answers the three queries the clock bit is set from answers the memory
  clock too.  Both hold for an NVML that takes `NVML_CLOCK_COUNT` and for one
  that does not.  `FreshInv`: what the pass under way has been past dates from
  it, the rest from the pass before; pass 1 is past the memory clock without
  having read it, which `DealtWith` says for both invariants.  `SkewInv` carries
  that to a copy in progress: nothing copied is more than a pass ahead of any
  reading, so nothing copied later can be more than a pass behind it.

**Lifecycle** (`LifecycleProofs`): `NoUseAfterFree`, `NvmlInsideSession`,
`UnservedNeverMonitors`, `OnlySignalsEndIt`, `TypeCorrect`, `EventSetsAreKept`.
That `main` frees the monitor before it stops the server looks like a use after
free.  It is none, but only because of a fact about the whole process, the
invariant `ContextInv`: while there are threads the context is not NULL, so
`active` was never cleared and the loop is not left.  Whoever adds a way to stop
the daemon has to reorder the last lines of `main`.  `EventInv` says where the
event sets are: open as long as a pass may wait on them, gone behind the loop
index of `monitor_destroy`.

**Thread pool** (`SocketQueueProofs`), for any sockets, workers and size of the
ring.  The lemmas on `Slot` say when two indices modulo the size meet; with them

- `SocketsHaveOneOwner` and `SocketsAreKept` follow from `PlaceInv`, each socket is
  in one place, which needs `LockInv` (who is in a critical section),
  `MasterInv`, `TakeInv` and `PutInv` (what a thread in one has done so far);
- `NobodyUsesFreedContext` follows from `CountInv`, `PhaseInv` and `LastInv`: as
  long as no update of `num_threads` was overwritten it is the number of workers
  counted and not yet subtracted, so when it is 0 and `mg_start` is over, nobody
  is left.  It assumes finitely many workers (a cardinality is counted down);
- `PoolImplementsService` is the refinement: the images `Line` and `Taken` of a
  step are a step of `Service` or a stutter.  It assumes `MayStop = FALSE`, as a
  pool that stops does not serve everybody.

**Client** (`ClientProofs`): `TypeCorrect`, with it the bound on every series,
`PlaceholderIsFirst` and `SeriesIsExact`, for any fleets and any number of
replies.  `PageInv` ties the placeholders to what the page has loaded.
`SeriesIsWindow` counts the replies behind each point, which a step cannot be
followed through; `WindowInv` says the same without counting: the points are in
order, each is a reply that had the key, and a reply that had it is missing only
if the series is full and starts after it.  `PushWindow` carries that over
`push` and the cut, `WindowIsNewest` leads back to the definition.

**Connections** (`HttpConnectionProofs`), for any messages, any size of the
buffer, any chunks and both settings of keep-alive, from `ConnectionAssumption`:
`TypeCorrect`, `BytesAreExact`, `StopServesOne`, `HeaderIsKept`.

- `BytesExact` speaks of the first cell of the buffer and of what a handler got.
  Behind it is `TrackInv`: the buffer, followed by the wire, is the client's
  stream from a known cell on, `Run` and `OnWire`.  Between requests that is the
  start of the next message (`Between`).  While one is handled (`Within`) there
  may be a gap between the buffer and the wire: the part of the body that
  `mg_read` pulled past the buffer.  `NextOnWire` says where the wire then starts
  and `PullInv` that there is no gap before the buffered part is used up.
  `process_new_connection` discards `DiscardLen`, and what it leaves is `Between`
  again, if `consumed` reached `contentLen` in either way.  `Kept` is what a first
  line that was refused must have for that too: a `content_len` that is its own.
- `CellInv`: whatever happened, the buffer holds cells that were sent, or the one
  below its start.  It holds the parser to messages the client did send, also once
  the connection has strayed.
- `CountInv`, `LateInv` and `SaidInv` keep the counts within the buffer, the
  requests after a stop to one, and what was said of the connection with what
  the loop will look at.

**CGI** (`CgiProofs`), for any workers, programs, requests and sizes of pipes and
buffers, from `CgiAssumption`: `TypeCorrect`, `RelayIsExact`, `SettledAtEnd`.
Cells are numbered, so `Up`, a sequence that counts on from a number, says all of
it: `InputInv` has the body in what the program has read, then the pipe, then
what the server holds; `OutputInv` the output in what was sent, then the buffer,
then the pipe.  `BodyInv` ties the counts to the body.  That no program answers
for half a body needs `HoldInv`: a program sees the end of its input only when
nobody holds the other end, and the server lets go of it only after the whole
body, or when it has given up (`ReplyInv`).

**Files** (`FilesProofs`), for any workers, requests, options, paths, contents and
edit, from `FilesAssumption`: `TypeCorrect`, `GetsAreTrue`, `PutIsStored`,
`OnlyTheAuthorized`, `AccessIsHeld`.
`Copy` and `Rename` model the editor of a passwords file under `EditAssumption`:
the name of its temporary file is used by nobody else.

- `PlaceInv` says what each place in `handle_request` knows of its job; `FsInv` and
  `OnDisk` that files are on the disk.
- `SentInv`: as long as a file is what it was when it was looked up (`Same`), what
  was sent are its cells from `Seek` on, and what is left plus what was sent is
  what was announced.  A file that was changed must then not become the same
  again.  It does not, because of `PastInv`: a cell of a PUT is in no file, and in
  no file as it was looked up, before that PUT has written it.
- `StoreInv`: what stdio holds back are the last cells received, and what precedes
  them is in the file, unless a write failed (`lost`) or another PUT has the
  file open too.  `SharedInv`: two who write to the same file know it.
- `StackInv`: the SSI files that are open include one another, each a level
  deeper, so their number is bounded.

`OnlyTheAuthorized` (`ChangesAuthorized`) has an invariant of its own, `PutFileInv`:
the PUT passwords file is as it was before the first request, no other path leads
to it, and every request on its way to a change was let in by it.  It rests on
`PutFileAssumption`, which is a condition on how the server is set up and not a
fact of the code: no PUT or DELETE names that file or something under it, it is
not the file that is edited, and it has no second name.  A server whose PUT
passwords file can be reached by a PUT hands out the right to change files with
it; the code does not prevent that setting.

`AccessIsHeld` (`AccessHeld`) rests on two more conditions of the same kind.
`GuardAssumption` says that the file that is edited is the one that guards its
directory: no global passwords file and no rule of `PROTECT_URI` takes its place,
it has one name, and requests that change files neither go through it nor make
directories next to it.  `HiddenAssumption` says that hidden bytes can be told from
others, and that no index is hidden; `PasswordsHidden` is a fact of the code.  Two
invariants follow the two halves:

- `GuardInv`.  `EditKept` says of each stage of the editor what is under the two
  names: the old lines, the new, or nothing between `remove` and `rename`.  So who
  finds no file has met that gap, and who finds one was judged by the old lines or
  by the new.  `Alone` keeps other names and
  open files of PUTs away from it, `Apart` the paths and directories of PUTs.
  `Looks` is about the time between the look-up and `check_authorization`: what
  was a directory in the one is a directory in the other, so both are about the
  same passwords file.  `GuardJob` is then the property, job by job.
- `HiddenInv`.  `HiddenFs` says where hidden bytes may be: in the files that held
  them at first and, while the edited file is hidden, in its temporary.  What
  is opened to be sent is at no hidden path (`HiddenJob`), and what is being
  sent holds no hidden byte (`SendsPlain`), which a file that is written to
  meanwhile needs said again at each step of the others.

Only model-checked:

- liveness (`CatchesUp`, `RunsWhileServing`, `Served`, `Recovers`,
  `ConnectionEnds`, `Finishes`, `RequestsEnd`): beyond the provers used here;
- `MCTexts`: what a recursive function computes for every input needs induction
  over data, which the provers cannot instantiate.

The proofs about `Files` take most of the time: about a quarter of an hour, half of
it for `AccessIsHeld`.

## 5. What is not modelled

- What the page looks like: names, colours, the device list, the time of the last
  update, and the vendored chart library.  The graphs are drawn with its line
  renderer, which takes series of different lengths.
- The static strings (names, serials, versions, host): written once before the
  threads exist, read only after.  `max_clock` is read from NVML and never used.
- A wall clock that is set back: `time()` then goes back and with it the time of
  the replies.  `TimeCoversReply` and `MonotonicReplies` assume it is not.
- `faker.rb`, a stand-in that sends random numbers, and the page's assets.
- Of mongoose: WebSocket, Lua and the Windows branches, which this build does not
  compile; TLS, without a certificate; `mg_download` and `mg_connect`, a client
  cudamond has no use for; the text of a PROPFIND answer, the access
  log, reading options from a file: wording; `#exec` of SSI; the search for a
  CGI interpreter and for `PATH_INFO` (`Files` has the choice of the program);
  the nonce and the timestamp of digest authentication, the MD5 and SHA1
  transformations and base64: functions of bytes that no property here tells
  apart.
- Patterns of `HIDE_FILES` and `PROTECT_URI` that match `/d` and not `/d/`, or the
  reverse: in `Files` a path and the same path with a slash are one path.
- One composition of everything.  The interfaces are: `Serve` of `SocketQueue` is
  a connection of `HttpConnection`; `Reply` there is a request of `Telemetry`,
  `Files` or `Cgi`; an answer of `Client` is a reply of `Telemetry`.

cudamond gives mongoose a port and a document root and no other option.  So
listings, CGI and SSI are on for whatever `www/` holds, keep-alive is off, and
PUT and DELETE are refused for want of a passwords file.  What is off is
modelled with the rest, because it is in the program.

## 6. Where the code and its words differ

These have a run that ends in a counterexample:

1. `update_device_info` never refreshes utilization, which `monitor.h` calls
   current (`stale_utilization`).
2. `mg_stop` may wait for ever: `stop_flag` is set, and `sq_full` broadcast,
   without the mutex (`stop_returns`).  This is out of cudamond's way today: it
   never calls `mg_stop` on a live context (`ServesUntilKilled`).

The rest was met while modelling.  Where a property would be false because of
one of these, its definition names the exception.

In the daemon and the page:

- `get_device_features` asks for clock domain `NVML_CLOCK_COUNT` and passes the
  address one past `dev->clock` (`monitor.c:34`); where NVML refuses it no
  device has `CLOCK_INFO`.
- When the port is taken, `mg_stop(NULL)` crashes and NVML is not shut down
  (`server.c:206`).
- A device whose event types cannot be read loses the only pointer to its event
  set, so NVML keeps it after `monitor_destroy`.
- A failed query leaves its old value under the new `last_update`.
- Numbers of 2^31 and more are printed negative (`server.c:118`).
- When the first update gets no answer the page gives every graph up for good,
  with the message that no GPU supports it (`cudamon.js:143`).  The first point
  of every graph is 0.  A page whose daemon comes back with more devices throws
  on every update, and its graphs stand still under the label "OK".

In the pool:

- A worker that sees the stop after it took a socket leaves the master asleep on
  a full ring (`mongoose.c:4868`).
- A socket taken from the ring, or left in it, when the pool stops is never
  closed.
- A worker that cannot allocate its connection may leave before `mg_start` has
  counted it: `num_threads` is -1, and the assertion of `worker_thread` (4916)
  aborts the daemon.  `Served` excepts that.
- The unlocked increment of `num_threads` (5175) may overlap such a worker's
  decrement.  When it is the increment that is lost, the master takes all threads
  for exited (5033) and `mg_stop` frees the context under a worker; when it is the
  decrement, `mg_stop` never returns.  `StopIsLast` speaks of runs in which neither
  is, and the model has the others too (`lost`).

In connections:

- "Request Too Large" is overwritten by "Client closed connection": an `else` is
  missing (`mongoose.c:4745`, as are the lines that follow).
- With keep-alive, the loop may go on after a read that failed: its condition
  looks at what the last request left in `conn`.  The discarded length is then
  -1, and one assertion away from aborting.
- A request refused for its first line is discarded with the `content_len` of the
  request before it (4827), be it one of the last connection.  With keep-alive on,
  `GET / 1.1`, refused for want of `HTTP/`, does not end the connection, as its
  version is `1.1`: bytes of the next request are discarded with it, though the
  comment says "all buffered data for this request".  `BytesExact` follows a stream
  up to such a request (`strayed`).
- A throttled connection may send twice its limit around the turn of a second
  (1546).

In CGI:

- `fclose(in)` does not give the child its end of file (3232): the child itself
  holds the other end of its pipe, and so do children forked meanwhile.
- A fork that fails is answered twice with a 500.
- The `Connection` header of a program is sent on, and broken either way:
  `keep-alive` sets `must_close`, and `close` does not (3267).  `HeaderKept` is
  about mongoose's own headers.

In files:

- A range past the end of a file announces more than is sent (2774).
- A range with a first byte and no last, `bytes=1-`, is not acted upon although a
  comment says so and line 2774 has a case for it: the condition above it wants
  `r2 > 0` (2772), and `sscanf` left `r2` at 0.  The reply is a 200 that announces
  the whole file, and is sent from the first byte of the range on.  `GetIsTrue`
  excepts such ranges.
- The reply to a PUT precedes `fclose`, and the write of the buffered part of the
  body is not looked at (3373).  A PUT with `Content-Range` truncates the file
  first (3360).  Two that make the same directory race (3333).
- Between `remove` and `rename` of `mg_modify_passwords_file` its directory is not
  guarded (2475).
- `must_hide_file` names the passwords file and not its temporary, `.htpasswd.tmp`
  (2568); and what `substitute_index_file` puts in the place of a directory is not
  held against the hidden patterns (4241).  `HiddenKept` and `HiddenAssumption` name
  the two.
- `HIDE_FILES` is a prefix pattern that is matched with the bare name of a file in
  a listing (2591) and with its whole path in a request (4233): a file may be
  listed and answered 404, or served and not listed.  `UserManual.md` (177-180) has
  it hidden in both.  `HiddenKept` says of each place what that place does.
- An etag is a second and a size: a file rewritten within the second with as many
  bytes keeps it.

In texts and options:

- The redirect of a directory looks for the slash at the length the URI had before
  it was cleaned, so `/d//` is redirected to itself (4235).
- Links of a listing to names with a backslash, or with two dots in front, lead
  elsewhere.
- Dates in January and February of leap years are a day late (1843).
- A cookie is found by the end of its name (1699).
- A network with bits outside its mask never matches (4425).
- An entry of a throttle list without `=` has a NULL value, which `set_throttle`
  hands to `sscanf` (3869): the first request crashes the server.
  `UserManual.md` (106-108) has such an entry in its example.  `ThrottleHolds`
  says so.
- `parse_net` takes four numbers and no fewer (3848), so with the manual's
  `-0.0.0.0/0,+192.168/16` (134-136) `set_acl_option` fails and the server does not
  start, which `AclDecides` says.  Only that keeps the -1 of `check_acl` from being
  taken for a yes (4964).  As the key of a throttle, such a network is taken for the
  start of a URI (3879).
- A port above 65535 is truncated (4313).
- An entry of `extra_mime_types` longer than a path is compared with the memory in
  front of the path (1960), and one without an extension fits every path.
- What follows the first file of an upload is written to that file (4143).

## 7. Plan

Done: the daemon, the page and the embedded server, as above.

Left: a composition of `Registers`, restarts of the daemon and the page, from the
sensor to the point of a graph.  `Client` has the daemon's answers as an input, and
`Registers` says what they may be.
