# Health_monitoring_system: a TLA+ verification project

The repository holds a monitoring system for a set of Raspberry-Pi-like machines, in two
generations. `V2.0/` is the one in use: one **master** (`V2.0/server/server.c`) keeps a registry of
**clients** (`V2.0/client/client.c`), probes them every few seconds, collects their log files every
five minutes and stores the warnings they send. The top-level directories (`pool/`, `rwt/`, `hash/`,
`tool/`, `Server.cpp`, `User.cpp`) are the first version, a C++ thread pool with a table of users.

This directory models the parts whose correctness depends on the order in which threads, processes
and machines act. Line numbers below are those of `src/`.

## Components

| Component | State | Operations | Interacts with | Hard because |
|---|---|---|---|---|
| Client registry (`server.c`, `server/common/common.c`) | `INS` linked lists of `clientInfo`, `len` per list, `myRwlock` | `initINSclient`, `doLogin`/`findCinfo`, `serverAccept`/`addCinfo`, removal in `heartBeatNoBlockSelect`, the walk of `work` | everything in the master | main thread, one acceptor thread per login, heartbeat, `INS` workers; only acceptors and heartbeat exclude each other; nodes are freed while others stand on them |
| Heartbeat sockets (`server.c:89-163`, `common.c:77-99`) | `sId` per node, the `fd_set`, open descriptors | start connections, `select`, verdicts, close | clients' heartbeat ports; other threads share the descriptor numbers | three outcomes of `select`; `sId` survives a failed connection; sockets leak when `select` returns 0 |
| Client self-check (`client.c:10-15, 272-283, 347-396`) | shared segment `flag`, `sm_time`, mutex, condition | listener, checker, caller | the master's probes and its login port | three processes; `flag` unprotected; signal before assignment; mutex held while calling |
| File collection (`server.c:204-254`, `client.c:71-159`) | two byte streams per conversation | request, answer, file, end marker | worker and client | two loops that must agree on their position; `recv` and `send` checked for their sign only; no timeouts; SIGPIPE |
| Measuring and rotation (`client.c:195-287`) | buffer, log file, archive | append, size test, `tar`, `remove` | file collection reads the same file | two processes on one file; texts without a NUL at their end |
| Login sessions (`server.c:405-458`) | epoll set, descriptors | ADD, MOD, DEL | registry | a descriptor is never closed, and the log needs one for every line |
| Warnings (`client.c:164-182`, `server.c:276-333`, `mysqlHelp.c`) | UDP socket, database connection | send, receive, insert | MySQL | loss and truncation |
| Log file and configuration (`common.c:174-220`) | file, lock, stdio buffer | `write_Pi_log`, `get_conf_value` | every process | the result of `fopen` is used unseen |
| V1 thread pool (`pool/`) | hash of work, mutex, condition, shutdown | `add_work`, worker, `del` | V1 table | condition variables, shutdown, an empty bucket |
| V1 readers/writers and user table (`rwt/`, `hash/`) | five mutexes, two counters, table | `Reader`, `Writer`, `clock_get` | V1 pool | mutexes unlocked by other threads; a walk outside the lock |

What makes each correct:

* registry: well-formed lists, no node lost or freed while listed, no walk on dead memory, one node
  per address, a login eventually registered, verdicts only on nodes the round has visited before;
* heartbeat sockets: a verdict follows the right client's answer, only own descriptors are closed,
  all are closed, a silent client is removed;
* self-check: a master that went quiet is called, one that did not is not, no wake-up is lost;
* file collection: what is stored under a name is what the client has under it; a conversation ends;
* rotation: no measured line is lost between buffer, file and archive;
* sessions: each login is answered, and at most once, as long as descriptors last;
* V1: exclusion, no deadlock, each work executed once, a table that survives the walk over it.

`PROJECT.json` lists the hazards at their lines with the properties that watch them.

## Modules

| Module | Content |
|---|---|
| `Membership` | abstract specification of the registry: sessions in queues, atomic joins, rounds of verdicts |
| `MasterRegistry` | the registry as the threads execute it |
| `MasterRegistryProofs` | the inductive invariant of `MasterRegistry`, its theorems and the refinement of `Membership` (proofs) |
| `HeartbeatRound` | the descriptor level of one heartbeat, over many rounds |
| `HeartbeatRoundProofs` | its inductive invariant and theorems (proofs) |
| `ClientMonitor` | the client's listener, checker and caller |
| `ClientMonitorProofs` | its inductive invariant and theorems (proofs) |
| `ChatProtocol` | one conversation after another between a worker and a client's listener |
| `ChatProtocolProofs` | the invariants of its turns and of its texts, and theorems (proofs) |
| `LoginSessions` | the master's epoll loop and the descriptors of logins |
| `LoginSessionsProofs` | its inductive invariant and theorem (proofs) |
| `LogRotation` | a measuring process of the client, its log, and the listener that reads it |
| `LogRotationProofs` | its inductive invariant and theorems (proofs) |
| `RWLock` | abstract specification of the first version's lock: readers, writers, announced writers |
| `ReadersWriters` | `Reader` and `Writer` with their five mutexes |
| `ReadersWritersProofs` | its inductive invariant and the refinement of `RWLock` (proofs) |
| `UserTable` | the first version's table, its main loop and `clock_get`, under `RWLock` |
| `UserTableProofs` | its inductive invariant and theorems (proofs) |
| `ThreadPool` | the first version's pool |
| `MCMasterRegistry`, `MCHeartbeatRound` | small instances for TLC |

Operators whose comment begins with "Mutant" are wrong variants of the definition that follows
them. Nothing refers to them; replacing a definition by its variant shows that a property notices.

### MasterRegistry

A pointer is a list (its sentinel), a heap cell or `NULL`; `next`, `len` and `addr` are the fields
of the structs, `heap` the cells in use. `main`, `acceptor[c]`, `hb` and `worker[q]` are the program
counters and local pointers of the four kinds of threads. A thread is cut at every read of
`p->next` outside the lock and at every wait:

* `LoginAccept` .. `LoginSpawn` / `LoginRefused` is `doLogin` with the three reads of `p->next` in
  `findCinfo` (`common.c:121, 122, 128`) as `FindTest`, `FindDiffers`/`LoginRefused`, `FindAdvance`;
* `AcceptLock` .. `AcceptUnlock` is `serverAccept` with `judgeINS` and `addCinfo`;
* `HbLock` .. `HbUnlock` is one round of `heartBeatNoBlockSelect`; here each node may get either
  verdict, `HeartbeatRound` says which;
* `WorkWake` .. `WorkAdvance` is `work`; the conversation lasts as long as it likes.

Following `NULL` is a crash; following a freed cell may be one (`FindFault`, `WorkFault`) and may
also go on with the old `next`, which `free` leaves in place, while the address is overwritten by
the allocator. `malloc` may return a freed cell at once, with its old `next`.

`s->rwlock` of the registry is never write-locked and the write lock of a list is only taken by
`addCinfo` under `myRwlock`; neither keeps anybody out of a walk, so they are not in the model.
`list` (what each list should hold), `refused`, `shaken` (the lists whose worker lost its footing),
`main.before` and `hb.due` are history. `HbProbe` only says that pass 1 visits a node: one to which
no connection can be started (`server.c:110-115`) is visited and judged like the others, and what
that does to its verdict is in `HeartbeatRound`. `VerdictOnVisited` and `Membership`'s rounds are about
visits in this sense.

### HeartbeatRound

The registered nodes are one sequence in the order of the passes (nobody joins during a round:
`MasterRegistry`'s `VerdictOnVisited`). `sock` says what is behind each descriptor, `others` which
descriptors other threads hold, `silent` which clients do not answer. A connection can be started,
fail at once, or find no descriptor; `select` reports (`SelectReports`), fails on a closed descriptor
and leaves the set as it is (`SelectFails`), or returns 0 (`SelectTimesOut`). The verdict is
`getsockopt`'s error; when the descriptor is not the connection anymore, the error is what the
operating system says of the thing that is there. A new node's `sId` is uninitialised: any number.

Every step of a round is logged, and the log is opened anew for each line. With no descriptor left
for it `fopen` returns `NULL`, which `write_Pi_log` follows (`common.c:205, 210`): `MasterFalls` ends
the process when the last descriptor is taken, by the heartbeat or by another thread. The round goes
on only if another thread gives one back in time (`CanLog`, `CanLogBeside`).

### ClientMonitor

One action per statement that touches the shared segment, `flag++` being two. The sleeps and the
script that runs before each check are not modelled. `ListenAccept` may return at any time.

### ChatProtocol

`master` and `client` are the loops of `chatToclient` with `saveToFile`, and of `listenServer` with
`sendFile`; an action is one `send` or `recv` and the local statements up to the next. `wire` is the
TCP connection: what is on its way in each direction, which ends are open, and whether a side has
been reset. Sending to a closed end succeeds once and brings a reset; after it one call may fail,
and the next `send` raises SIGPIPE, which ends the process (`MasterKilled`, `ClientKilled`). `recv`
of 0 or -1 leaves the message as it was, which for the master is its own request and for the client
an old answer or command; neither counts as an OK or a name.

Both processes may end at any time, and the client's may be started again. The listener's process
also ends, after it has received "give me" and before it sends anything, when there is an archive of
the log asked for (`ClientBackup`): `tarFile` writes an
uncompressed archive of `log/X.log`, `tarXZVF` unpacks it with `-z` and opens `log/backup/log/X`, so
the `FILE*` is `NULL`. The blocks of a log, its presence and its archives are free choices. `char` is
signed (`CharSigned`), as on x86; with an unsigned one `NeverBothWait` fails in the first conversation.
`read` is history: the texts the client read of a log, and what the last `fread` with text left in
`line`, which `sendFile` sends once more at the end of the file (`Transmission`).

A block of a log that holds no NUL is sent with whatever stands behind `line` up to one
(`client.c:78`). `Block(n)` is all that is sent for one `fread`, and no end marker is in it: in the
build for the Raspberry Pi that the repository keeps, nothing follows the block (see `LogRotation`).

Not in the model: messages that TCP splits, and machines that vanish without closing the connection,
which a `recv` without timeout never notices.

### LoginSessions

The main thread of the master: `EpollWait` takes any full batch of the ready events, in any order,
and the events are handled one by one. `LoginAccepted`, `LoginRefused` and `LoginFails` are the
three returns of `doLogin` with what `main` does with them; who is registered is
`MasterRegistry`'s business, so any login may be refused here. `HandleIn` reads and asks for
`EPOLLOUT`, `HandleOut` greets and takes the connection out of the set. No action ever gives a
descriptor back, as in the code: `fds` only grows. Clients connect, and send something or close
(`call_master` closes at once).

`MaxFd` counts the descriptors that are neither standard ones, sockets of `main` nor `epfd`; the other
threads hold between none and `Others` of them at any moment. A login and its log line need one each.
When there is none for the log, of the login or of the failing `accept`, `write_Pi_log` follows the
`NULL` of `fopen` (`server.c:341, 347`, `common.c:205, 210`) and the master dies (`LoginCrashes`; any
other thread may be the one that finds none: `ThreadCrashes`). So the listening socket is reported
again after a failing `accept` (`LoginFails`) only if another thread gave a descriptor back in
between. Nothing in the repository starts the master again, and `up` stays false.

### LogRotation

`pc` is the place of the measuring process in the loop of `work`; `buff`, `log` and `archive` are
what they are called, and `reader` is the listener inside `sendFile`. A cell of text stands for a
stretch of characters and carries the number of the line it is from, 0 being a NUL: that is enough
to say what `strcat`, a `fwrite` of all 4096 characters and a `send` of `strlen(line)` do with text
and with what older texts left behind it.

A script may print any amount (`OutputCells`). `fread` takes at most the 400 characters of `temp` and
if it takes them all leaves no NUL there, so `strcat` goes on with what stands behind `temp` up to a
NUL (`client.c:234, 243-244`; `TempCells`, `Behind`, `Appended`). A line of the model is what `strcat`
appends: the output cut at 400 characters and then that text. In the ARM program kept in
`V2.0/client` it is `commond`, with fewer than 200 characters, as the recorded log
`V2.0/server/file/192.168.1.44/Users.sh.log` shows from its first line on. `RoomAssumption` is what
the buffer then needs: five times 400 + 199 characters are less than 4096.

`strlen` of a block that has no NUL reads on behind `line` (`client.c:78`). In that ARM program `n`
is directly behind, 1024 at such a moment, whose first byte is a NUL, so the block alone is sent; in
another build text may follow. `Beyond` has both: `reader.strays` are the places in `reader.sent` at
which such text went out. Lines are empty, shorter or as long as a block, or longer. `Remove` leaves
an open file to the reader. `TarFails` is a failing `tar`, whose result nobody looks at;
`StartsAgain` ends the client at any point and starts it again with an empty buffer. `line` (the
length of each), `held`, `lost`, `reader.sent`, the text sent so far without what came from beyond a
block, and `reader.strays` are history.

### RWLock, ReadersWriters, UserTable and ThreadPool

`ReadersWriters` has an action per mutex operation of `rwt.cpp:25-80`. The mutexes are of the
default kind, and `RWmutex` and `rwt` are unlocked by other threads than the ones that locked them;
so a mutex is only held or free. `clock_get` calls both `Reader` and `Writer` and is in both sets.
It is shown to implement `RWLock`, and `UserTable` uses `RWLock` in its place.

`UserTable` has `main` (`Malloc` .. `MainLeaves`, with the two assignments of `add` apart) and
`clock_get` (`Enter` .. `ReaderLeaves`), which reads `tail` and `next` outside the lock and goes on
from the `next` of a node it has just had freed. `Matches` compares ports only: `del` compares two
results of `inet_ntoa`, which are the same static buffer. Buckets are a function of the address.
The descriptors `main` never closes are counted in `fds`; once they are gone every
probe fails and `AcceptFails` loses a node at each turn of `main`. The nodes of a list are the least
set closed under `next` that holds its `tail` (`Reachable`), which needs no recursion.

`ThreadPool` is the pool with the workers' test and wait apart. Its first work ends the process
(finding 2), so `UserTable` describes the table until a worker gets to run: its safety properties
hold of every such stretch, and its liveness property says what `clock_get` does on its own, with
the pool left aside.

## Runs

| Run | Shows |
|---|---|
| `registry_safety` | two lists, three configured clients, four cells, two logins (of registered addresses, or again after removal), one worker: `ListsSound`, `NodesAccounted`, `LockedCursorsLive`, `VerdictOnVisited`, `RefusedIsRegistered`, `ScanMissesOnlyBehindDropped`, `SweepSoundUntilDrop`, and refinement of `Membership` |
| `registry_liveness` | under fairness: logins are registered, scans and rounds end |
| `heartbeat_safety` | two clients, three descriptors, another thread that may want one, the log needing one at every step: while every connection could be started, verdicts are truthful, descriptors are returned unless the master dies or hears nobody, and the heartbeat closes only its own |
| `heartbeat_liveness` | the same descriptors: a silent client is removed while rounds hear from anybody |
| `chat` | four logs of up to two blocks: the two loops stay in step, never both wait, what is saved is the beginning of what was read from that log, and all of it if both processes live; worker and listener return |
| `chat_survives` (violation) | a client that ends in a conversation ends the master |
| `monitor` | no lost wake-up, a login per alarm, alarms sound but for the race on `flag`, a quiet master is called, the checks resume |
| `sessions` | four logins, five descriptors of which other threads may want two, batches of up to two: no event of a batch is out of date when it is handled, nobody is greeted twice, whoever waits is accepted or refused while enough are left, and who was accepted is greeted unless the master dies |
| `rotation` | six lines, two to a flush, two flushes to a log, one start in between: no line is lost or kept twice except where named, and the reader sends each line of what it has read whole and in order, with what stands behind `temp` and with or without text behind `line` |
| `readers_writers` | three threads that read, two that write, one of them both: `IndInv` (who holds each mutex), refinement of `RWLock`, no deadlock, writers always get in, readers whenever writers let up |
| `user_table` | two machines in one bucket, two ports, three nodes, three descriptors: the lists stay lists, the walk stays on them, the removed user is the probed one or one of the same port, gone users leave |
| `pool_works` (violation) | the first work is never run; the worker that takes it follows NULL |

Bounds. Two lists make "shortest list", "next list" and "last list" different things. Four cells
with three configured clients let one node be free, be handed out again, and both logins be in
flight after a removal; two logins are the smallest number that can overlap, and a third only adds
another acceptor that waits for the same lock. Cells are interchangeable (symmetry in the safety
runs). `Limit`, `Tries` and `MaxTime` scale the constants 9, 10 and the unbounded doubling of the
client down: three checks are enough to put a reset before, inside and after an increment, and a
doubled round shows that calls go on. In `heartbeat_liveness` states after a connection that could
not be started are not visited (`Untainted`): the property only speaks of behaviours without one. So
do `SocketsReturned`, `VerdictTruthful` and `ClosesItsOwn`, and `heartbeat_safety` goes on from the
states after such a connection only while there is room for another one (`FewLeaks`), and
`TypesCorrect` proves `TypeOK` of all of them. Four logs are a first, two middle and a last turn;
two blocks make the text before and at the end of a file differ, and every turn is open to every
fault. `LogRotation`'s buffer has four blocks, so that text ends inside a block, at its edge, and
blocks of old text only follow; outputs are none, shorter than `temp`, just as long (no NUL left)
and longer (cut); three flushes make a log that is removed and the one after it. In `LoginSessions`
there is enough for two logins whatever the other threads hold, the third may crash the master or
find that `accept` fails, the fourth leaves too few for the other threads, and a batch holds an
event before and after another. In `HeartbeatRound` three free descriptors are two connections at a
time and one for the log. Three users in one bucket give `del` a first, a middle and a last node.
`ReadersWriters` has a second reader to share with and a third to queue, and two writers. Deadlock
is not checked where the system may stop for good: a measuring process at its bound of lines, a
master nobody calls, and the pool.

Fairness. Threads and processes run on: weak fairness of each loop. Nothing forces a login, a probe,
an answer, the end of a conversation (`MasterRegistry`), a spurious wake-up, a new conversation or
the start of an ended process; a reset that has been sent arrives. Strong fairness is assumed where
threads compete for a lock: acceptors for `myRwlock`, which the heartbeat leaves free during the two
seconds of its sleep (`server.c:98`), checker and caller for `sm_mutex`, the threads of the first
version for its mutexes, and `clock_get` for `RWLock` (which `readers_writers` supports). epoll
reports ready connections in turn, so in `LoginSessions` each of them is in a batch in the end. Nothing
makes a thread give a descriptor back in time, and nothing makes the master crash when it may.

## Findings

1. A client that ends in a conversation may end the master by SIGPIPE (`chat_survives`, `common.c:224`);
   a master that ends may in the same way end its clients.
2. A work handed to the pool is counted but never linked, and the worker that takes it follows NULL
   (`pool_works`, `pool.cpp:50`).

Other places where the code does not keep what a reader of it expects are pinned by properties that
say how far it does, and hold. The stronger statement is defined in its module under "What a reader
of the sources expects and the code does not keep"; checking it gives a short counterexample.

| The code | What holds | What does not |
|---|---|---|
| overlapping logins of one address are both registered (`server.c:348`) | `RefusedIsRegistered` | `OneNodePerAddress` |
| a worker's cursor is freed under it (`server.c:269`) | `SweepSoundUntilDrop`: only by removal of the node it stands on; and it goes on to `NULL` only if the last node is removed while it is about to go there | `WorkerCursorLive` |
| a client that could not be asked is deleted as timed out (`server.c:133`) | `VerdictTruthful`: only after such a round | `TimeoutMeansAsked` |
| if nobody answers nobody is removed, and sockets leak (`server.c:127`; the recorded `V2.0/server/log/Master.log` has 1410 lines "ret = 0" and 2 timeouts) | `SilentRemovedWhileHeard` | `SilentRemoved` |
| the check counter is not atomic (`client.c:273`) | `AlarmsSoundButForRace` | `AlarmMeansSilence` |
| a scan steps over the node behind one the heartbeat unlinks (`common.c:121-128`) | `ScanMissesOnlyBehindDropped` | |
| `del` compares addresses in one static buffer (`hash.cpp:47, 59`) | `RemovesProbed`: only among equal ports | |
| login descriptors are never given back (`server.c:351, 455`), and the master dies when there is none for its log (`common.c:205, 210`) | `EventsCurrent`, `LoginAnswered`: while they last | |
| a long output is cut at 400 characters and followed by what stands behind it (`client.c:243-244`) | `TypeOK` of `LogRotation`: the buffer holds it; `SentWhole` | |
| text from beyond a block may be sent (`client.c:78`) | `SentWhole`: no line up to the size of a block is torn by it twice | |

## Proofs

For every number of lists, cells, addresses, logins and workers (assumptions: at least one list,
addresses configured as an interval, cells, lists, `NULL` and the lock's owners all different):

* `RegistryInvariant`: `Spec => []IndInv`. The safety properties are not inductive by themselves.
  That a walk stays on its list needs that only the lock's owner changes lists (`LockOwned`); that a
  verdict falls on a node visited before needs to know exactly which nodes are due at each position
  of both passes (`DueExact`); both need that no cell is listed twice and that pending, held and
  listed cells differ (`ListsSound`, `NodesAccounted`). `IndInv` is their conjunction with `TypeOK`
  and the shape of each thread's locals (`InHandSound`). What appending to a threaded list and
  unlinking from it do is proved once (`LinkSound`, `UnlinkSound`), then there is a lemma per
  action, combined in `StepIndInv`.
* From it: `TypesCorrect`, `ListsStaySound`, `NodesStayAccounted`, `LockedWalksSafe`,
  `VerdictsOnlyOnVisited`, `LoginsJoinShortest`.
* `RegistryImplementsMembership`, the refinement: `list` stands for the queues and the two passes for
  the rounds. `UnseenStep` says what makes a step invisible to `Membership`; only configuring, linking,
  the start of the judging pass, the two verdicts and its end are steps there, one lemma each.
* `SweepsSound`: a worker stands at a position of its list, and before its end once it has found a
  next (`SweepInv`, inductive with `IndInv`), until the heartbeat drops the node it stands on, or drops
  the last one while the worker has found it and is about to go on to it (`Unsettles`). Every other
  drop from the same list at most moves the position by one (`DropLeavesFooting`).
* `RefusalsTruthful` and `MissesOnlyBehindDropped` are about `findCinfo`, which takes no lock. What a
  scan can still reach would be defined by recursion, and every fact about it would need an
  induction; a set of nodes closed under `next` that holds the cursor (`Closed`) does the same work.
  `ScanApart`: some such set holds everything registered and nothing that waits to be linked, so an
  address the scan finds is or was registered. `AheadOnly`: a node still behind the one it was behind
  when the scan began lies in every closed set around the cursor, so the scan does not step over it.
* `HeartbeatRoundProofs`, for every number of clients and descriptors: `RoundInvariant`, `TypesCorrect`,
  `VerdictsTruthful`, `ClosesOnlyItsOwn`, `SocketsStayReturned`. The last three speak of a heartbeat that
  could start every connection, and so does `IndInv`: each node that awaits its verdict remembers the
  number of its own connection (`AskedOwned`), the `fd_set` is exactly these numbers until `select`
  (`SetExact`), afterwards it and the state of the connection say what `select` saw (`AnswersKnown`),
  and if every round heard somebody no connection is without such a node (`NoneLeft`).
* `ClientMonitorProofs`, for every limit and number of tries: `TypesCorrect`, `MutexStaysOwned`,
  `AlarmsAreHeard` (no lost wake-up: nobody falls asleep between signal and assignment, because the
  checker holds the mutex), `LoginsAnswerAlarms`, and `AlarmsEarlyOnlyByRace`: unless a reset fell into
  an increment, `flag` exceeds the checks missed by at most the 1 of the listener (`FlagCounts`).
* `ChatProtocolProofs`, for any number of logs and blocks. `TurnInv` says which end of the connection
  is open at which places, what can be on its way in each direction at them, and, while neither
  process has ended, that the pair of loops is in one of the phases `Asking`, `Answering`, `Giving` and
  `Saving`; from it `TypesCorrect`, `LoopsStayInStep` and `SomebodySpeaks`. `TextInv` adds that what is
  saved of a log, followed by what is coming of it, is a beginning of what was sent (`InOrder`), all of
  it once both are through (`AllThere`); from it `SavedStaysInOrder` and `SavedStaysWhole`. The last
  three theorems and `TextsInvariant` have the hypothesis `CharSigned`, as on x86; where `char` is
  unsigned the end marker is not recognised and they are false.
* `LoginSessionsProofs`, for any finite set of connections, any `MaxFd` and batch size:
  `SessionsInvariant` and `EventsStayCurrent` (the listening socket is not one of the connections:
  `ListenerAssumption`). A batch names each connection once and handling one event leaves the
  readiness of the others alone; that the listener's event may stand for several waiting connections
  is why the invariant also needs the queue of `accept` (`Waiting`, `Watched`).
* `LogRotationProofs`, for any sizes, outputs, texts behind `temp` and `line`, and starts:
  `RotationInvariant`, `BufferNeverOverflows`, `NoLineLost` and `LinesSentWhole`. `RoomAssumption`
  is that as many times a full `temp` and the longest text behind it as go into one flush are
  shorter than the buffer; nothing is assumed of what scripts print. Then `strcat` stays within it
  (`Room`), and the position of the process decides what log and buffer hold (`Places`).
  `LinesSentWhole` is about the other process, which reads blocks of the log and sends of each block
  what is before its first NUL. Its invariant `SentInv` follows the text from the buffer to the
  connection: each line is whole in the text of the buffer or of the flush it went into, older text
  in front of it, and what stands behind the NUL is older too (`Holds`); no flush of a file holds
  anything as new as a line of a later one (`FileSound`); what was read of a flush was sent in one
  piece, and before it only text older than its lines (`Copied`). `Got` says how much of each flush
  that is, because blocks divide buffers and so a block lies in one flush (`BlockPlace`). The block
  with the end of the text is sent up to it, and the later blocks of that flush, which hold only
  what older text left, send text older than the lines of every flush behind it. Text from beyond a
  block is sent only behind a full one, so two such places are a block or more apart (`Strayed`,
  `BlockCellsOf`).
* `ReadersWritersProofs`, for any finite sets of threads, overlapping or not: `LockInvariant`,
  `TypesCorrect` and `MutexesImplementRWLock`, the refinement. `IndInv` says of each mutex at which
  places it is held: by one thread (`mutex1` to `mutex3`), by one reader or all writers
  (`RWmutex`), by one writer or all readers (`rwt`). That the last to leave really is the last needs
  the counters to be exact, hence the cardinalities (`CountsExact`), from which only
  `ZeroMeansNone` is used for the mutexes. `PhaseMoves` and `PhaseSets` carry a thread's move over to
  `RWLock`; only seven of the moves are steps there, and each has its case in `ReaderRefines` or
  `WriterRefines`.

* `UserTableProofs`, for any addresses, ports, buckets, nodes and descriptors: `TableInvariant`,
  `TablesStaySound`, `WalksStaySound` and `RemovalsProbed`. Facts about the nodes of a list would need
  an induction along it if they were defined by recursion; as the least closed set, a bound on
  them is a closed set shown (`ReachLeast`). That a list never comes back to a node is said of
  each node (`IsList`: it is not reachable from its own `next`), and that of two nodes of a list one
  is behind the other is `ReachLinear`. Linking in front and unlinking each have their lemma about
  `Reachable`. `InHand` says that the node `main` builds is in no list, though it may already point
  into one; `Walks` that `clock_get` stands on a listed node until it has removed it, that
  what it goes on to from a freed node is listed again or `NULL`, and that `del` has a listed node before
  its cursor and the one it looks for behind it. Only what the threads hold of the lock
  (`LockHeld`) keeps `main` from linking between them. In `RemovalsProbed` the comparison of ports
  alone is what makes a second user of the same port possible.

Only model-checked: liveness, for which TLAPS has no ENABLED. Every invariant and every action
property of a run, and both refinements, are stated by a theorem. `JoinsShortest` and `MutexOwned`
are proved, and no run checks them.

## Not modelled, and the plan

Left out of the modelled parts: failing `pthread_create`, `fork` and allocation (a failing `accept`
is in `LoginSessions` and `UserTable`); `deleteCinfo`, and `alldel` on the user table, which nothing
calls; `goodby` and `del` at the end of a `main` that never ends (`del` is in `ThreadPool` all the
same); descriptors of 1024 and more; the texts of logs. Not modelled at all:

* the warning path: `sendWarningInfo` sends a datagram and forgets it, `listenWarnigInfo` inserts
  one after the other; what can go wrong lies in UDP and in the MySQL client;
* `write_Pi_log` and the two configuration readers: straight-line code around formatted output and
  a line reader (what a missing descriptor does to `write_Pi_log` is in `HeartbeatRound` and
  `LoginSessions`);
* the scratch programs in `V2.0/server/test`, the copies `2.server.c`, `client/server.c` and `*.old`,
  recorded logs and binaries, none of which is part of a build. They are 675 of the lines of C and
  C++ outside tests.

Planned: the sweep of `work` over conversations: a composition of `MasterRegistry`'s worker and
`ChatProtocol`.
