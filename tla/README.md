# A verification project for ecet4640-lab5

The repository is a small multi-threaded TCP server in C. Clients log in with a user ID, register, and ask
for random ages and grade averages. The server keeps one record per user in memory and in a text file, and
a lockfile lets a later `stop` command find it. This directory holds TLA+ modules translated from
`src/src/server` (and its client, `src/example/client.c`), TLC configurations for small instances, and
theorems that TLAPS checks for all instances.

## 1. Inventory

| Component (source) | State | Operations | Interacts with | What makes it correct |
|---|---|---|---|---|
| Accept loop (`Server.c` `StartServer`, `NextAvailableConnection`) | `connections[]`: status, socket, address, state, user per slot | find a CLOSED slot, `accept` into it, mark it ACTIVE, `pthread_create` | connection threads, through the slot | a slot has one owner; no descriptor is lost when a slot is reused; closing slots come back |
| Connection threads (`Connection.c` `StartConnectionThread`) | their slot; a `User` record; two buffers | welcome, identify, claim the user, command loop, clean up | user records, mutex, dirty flag, clients | sessions are logged in, the connected flag says who is there, commands are what was typed, replies fit |
| Update thread (`StartUpdateThread`, `File.c` `UpdateRegisteredFileFromUsersMap`) | dirty flag, loop index, open FILE | once a second: test the flag, lock, write all records | user records, registered file | no change is forgotten, the file is a consistent snapshot, every change reaches it |
| Registered file (`File.c`) | a text without line ends, overwritten in place | read at start, created when absent, written by the update thread, flushed by `exit` | processes, one after the other or at once | what was saved is what a restart loads |
| User records (`Data.h`, `Build.c`) | connected, registered, age, gpa, ip | created empty, filled from the file at start | every thread | registration is for good |
| Process control (`main.c`, `Process.c`) | signal handlers, pid | run, headless, stop, SIGINT/SIGTERM handler | lockfile, port, registered file | stop finds and ends the server; one process at a time has the data |
| Lockfile (`File.c` `CreateLockfile`, `DeleteLockfile`) | `/tmp/lab5.lock` | test, create (open, then write and close), remove | every process | it names the running server |
| Hash map (`map.c`) | buckets with chains | set, get, delete | ids to records, settings | it is a map; indices in range |
| Settings (`File.c` `ReadSettingsFileIntoSettingsMap`, `Server.c` `_readSettingsMapIntoServerStruct`) | port, buffer sizes, backlog, max_connections | scan, defaults for missing and invalid values | StartServer, buffers | every value is usable and is the one in the file |
| Replies and advertisements (`Connection.c` 179-313, `File.c` 127-200) | send buffer, directory, descriptors | write an answer; pick a file, copy it line by line | descriptors, whoever edits the directory | fits the buffer, is whole, ends |
| Example client (`example/client.c`) | two buffers of 1024 | read, ask, send, until QUIT | connection thread, over TCP | gets an answer to what was typed |
| Logger, utilities (`Log.c`, `Util.c`) | log settings | formatted output, random numbers | everybody | not the subject of a property |
| `example/server*.c`, `tests/`, docs | - | stand-alone examples, unit tests of map and Util | - | read for intent only |

The hard parts are three kinds of threads over shared records with only part of the accesses under the
mutex, slots that are reused while their previous thread cleans up, a flag that is cleared several times
per session, write-behind to a file that is overwritten in place, several processes that race for one
lockfile and one file while signals arrive at any time, and messages that a byte stream may cut or join.
`PROJECT.json` lists the hazards one by one with the properties aimed at them.

## 2. Modules

| Module | Models | Source |
|---|---|---|
| `Shared` | the shared data and its initial state, the mutex | `Connection.h`, `Data.h`, `Server.c`, `File.c` |
| `Connection` | a connection thread from its start to the return of its slot | `Connection.c` 52-313 |
| `UpdateThread` | the update thread and what it writes per user | `Connection.c` 30-50, `File.c` 111-125 |
| `Server` | the accept loop, the composition of all threads, fairness, properties | `Server.c` 92-166 |
| `WriteBehind` | abstract: memory that changes, a disk that follows by snapshots | (specification) |
| `Process` | processes, signals and the lockfile | `Process.c`, `main.c`, `File.c` 203-217 |
| `Lives` | abstract: the stages of a process and who serves | (specification) |
| `RegisteredFile` | the text of the file: a record printed, a text scanned | `File.c` 78-125 |
| `Registry` | the registered file over saves, exits, crashes and restarts | `File.c`, `Process.c`, `Connection.c` |
| `Reply` | what each command writes into the buffer; advertisements | `Connection.c` 161-313, `File.c` 127-200 |
| `Settings` | the settings file, its scan, defaults | `File.c`, `Server.c` 21-90 |
| `Exchange` | client and connection thread over TCP, byte by byte | `client.c`, `Connection.c` 52-177 |
| `MapSpec` | abstract: what `map.h` promises | (specification) |
| `HashMap` | the hash map: buckets, chains, index of a hash | `map.c` |
| `ServerProofs`, `ProcessProofs`, `RegisteredFileProofs`, `RegistryProofs`, `ReplyProofs`, `ExchangeProofs`, `HashMapProofs` | theorems | |
| `Recursion` | lemmas: induction on numbers, recursive functions | |
| `MCServer`, `MCProcess`, `MCRegistry`, `MCReply`, `MCExchange`, `MCHashMap` | instances for TLC | |

How they compose:

* `Server` EXTENDS `Connection` and `UpdateThread`, which both extend `Shared`; its next-state relation is
  the disjunction of the threads' actions. It implements `WriteBehind` (`Records == INSTANCE WriteBehind
  WITH ...`), with memory mapped to what a save would write (`RecordOf`) and disk to the registered file.
* `Process` and `Registry` compose through `Lives`, which says when a process loads its data, serves and
  ends. `Process` implements `Lives` with lockfile, signals and port; `Registry` takes its stages from
  `Lives` and adds the data. Both directions are theorems (`ProcessImplementsLives`,
  `RegistryImplementsLives`), so neither module carries the other's state.
* `Registry` EXTENDS `RegisteredFile`, and `RegistryProofs` takes what it needs of texts from the theorems of
  `RegisteredFileProofs`: reading undoes writing, and a save may go over a save.
* `Exchange` EXTENDS `Settings`: the buffers and the port of a conversation are those that
  `_readSettingsMapIntoServerStruct` makes of a file.

### How state and actions correspond to the code

**Threads (`Shared`, `Connection`, `UpdateThread`, `Server`).**

* `pc[t]`, `upc` and `server_pc` are where a connection thread, the update thread and the main thread are.
  A step ends where the thread blocks, or where what it reads next may be changed by another thread; what
  only the thread itself touches is folded into its neighbour. `connected` is tested in `Identify` and set
  in `Claim`; `ip` is set in `StampAddress`; `registered` is read in `Admit` and, before the lock, in
  `Register`.
* `status`, `socket`, `address`, `state` and `user` are the fields of `Connection`; `socket` is whether the
  descriptor is open. Fields of a slot that nothing has written yet have an arbitrary initial value: each
  is assigned before it is read (`accept` sets socket and address, `Welcome` the rest).
* `NextAvailableConnection` looks at one slot per step, so threads can give slots back behind its back.
* Age and gpa are one abstract `profile`: they are drawn at random and written out together. User IDs are
  numbers; an ID that is not in the users map is `NoUser`. Reads and writes of a `short` are atomic
  (aligned words; every loop that polls one calls an opaque function).
* `send`, `recv`, `accept`, the open of the registered file and `pthread_create` may fail any time.
  `MaxThreads` bounds the threads ever created; since the code neither joins nor detaches one, a real
  process runs into such a bound, and `StartThreadFails` is what it then does.
* After a failed send or recv the code still compares `receive_buffer`, whose first byte was cleared, with
  the commands; none matches, so the loop ends. `SendFails` and `HangUp` go to the clean-up directly.
* The branch for an invalid state (`Connection.c` 136-141) is left out of `Connection`. `Send` has the
  guard that would skip it, TLC checks for deadlock, and `LoggedInSession` shows that no thread gets there.

**Processes (`Process`).** `pc[p]` follows `RunHeadless`, `RunCommand` and the signal handler, `lockfile` is
absent, `Empty` (between `fopen` and `fclose`) or a process id, and `writers` tells which open FILE is still
the file at that path. Signals are delivered between any two steps; `Crash` is SIGKILL or an unhandled
SIGPIPE. BSD `signal` keeps only the same signal away, and only from the thread that handles it, so SIGINT nests
in the handler of SIGTERM, and the update thread or a connection thread may run `SignalHandle` while the first
handler is in `exit`: `HandleAgain` removes the lockfile once more, whoever's it is by then. Of several handlers
before the first removal only the first to remove counts, which is `DeleteLockfile`. Between the two calls of
`signal` a signal may be one that has its handler or one that has not (`EnterHandler`, `DieOfSignal`). Process ids are not
reused. Lines 182-187 of `Process.c` are not reached, because nothing sets `shutting_down`. `ResetCommand`
is called by nothing.

**The file (`RegisteredFile`, `Registry`).** Here characters matter: a record has no line end, and a text is
written over the old one without truncation, so its length decides what a reader finds. A text is a
sequence of characters with short fields; `Scan` is one call of `fscanf` with its five conversions. The
address is the field whose length changes when users come back. The text is smaller than a
FILE's buffer, so it reaches the disk at `fclose`, or cut anywhere when `exit` flushes it. `Login` stores an
address without raising the dirty flag. `spoilt` becomes true when the file is damaged in one of four
listed ways: a starter that had found no file truncates one that has come since; a process serves records
that are not those in the file, because it read them before another process changed it; `exit` cuts a save
short; a shorter text leaves the tail of the longer one. The properties say that nothing else loses data. A
tail, or a cut record, can also be read as a record of another id or put an end to the scan: that user is
then missing until a later save. `NobodyElse` says that nobody is in an unspoilt file who never registered (of
a spoilt one this is false of some ids: with `ab`, `cd` and `ad`, a save that begins with `ab` and is cut after
one character, over a file that begins with `cd`, leaves a record of `ad`). The history `unsaved` holds the users
who have registered and whom no finished save has written: `exit` drops them, since `SignalHandle` does not save.
`OnlyUnsavedAreLost` says that it drops nobody else, over any number of lives. In a spoilt text an id or an
address can be longer than `userID[9]` or `userLastIP[16]`, and the unbounded `%s` then overwrites what lies
behind them; the model reads such a field like any other, and it keeps the digits that `%f` has read.

**Replies (`Reply`).** Texts are their lengths; an advertisement is the lengths of its lines. `Message`
empties the buffer (`Connection.c` 168-169), so each command starts from nothing and may use `strcat`. The
advertisement command looks at the directory five times: it counts the files (`Choose`), picks one (`Find`),
tests for it (`Status`), tests for it again (`Test`) and opens it (`Open`, or `Create` if the second test did not
find it). Others may edit the directory between any two of them, and `disturbed` remembers in whose commands they
have. A name that was not found is what the stack holds: `Junk`, an old name, or nothing (`Folder`): `ads/` is the
directory, which passes `FileStatus` and which `fopen` with `r+` refuses. `Secret` is a file that may not be
opened. `CatFileToBuffer` never closes its file, so `fds` grows until an `opendir` or `fopen` returns NULL. The code
uses every NULL, and an empty directory is `rand() % 0`: `Die`. That the command survives as long as the directory
stays as it is, has a file, and descriptors are left, is `QuietAdIsFound`.

**Conversations (`Exchange`, `Settings`).**

* The server scans its settings file (`ScanFails`), binds and listens (`StartServer`), or finds the port taken or
  forbidden (`BindFails`). When the 16 bits of its port are all zero the system chooses one (`Ephemeral`). The
  client may come at any time; `early` says that it was refused before the bind, or after one that failed.
* Whether the user of an id is connected already depends on other conversations, so `ServerRecv` chooses it;
  `taken` remembers that the answer was `You are already connected.`
* The client always sends its whole buffer: the word, its `'\0'`, and what stood there before. The server
  compares the string at the start of its own buffer, of which only the first byte is cleared before
  `recv`, although the comment at `Connection.h` 80-81 says both buffers are memset: what a short message does not overwrite is
  still there. Words are made of pieces, so that a cut one can be completed by the rest of an earlier one.
* `recv` returns any number of bytes that have come, at most what its buffer holds; with a buffer of no
  bytes it returns 0. `send` takes a whole block when there is room for it in TCP's buffers (`Capacity`) and
  blocks otherwise. The server's messages are only counted. `short` records that some `recv` has returned
  other than exactly one message. A socket closed with unread bytes resets the connection.
* After QUIT the client closes; a `send` to it is lost, fails, or raises SIGPIPE, which ends the
  conversation in each case.
* The client ends what it has read with a `'\0'` past the end of its buffer when the buffer is full, and
  `scanf` does not limit a word: both are left out, and a word fits its buffer by `ExchangeAssumption`.
* `Setting` is shared by the five settings. A missing `port` listens on 47115, the bytes of 3000 swapped,
  because that default alone misses `htons`; a missing `receive_buffer_size` sets the other buffer and
  leaves its own at 0, so that everybody is turned away. `File.h` 30 allows "0 or more space" before the
  `=`; without a space the scan, and the start of the server, fails. `RefusedHasCause` and `TurnedAwayHasCause`
  say what holds when the file gives the setting; `ServesAsDocumented` says what the messages and `File.h`
  promise when it does not, and is violated.

**The hash map (`HashMap`)** is sequential: the server fills it before it starts threads and only reads it
then. A bucket is the sequence of the entries of its chain. What the FNV loop computes is any int; the
negation that fails for the most negative int and the truncating `%` of C are modelled. `_bucket_delete`
tests the link that it has just freed again, which has no defined result, so `DeleteLink` either returns
properly (the freed memory happens to hold another key and the old `next`) or crashes. The server never deletes,
and the unit test deletes a head only. `hash_log2` returns
the number of bits of its argument, one more than the ceiling that `map.h` 53 documents when the argument
is a power of two; the map is then only larger than needed.

## 3. Runs

| Run | Instance | Shows |
|---|---|---|
| `server_safety` | 2 users, 2 slots, 3 threads, 1 profile | typing, mutual exclusion, owners of slots and sockets, logged-in sessions, no ghost login, nothing forgotten, registration for good, refinement of `WriteBehind` |
| `server_live` | 1 user, 2 slots, 2 threads, 2 profiles, fairness | changes reach the file, closing slots return, commands complete |
| `process` | 3 starters, 1 stopper, fairness | what the lockfile says of the server, a stop that reports success ends the process, refinement of `Lives` |
| `registry` | 2 starters, 2 users, 2 addresses | typing, one writer, what is saved is what a restart loads, nobody is invented, and only who has not been saved is lost |
| `reply` | 2 threads, 2 files, 3 texts, 4 descriptors, 8 characters, fairness | replies fit, advertisements are whole and end, and without edits come to a file that is there |
| `exchange` | 1 id, 2 commands, 3-byte blocks, 7 settings files, fairness | the server takes what was typed, no mutual wait, who is refused or turned away, every wait ends |
| `hash_map` | 3 keys, 2 values, 4 buckets, 4-bit ints, every assignment of 3 hashes | indices in range, one entry per key, refinement of `MapSpec` |
| `one_session` | violation | two sessions of one user (`Connection.c:77`) |
| `address_saved` | violation | a new address that is never saved (`Connection.c:85`) |
| `server_has_lockfile` | violation | a server without its lockfile (`Process.c:159`) |
| `settings_documented` | violation | settings files with which a user is not served as documented (`Server.c:28`, `Server.c:54`, `File.c:172`) |
| `registry_unreadable` | violation | a save at whose tail the next start fails (`File.c:43`) |

**Bounds.**

* `server_safety`: two threads are what a race needs; a third lets a slot be reused while a thread of the
  same user still cleans up elsewhere. Two users tell a torn save from a consistent one. One profile is
  enough there, since registering changes a record too; `server_live` has two. No symmetry is used.
* `process`: three starters are needed for one to serve, one to race with it and one to follow; one stopper
  suffices because stoppers do not interact.
* `registry`: one process to save and one to load, which may also overlap. The two addresses differ by
  one character, so that the texts of two users are equally long, or differ by one or by two characters, and
  two leave a tail that does not scan. Starters are symmetric.
* `reply`: four descriptors are two connections, an advertisement and one for the directory, so both the
  normal course and exhaustion happen. The texts are empty, an exact fit (2 + 4 + 1 = 7 characters and the
  `'\0'`), and one that is cut in its second line. Two edits let a file go and
  come back between the looks at the directory.
* `exchange`: a block of three bytes holds words of one piece and of two, so a word can be cut in its
  middle and completed by an old second piece. `Capacity` 5 holds one block and part of another, so that
  `send` blocks. The server's buffers are smaller than, as large as and larger than the client's. The user
  types at most four words: the id, a command and two more to get stuck with. The seven settings files are the
  default one, one with a key twice and an invalid value, one with an invalid port, one with a port that is 0 in 16
  bits, and the three of `settings_documented`; the user types 3000, 47115 (its bytes swapped) or 65536.
* `hash_map`: three keys make a chain with a head, a middle and an end, and the hashes are the most
  negative int, which has no negation, a positive one with the same index, and a negative one with another.

The theorems lift most of the safety results to all bounds.

**Deadlock** is checked on the server: the accept loop can always go on, since a connection may come or
`accept` may fail. The other systems really stop: when every process has ended, when the server has died
of a signal, when the conversation is over (or stuck in the mutual wait that `MutualWaitHasCause` speaks
of), when the hash map has crashed. Their configurations turn the check off.

**Fairness.**

* `Server`: each thread that can take a step of its own does (weak fairness). The mutex is granted to a
  waiter that sees it free again and again (strong fairness): every holder sleeps or makes a round trip to
  its client before it asks again. The registered file opens in one of infinitely many tries. Nothing is
  assumed of clients: `Send`, `recv`, and failures need not happen, and neither does anything in the accept
  loop.
* `Process`: only the delivery of a pending signal and the handler that follows are fair.
* `Reply`: a thread in the middle of an advertisement goes on (it does not wait for anybody there).
* `Exchange`: both programs take the steps they can take; the user need never type.

**What the violations say.** (1) The connected flag is tested and set without the lock, so a user can be
logged in twice. (2) Logging in changes `ip` without raising the dirty flag. (3) The lockfile is tested and
created in two steps and removed by any starter's handler, so the running server can lose it;
`LockfileNamesServer` shows that such a race is the only way. (4) A settings file without a port, without
a `receive_buffer_size`, or without a blank before an `=` does not do what messages and `File.h` say: the three
findings of `settings_documented`. TLC stops at the first; an instance with one of the three files at a time shows
each. (5) The file is overwritten without being truncated, so users who come back from shorter addresses leave a
tail in it that does not scan, and `Initialize` fails although every record is there. A closing thread clears the connected
flag up to three times, and the later ones can hit the next session of the same user; the code makes no
promise about that, so it is a note to `NoGhostLogin` and no finding.

## 4. Proofs

**`ServerProofs`** proves all the safety properties of `server_safety` for any number of users, slots and
threads, from `SharedAssumption` alone. The invariant `Inv` is the conjunction of

* `TypeOK`;
* `Ownership`: the slot of a live thread is not CLOSED, live threads have different slots, the slot that the
  main thread fills in is CLOSED, threads beyond `spawned` do not exist (`SlotHasOneOwner` follows from it,
  and would not be inductive without the status);
* `Session`: what `user`, `state` and `found` say at each program counter;
* `Locking`: mutex holder and program counters agree;
* `Sockets`: a socket is open while its slot is owned and until it is closed;
* `NoGhostLogin` and `SavedOrDirty` themselves, and
* `Snapshot`: during a save, what has been written equals memory, which the mutex protects.

The lemma `ThreadEffect` sums up what any connection step does to its own thread, slot and user and what it
leaves alone; most conjuncts are preserved by that summary rather than by twenty cases. `ServerWritesBehind`
proves the safety part of the refinement: an initial state maps to an initial state and every step to a
`Change`, a `Save` or a stutter.

**`ProcessProofs`** proves typing, `LockfileHasCause` and `LockfileNamesServer`. The last needs `Unraced`:
without a race, a starter past its check still sees no lockfile, one that created it owns it, and no other
starter owns it or is about to remove it, be it with a second handler on the way to its end.
`ProcessImplementsLives` maps program counters to stages.

**`RegisteredFileProofs`** proves what the reader makes of a text, from `RegisteredFileAssumption`: ids are
words without blanks that start with a letter and differ, ages are digit strings without leading zeros, grades have digits on
both sides of a point, addresses are words; all of it is what the code prints. The lemma
`EveryTextMakesUsers` keeps the type of a users map that is read from any text. `SavedUsersAreRead`: the text of a
users map is read as that map, although a record has no line end, so that its last number and the id of the
next record are told apart only by digit and letter. The argument goes field by field (`WordAt`, `IntAt`,
`FloatAt`: where a conversion stops), record by record (`ScanOfFields`: one call of `fscanf` takes exactly
one record), and save by save (`ReadsInSave`, an induction from the last record down to the first over the
places where records start). `SavedText` allows one character behind the text, the last digit of an
older text that was longer by one: it is read as part of the last number, which is still zero.
`SaveOverSave` says that overwriting keeps to that form.

**`RegistryProofs`** proves the safety of the registry, for any number of starters and
users. The invariant has two parts.

* `Typed`: `TypeOK`, that a process that will bind has found or created the file, and that only the one
  process that serves saves. `OneSaver` follows, and so does `RegistryImplementsLives`: `Registry` takes no
  freedom `Lives` lacks.
* `FileInv`: while nothing has spoilt the file, its text is the save of some map (`SavedText`), that map
  agrees with the server's memory in age and grade unless a save is due, and everybody in the file is
  registered in memory. `SavedWhenIdle` alone is not inductive: it says nothing of the file during a save,
  nor of a file without a server, which is what the next one loads. TLC checked `FileInv` on the instance
  of the run before the proof.

`SavesReachTheFile`, `UsersStayInFile` and `UnspoiltFileLoads` follow from them with the theorems on texts;
`NobodyElseIsSaved` is inductive together with `FileInv`, and so is
`SavedUsersAreKept`: `SaveWrites` says that a save writes everybody in memory, and `Unwritten` that the users who
registered and are not in the file are those that no save has written. `RegistryAssumption` says that `NoFile` is no text.

**`Recursion`** holds what the two proofs about recursive functions rest on. The provers cannot apply an
induction theorem that takes a predicate as its parameter, so the lemmas are about sets of numbers, and a
proof defines the set of the numbers with the property. `Induction` itself follows from the pigeonhole
principle for finite sets: if the set had no `m`, adding one would map its elements below `m` into those
but 0. From it come the two bounded forms, least and greatest elements, and the existence of functions defined
by recursion on numbers (`RecursionUpTo`, for `TextOf` and `Total`) and along jumps to later places
(`RecursionByJumps`, for `Scans`).

**`ReplyProofs`** proves that replies fit, that advertisements are whole, and that one that nobody disturbs comes
to a file that is there (`QuietAdsAreFound`, inductive together with the types and with what `left` says of the
files that are still to be passed). `Fits` adds to the types that a thread about to run a command has an empty
buffer. `AdSoFar` says for `AdsAreWhole` that what has been copied and what is left of the file make up its whole
text, or that the buffer is full; the induction over the lines is in `TotalOfLines`. `SizeAssumption` is what the
proof needs of the sizes: the buffer is larger than each reply that the code does not cut to size. Nothing in the
code enforces that: it holds of the default of 1024 (the longest such reply is that of `who`, with 17 users at
most 340 characters), and not of a settings file with a `send_buffer_size` of, say, 10.

**`ExchangeProofs`** proves all the safety properties of `exchange` for all words, buffer sizes, files and
capacities. `InStep` says, for each place of the client, where the server can be and how much is under way
while every `recv` has returned a whole message: at most one message, in one direction, and it is what the
other side waits for. `BlockHolds` and `StringsOfBlock` carry a typed word through the client's block and the
server's buffer, whatever is left in either. `FirstTyped` adds where the first word is until the server has
found its user or found that user connected. `Listens` says that a server that has started is bound to the port of
its file, or to one that the system chose. `ExchangeAssumption` asks that words fit a block, that a block fits TCP's buffers, and that QUIT,
which the client does not wait for an answer to, is no id; and that the ports the system chooses have 16 bits.

**`HashMapProofs`** proves that the hash map implements `MapSpec` until it crashes. The invariant adds
`OneEntryPerKey` to the types; lemmas on a single chain (`InsertGood`, `WithoutGood`) say that a set or a
delete of a key changes the lookup of that key and no other, and `ReplaceGood` carries that over to the
buckets. `HashMapAssumption` asks that the bucket count is positive and divides the most negative int. Both
are powers of two, but arithmetic of exponents is out of the prover's reach, so it is an assumption, which
TLC evaluates on its instance.

**Only model-checked:** liveness under fairness (`RecordsReachDisk`, `ClosingSlotReturns`,
`CommandCompletes`, `StopEndsServer`, `AdvertisementEnds`, `AnswerComes`), which this prover does not do, and
the violations.

## 5. Not modelled

* The logger and the formatting of output. The logger's settings are read by `_initializeLogger` and then
  dropped, and every call of `InitializeLogger` sets the zeros it starts with, so it has no state that
  changes.
* Random distributions: a random value is any value of its range.
* The client's writes past `recvBuff` and words longer than `sendBuff`: what they overwrite depends on the
  layout of the stack.
* What `fscanf` overwrites when an id or an address in a damaged registered file is longer than its buffer
  (`File.c` 80-89), and the rounding of a grade to a float.
* `ResetCommand`, which nothing calls, and the lines behind `shutting_down`, which nothing sets.
* The example servers, which share no code with the server, and the unit tests.
* That slots drain away when `pthread_create` fails for good: the step is in the model
  (`StartThreadFails`), but no property forbids it, since the code promises nothing.
* In `Registry`, files larger than a FILE's buffer, which would reach the disk in blocks; with the handful of
  users of `Build.c` the text is far smaller.

## 6. Plan

In the order of their importance to the system, all done: `Shared`, `Connection`, `UpdateThread`,
`WriteBehind`, `Server`, `ServerProofs`; `Process`, `Lives`, `ProcessProofs`; `MapSpec`, `HashMap`,
`HashMapProofs`; `RegisteredFile`, `Registry`, `Recursion`, `RegisteredFileProofs`, `RegistryProofs`; `Reply`,
`ReplyProofs`; `Settings`, `Exchange`, `ExchangeProofs`.

What could follow: two conversations at once with the registered file behind them (a composition of
`Exchange` and `Server`, too large for TLC as it is); what `Registry` and `Server` say of a save, composed; FILE buffers smaller than the registered file.

## 7. Running everything

    tlc -workers 2 -config MCServerSafety.cfg MCServer
    tlc -workers 2 -config MCServerLive.cfg MCServer
    tlc -workers 2 -config MCProcess.cfg MCProcess
    tlc -workers 2 -config MCRegistry.cfg MCRegistry
    tlc -workers 2 -config MCReply.cfg MCReply
    tlc -workers 2 -config MCExchange.cfg MCExchange
    tlc -workers 2 -config MCHashMap.cfg MCHashMap

and for the violations `MCOneSessionPerUser.cfg`, `MCAddressSaved.cfg` (`MCServer`),
`MCServerHasLockfile.cfg` (`MCProcess`), `MCSettingsDocumented.cfg` (`MCExchange`) and `MCRegistryUnreadable.cfg`
(`MCRegistry`). `tlapm` on each `*Proofs.tla` checks the theorems.
