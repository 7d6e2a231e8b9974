# Specifications for gshu-CSE320

The repository holds the six assignments of a course on systems programming in
C: a greeting (hw0), a DTMF tone generator and detector (hw1), a finder of
duplicate files (hw2), a memory allocator (hw3), a supervisor of daemons (hw4)
and a multi-threaded game server (hw5). This directory specifies hw5 to hw1 in
TLA+, most deeply the two programs that are concurrent, hw5 and hw4, checks the
specifications with TLC and proves with TLAPS, for every value of their constants,
the safety properties that TLC finds to hold, some of them under hypotheses that
are named below.

Everything here is translated from the C code. Where a header or a comment says
something the code does not do, the specification does what the code does, and
the difference is listed below.

## The system

### hw5: jeux, a server for tic-tac-toe

`main.c` accepts connections and starts one service thread for each
(`server.c`). A thread registers its client in the client registry, reads
packets and calls the handlers of `client.c`, which change the lists of
invitations of two clients, the invitations, their games and the players'
ratings, and send packets to both sides.

| part | state | operations | what makes it correct |
|---|---|---|---|
| game (`game.c`) | board, next player, is-over flag, winner | create, apply move, resign | every end of a game is found, the winner is the right one, a finished game is final |
| client registry (`client_registry.c`) | slots, counter, mutex, semaphore `empty` | register, unregister, lookup, all players, shutdown all, wait for empty | one slot per client, exact counter, the semaphore is free exactly when nobody is registered |
| client (`client.c`) | player, connection, list of invitations, mutex | login, logout, make / revoke / decline / accept invitation, resign, move, send | the lists of source and target agree, an invitation leaves each list by one thread, a game is rated once |
| invitation (`invitation.c`) | state, source, target, roles, game, references | create, accept, close | open, then perhaps accepted, then closed, in this order and once |
| player, player registry (`player.c`, `player_registry.c`) | name, rating, references | register, post result | a result changes both ratings once; a name is one player |
| service thread (`server.c`) | locals of the packet in hand | the request loop, logout at end of file | it answers every packet, and unregisters when the connection is gone |
| main (`main.c`) | the SIGHUP handler | accept, terminate | termination waits for the threads and then frees the registry |
| protocol (`protocol.c`) | none | send, receive a packet | a whole packet or an error |

The parts share memory. The mutexes are POSIX semaphores that are not
recursive; several functions return early and keep one, and several read a
field again after they released it. Hard to test are therefore: the same
invitation closed from both ends, an answer to an invitation that has just been
revoked, both threads that see the end of one game, a connection that goes down
while its opponent sends, a list that runs full, and a termination that overlaps
with new and leaving clients.

### hw4: legion, a supervisor of daemons

`cli.c` is one process. It reads commands, forks daemons and waits for their
one-byte message with an alarm of a second; the handlers of SIGCHLD and SIGALRM
run between any two of its steps and of each other's. State: the list of
daemons with pid and status, the globals `flag` and `spid` through which the
handlers report, the alarm, the signal mask. Operations: register, unregister,
status, start, stop, logrotate, quit, and the three handlers. It is correct if
the status of a daemon tells what its process does, no process and no zombie is
left over, every start and stop ends, and no signal goes to the wrong process.
Hard to test are the places a signal may arrive at: before the master blocks it,
between kill and sigsuspend, twice as one, together with the timeout.

### hw3: sfmm, a memory allocator

`sfmm.c` keeps a heap of blocks, ten lists of free blocks by size class, ten
quick lists of small blocks that were freed last, and `last_bp`, the block at the
end of the heap. A header has the size, an alloc bit and a prv bit for the block
in front; a free block repeats its header in a footer, which in a block in use is
payload. Operations: malloc, free, realloc; inside them splitting, coalescing,
the flush of a quick list at its limit, and growth by a page. Correct if blocks
tile the heap, the lists hold exactly the free blocks and no byte is given out
twice. The order of calls decides which neighbours meet, and bits about a
neighbour go stale: no test of single calls reaches that.

### hw2: finddup, a finder of duplicate files

`finddup.c` builds an array of files, sorts it by length, checksum and inode, gets
checksums for files of equal length, sorts again, marks links, compares contents
while it moves entries about, and prints heads with their duplicates. Correct if
exactly the files with equal content are grouped, whatever the order of the list,
links, and checksums that collide.

### hw1: dtmf, tones and their detection

`dtmf.c` writes audio from a list of events, one sample at a time, and finds
events in audio, one block at a time. Correct if every sample is that of its
event, and every tone long enough is found where it is. The bounds are the hard
part; the signal processing is floating point.

### hw0

hw0 prints its arguments and keeps no state.

## The modules

| module | models | composes |
|---|---|---|
| `GameRules` | what the rest of the server can observe of a game: turn, end, winner | |
| `GameOutcome` | the abstract game as a specification: a legal move or a resignation, which may end it | `GameRules` |
| `Game` | `game.c` with its board and line tests | implements `GameOutcome` |
| `ClientRegistry` | `client_registry.c`, with the threads of `server.c` and the termination in `main.c` | |
| `Jeux` | `client.c`, `invitation.c` and the requests of `server.c` | `GameRules` |
| `Legion` | `hw4/src/cli.c` | |
| `Allocator` | the abstract allocator of hw3: payloads that are apart, with room for what was asked | |
| `Sfmm` | `sfmm.c` under one client | implements `Allocator` |
| `FindDup` | `finddup.c` | |
| `Dtmf` | `dtmf.c`: generation, and detection in what was generated | |
| `MCClientRegistry`, `MCJeux`, `MCLegion`, `MCFindDup`, `MCDtmf` | instances for TLC | |
| `GameProofs`, `ClientRegistryProofs`, `JeuxProofs`, `LegionProofs`, `LegionOwnerProofs`, `SfmmProofs`, `FindDupProofs`, `DtmfProofs` | the proofs | each extends its component; `LegionOwnerProofs` extends `LegionProofs` |

**Game.** A variable per field of `struct game`. `ApplyMove` and `Resign` are
`game_apply_move` and `game_resign`, guarded by the tests that return -1. The
code looks only at the lines through the space just played (`LinesAfter`), and
gives a draw only when it found no line; that this is enough is what
`InProgressUndecided` and `WinnerMatchesBoard` say. `game_parse_move` and the
unparsing only map text to spaces and back.

**ClientRegistry.** `pc[c]` is where service thread `c` is and `main` where the
main thread is; a step is what lies between two semaphore operations, or up to
a read that no lock protects. `Register`, `Count`, `Unregister`, `Unref` and
`Unlock` are the pieces of `creg_register` and `creg_unregister`; `Lock`,
`Scan`, `Use...` and `ScanEnd` the loop that `creg_lookup` and
`creg_all_players` share; `ShutdownAll`, `WaitEmpty`, `Fini` and `Exit` the
termination. `invitations` has the pairs of clients that an INVITATION refers
to, `leaked` the clients whose own mutex was kept by an early return, and `fault`
what killed the process: "pointer", a NULL, freed or garbage pointer that was
dereferenced, or "SIGPIPE". The model stops at either. `Reply` sends the packets
of a request, to the client and, where the request is an INVITE or is about an
invitation, to a partner; `Logout` sends the partners their notices; and each may
be the death of the process if one of those connections is down (`Sigpipe`), since
main.c:131-133, which would ignore the signal, is commented out. Requests that do
not look into the registry are of the job "other". `Invite` waits for the
target's own mutex, which client_login holds during its look-up (`Locked`), for
ever if the target is in `leaked`. Two things are simpler than in the code: a
packet is read only while the connection is up, although one that arrived before
it went down would still be served (`Reply` may follow a `ShutdownAll` all the
same), and `Logout` does not wait for a partner's leaked mutex.

**Jeux.** `list[c]` is `client->invitations`, `inv[v]` the invitation,
`games[v]` the games created for it. A handler is split where it releases a
mutex: `Check` (tests), `Close`, `Accept` or `Move` (the step under the
invitation's or the game's mutex), and then the calls that are left in
`work[c].todo`: `RemoveFrom` for `client_remove_invitation`, `SendTo` for
`client_send_packet`, `FindIn` and `ReadId` for `client_id_search`, which reads
the slot after it released the mutex, `SeeOver` for the test of the end of the
game that nothing protects, `Post` for `player_post_result`. `Eof`, `Scan`,
`Visit`, `Pick` and `Search` are `client_logout`, which releases the mutex for
each invitation and then reads the slot again for every test (`Visit`) and for the
id (`Pick`), with no mutex held: another thread may have emptied it, or filled it
with the next invitation. `fault` names the place where the process dies or becomes
undefined. Threads here are logged in; `ClientRegistry` has the rest of their
life, and `Game` the inside of a game.

**Legion.** `frames` is the stack of handlers above the master, `Blocked` the signal
mask that follows from the stack and from `pc`, and a pending signal that is not
blocked is delivered before the next step of the process. `Reap` and `ChldReturn` are
the loop of `sigchld_handler`, whose waitpid blocks while any child runs; `AlrmKill`
and `AlrmSuspend` are `sigalrm_handler`, with the gap between its kill and its
sigsuspend. `See`, `Note` and `Clear` are the two looks at `flag` after each line
read: the test, the look-up by `spid`, and `flag = 0`, which loses what a SIGCHLD
reported since the test. `Ends` and `Halt` are the two reasons of a SIGCHLD: a child's
end, and a child that a signal stops or continues, for which the handler runs as
well, cancels the alarm and waits. `Fork`, `Watch`, `Read`, `ReadFails`, `Activate` are a
start, by command or under logrotate; `Stop`, `Suspend`, `StopEnd`, `Restart` are a
stop. `dropped` is a history variable: processes of daemons that left the list without
being named in an unregister command.

**Sfmm.** `heap` is a record: `blk` maps each block's address to its size, its two
bits and whether its last word holds its footer; `main`, `quick` and `last` are
the lists and `last_bp`. Each C function that changes the heap is an operator
from heap to heap (`Coalesce`, `AddMain`, `Allocate`, `Grow`, `flush_list`,
`FreeQuick`, `FreeMain`), and `sf_malloc`, `sf_free` and `sf_realloc` compose
them in the order of the code, the writes to the next block's header and footer
included. `own` is what the client holds. `Write` is the client that fills a
payload up to its end, so that no footer is there any more. Where the code would
read a size or a link from a word that holds something else, `fault` becomes
"wild", and nothing more is asked of the heap. Addresses are counted in lines of
16 bytes.

**FindDup.** `filelist` is the array in its order. A phase of the program is an
action, except the duplicate scan, whose inner loop is one action per comparison
(`TakeHead`, `Match`, `NoMatch`, `EndOfRun`) over the code's own indices. The
disk is chosen at the start: which name is which inode, what is in it, the
checksum of each string; so checksums may collide. `Sorts` allows any result of
qsort that has no neighbours in the wrong order. `Scan1Exit` and `CompareExit`
are files that cannot be opened.

**Dtmf.** A sample is the symbol of its tone. `Generate` is a round of the loop of
`dtmf_generate`, with its rule that a line is read once the event in hand is over;
`Refused` is a line read with a negative start or with its end in front of its start,
or a key that is none; `Block` and `LastBlock` are the rounds of `dtmf_detect`. What
the filters and thresholds make of a block with a sound in it is a choice of any key
or of none (`Heard`): dtmf.c:324-419 takes the strongest row and the strongest column
each by itself, and gives up at six comparisons. Only if blocks are long enough for
these to let a pure tone through (`given.clear`, chosen at the start) is the tone that
fills a block always found (`Tones`). How long that is follows from the cosines, which
are not modelled; see below. The uninitialised `start`, `end` and `symbol` are chosen
from `Garbage`, the symbols and none.

## What is checked

| run | instance | what it shows |
|---|---|---|
| `game` | the whole game, 3x3 | a game in progress is undecided and has room; winner, turn and pieces agree with the board; a finished game never changes; `Game` implements `GameOutcome` |
| `registry` | 3 clients, 2 slots, 2 names, SIGHUP at any time | `MutexHeld`, `SizeCounts`, `OneSlotEach`; `EmptyToken`: the token of `cr->empty` is in one place; `WaitSeesEmpty`: the wait passes only when nobody is counted |
| `registry_liveness` | 2 clients, 2 slots | a registration that waits for `cr->empty` inside the mutex ends (`CountEnds`); a clean shutdown reaches the exit if no thread has a packet left to send, and otherwise the exit or the death of the process (`ShutdownEnds`) |
| `invitations` | 2 clients, 2 invitations, lists of 2, connections up | `ListsAreProper`, `RatedOnce` under all requests at once |
| `invitations_full` | lists of 1, one connection may go down | `ListsAgree` when nobody is working on the invitation, `OneCloser` of those that call `inv_close`, `OneRemover` of all that end a game or an invitation, with full lists and logouts |
| `invitations_liveness` | 1 invitation, both connections may go down | logouts end, a closed invitation leaves both lists, a finished game is rated |
| `legion` | 2 daemons, 3 forks | no process is left behind (`RunningIsActive`), no zombie stays (`NoZombieLeft`), no kill has pid 0 (`KillsHaveTarget`), a start ends by byte, death or timeout (`StartEnds`), a daemon that ignores SIGTERM is killed (`StopKills`) |
| `sfmm` | heap of 1 or 2 pages of 6 lines, one quick list of 2, 4 blocks held | blocks tile the heap and `last_bp` is the last (`Tiles`); the lists hold exactly the free blocks, each in its class (`ListsHoldFree`); a call goes wrong only where a prv bit is stale before it or is made so by it (`FaultsAreStale`); `Sfmm` implements `Allocator` |
| `finddup` | 5 names of up to 3 files with links, checksums 0, 1 and 8 in a word of 16, contents with a NUL and a byte 200, `-l` or not | where comp1 orders the files, all but one of the names of a file are links (`LinksMarked`); where fullcmp can compare them too, exactly the groups of equal files are printed (`DuplicatesFound`); the scans end on every disk (`Ends`) |
| `dtmf` | 7 samples, blocks of 2, up to 2 arbitrary or 3 adjacent events | every sample is that of its event (`Synthesized`); lines are in order, apart and never of silence, whatever the filters do, and every stretch of an event that holds a block has a line of its own if pure blocks are heard (`RoundTrip`) |

**Bounds.** Two clients are what every conflict over an invitation needs, its source
and its target; two invitations let ids of the two lists differ and slots be reused,
and one slot makes the list full. Three clients for two slots in the registry give a
full table and the reuse of a slot while another thread scans. `MaxGames` bounds how
often an accepted invitation is accepted again, `MaxDown` the connections that go
down. Ids are taken modulo `IdMod`, 256 as in the code; more invitations than that are
beyond the instances. For legion three forks allow two running daemons and the restart
of one of them by logrotate, or a second start of a daemon that failed. For sfmm the
requests give blocks of 2, 3, 5 and 7 lines: one size for the quick list, and sizes
that leave a splinter, split, join two neighbours and need the second page; a list of
2 is flushed by the third free. (Seen in the run: flushed blocks that coalesce and
that do not, a page joined to a free last block, growth that fails.) For finddup five
names are two files with a link each and one more, which is what it takes for a link
to follow a file that did not match; checksums of 0 and 8 differ by half of the word
of 16, so that comp1 has each of them in front of the other. Seven samples with blocks
of two put a block across any boundary and cut the last one short; a third key, in no
event, is the one that has the row of the one played and the column of the other.
Symmetry is used in safety runs only, over sets whose members neither Init nor Next
tells apart. Deadlock is not checked (`CHECK_DEADLOCK FALSE`) where the program stops:
after an exit or a crash, at the end of the game, when the fork bound is used up, or
in one of the states the code really hangs in.

**Fairness.** Service threads and the main thread are scheduled by the kernel:
weak fairness for each thread's own steps. Semaphores are not assumed to be
fair. Packets, disconnections and SIGHUP are up to the outside. In legion the
handlers, a started start and a started stop are weakly fair, since the process
runs whenever it can, and so is the alarm. Nothing is assumed about the user or
about daemons: one may never write its byte and never end, even after SIGTERM.
`StartEnds` and `StopKills` hold for a daemon that runs alone, because the SIGCHLD
handler does not return while any other runs. `StopKills` holds for the daemon,
not for the stop: see below. finddup is one process that never waits: weak
fairness of its next step. sfmm and dtmf have safety properties only.

## Where the code does something else

Two runs end in a counterexample to what a header says:

* `unique_login`: two clients log in under one name (client.c:124, client.h:79).
* `sfmm_payload`: a free writes a footer into the end of the payload of the
  allocated block behind it (sfmm.c:453 and 483, sfmm.h:35).

The following are steps or reachable states of the models too, without a run of
their own.

In jeux:

* A client that disconnects without a login keeps its own mutex in
  `client_logout`, so that `creg_unregister` blocks with the registry's mutex
  held (client.c:142, client_registry.h:16).
* `inv_accept` does not set the state ACCEPTED, so that a second ACCEPT replaces
  the game in progress (invitation.c:92, invitation.h:147).
* `creg_lookup` reads the slot again after it released the mutex and may return
  another client or NULL (client_registry.c:85), and takes no reference
  (client_registry.h:91-92).
* A login under a name in use blocks the thread in its own NACK (client.c:126,
  protocol.h:62).
* An accepted invitation can be revoked, when the target accepts between the
  test and the close (client.c:308, client.h:213), and declined (client.c:383,
  client.h:232-233).
* `client_remove_invitation` dereferences an empty slot in front of the one it
  looks for (client.c:246, client.h:184).
* `inv_close` does not resign a game in progress (invitation.c:127,
  invitation.h:160).
* A MOVE before the ACCEPT applies to a NULL game (client.c:558, client.h:292).
* INVITED carries the source's id (client.c:288, protocol.h:44); ids are 8 bits
  wide for lists of 1000 (client.c:231, client.h:167).
* An invitation is added to a client that has logged out (client.c:277,
  client.h:95); three of its references are never released (client.c:275,
  client.h:209).
* Writing to a connection that is down raises SIGPIPE, which is not ignored
  (main.c:132, client.h:138). So `terminate`, which shuts all connections down,
  need not come to its own exit(status) (main.c:169): the server is killed if
  a thread still has a reply to send, or a partner to tell of a logout.
  `ShutdownEnds` says when it does exit.
* The registry may be freed while a late thread uses it (main.c:165,
  client_registry.h:52-56).
* A player is never linked into the player registry (player_registry.c:46,
  player_registry.h:45-53).

In legion:

* unregister drops all daemons in front of the named one (cli.c:403, `prev` is
  always `&head`), whose processes survive quit (cli.c:338).
* The SIGCHLD that a stop waits for may be handled before sigsuspend
  (cli.c:638), also when SIGALRM arrives inside the SIGCHLD handler or SIGCHLD
  between that handler's kill and sigsuspend (cli.c:195): the stop then hangs,
  and the timeout of legion.h:32 does not bound it.
* A daemon that SIGSTOP or SIGCONT reaches gives a SIGCHLD too (there is no
  SA_NOCLDSTOP): its handler cancels the alarm and waits (cli.c:202, 208), and
  during a stop the daemon then outlives the timeout (`Halt`). `StopKills` is
  said of stops in which that does not happen (`halted`); without the condition
  TLC finds it violated in the instance.
* When one daemon ends, the SIGCHLD handler blocks until all have ended, and no
  command is answered meanwhile (cli.c:208).
* `flag` and `spid` hold one child: of two that end together one stays "active"
  (cli.c:210-217). A start between the report and the look at it resets `spid`
  to 0, and the daemon marked exited or crashed is the first inactive one, or
  NULL (cli.c:579, cli.c:837).
* A stop reports a timeout (`//If sigalrm was caught`, cli.c:641) whenever the
  daemon was killed by a signal, SIGTERM included; it then stays "stopping" until
  the next command marks it crashed.
* A daemon that ends before its pid is stored leaves the handler without a daemon
  (cli.c:211) and the master with an alarm for a process that is gone.
* When pipe fails, the daemon stays "starting", which no command ends
  (cli.c:498).

In sfmm:

* `allocate` does not set the prv bit behind a free block that it hands out whole
  (sfmm.c:265): the next free then takes the block in use for a free one and
  unlinks it from a list it is not on: `SomeStale` in `Sfmm`, and `FaultsAreStale`.
* The bit stays set behind a block freed by a flush or by the end of a realloc
  (sfmm.c:388, sfmm.c:276), so neighbours are not joined, and a block that a
  flush puts on a main list unjoined stays marked as allocated.
* The test for mismatched bits compares with the address of the function
  `sf_mem_start`, not with its result (sfmm.c:428, 524), which is below the heap,
  so that it never aborts. It still reads the size in front wherever the prv bit is
  clear, and behind a stale bit that is payload (`FooterThere`).
* A size near the largest `size_t` wraps to a small block (sfmm.c:299;
  `BlockLines` has it, the requests of the instance do not), and `sf_realloc`
  copies more bytes than the old block has (sfmm.c:555).

In finddup:

* fullcmp is there to "compare two files, bit for bit" (finddup.c:513), and the
  manual has a "byte by byte comparison" (finddup.1C:19), but bytes are compared as
  signed chars (finddup.c:533): 128 to 254 never match, so that copies of a
  file with such a byte are not found, and 255 is taken for the end, so that
  files are equal that share what is in front of it. `SameBytes` has both.
  `DuplicatesFound` means by a duplicate a file of equal content, and is said of
  disks where fullcmp can tell (`BytesCompare`). Two files with the bytes 0 and 200,
  which are in the instance, violate it without that condition.
* comp1 returns differences of checksums as an int (finddup.c:284). With three
  files of a length whose checksums differ by more than the int holds (0, 5 and 10
  modulo 16), or by exactly half of its range (0 and 8), the order goes round in
  circles, and links and copies of a file may be sorted apart and missed. The
  instance has such disks. `LinksMarked` and `DuplicatesFound` are said of those
  where it does not happen (`NoCircles`); without that condition TLC finds both
  violated in the same instance.
* scan1 compares the last entry with the one after it (finddup.c:303), which the
  program has not written, or not allocated: `Scan1Exit`.
* A last line without a newline loses a character (finddup.c:203, 498).

In dtmf:

* The comment on `dtmf_detect` (dtmf.c:230-242) says that "As long as the same DTMF
  tone is present in subsequent blocks, the duration of the current DTMF event is
  extended", and that an event shorter than MIN_DTMF_DURATION "is discarded and
  nothing is emitted". The code writes a line for every block with a tone in it
  (dtmf.c:420-425) and drops none: its one test compares milliseconds with a
  constant in seconds, N/8.0 with 0.03 (dtmf.c:321), which no N from 1 is
  below. `RoundTrip` states what the code does, one line for each block.
* The thresholds (dtmf.c:362-393) let the tone of a key through only if blocks are
  long enough. Put into the formulas of dtmf.c and goertzel.c, a block of one key
  and no noise is always found from 74 samples, never up to 44, and for some keys
  and phases in between; block sizes from 10 are allowed. A wrong key did not
  come out of a pure block. A block with two keys in it gives one of them, nothing,
  or the key in the row of the one and the column of the other. (That is a
  calculation beside the models, not a run: in `Dtmf` the tone of a pure block is
  found if `given.clear`, and everything else is left open.)
* The last event ends one sample behind the end (dtmf.c:333).
* `start`, `end` and `symbol` are read before they are set (dtmf.c:99).
* One line is read per sample, so that an event without a length, or one that ends
  before its turn, delays the next one: `Proper` excludes them, and `Synthesized`
  cannot be proved without that.
* `dtmf_detect` ignores the result of `audio_read_header`, and a byte 255 in the
  header ends it early (audio.c:11), so that the rest is taken for samples. `Dtmf`
  starts behind the header.

## What is proved

`GameProofs` proves, for the game of `Game`, the invariant `GameInvariant` and
from it type correctness, `InProgressUndecided`, `WinnerMatchesBoard`,
`OverIsFinal` and `RefinesGameOutcome`. `InProgressUndecided` is not inductive
by itself: a move completes at most the lines through the space played, and that
a line found complete is the winner's and no other rests on the board having been
undecided before, while the guard of a move looks only at the turn. So the
invariant is `TypeOK`, `OverIffNoTurn`, `InProgressUndecided` and
`WinnerMatchesBoard` together. `OverIffNoTurn` follows at once;
`TurnMatchesPieces` is an invariant of its own, which counts the pieces by their
cardinality.

`ClientRegistryProofs` proves, for every finite set of clients, every set of
names and every number of slots, the invariant `RegistryInvariant`, the
conjunction of `TypeOK`, `MutexHeld`, `OneSlotEach`, `SizeCounts` and
`EmptyToken`, and from it each of them and `WaitSeesEmpty`. The conjuncts need
each other: who may change slots, counter and semaphore follows from
`MutexHeld`; that an unregistration removes one slot, and so that the counter
goes down by one with it, from `OneSlotEach`; that the first registration finds
the token, and that the last unregistration posts it, from `SizeCounts`; and
`size` stays a natural number because a counted client occupies a slot. The
lemmas about cardinalities rest on `FiniteSetTheorems`. Assumptions: the clients
are a finite set without `NULL`, `NSlots` is positive.

`JeuxProofs` proves six properties of `Jeux`, for any set of clients, any set of
invitations, lists of any length and ids of any width, whatever requests come, in
any order, and whichever connections go down:

* `TypeOK` and `ListsAreProper` by the invariant `JeuxInvariant`. It adds what each
  thread may rely on where it is (`ThreadOK`): the calls it still has to make
  name the parties of its invitation, an id is read right after it was found, the
  two removals of a close stand together, a result is posted last, and a thread
  that goes on after `inv_close` has an invitation that is closed. It also adds
  what keeps reference counters from going below zero (`InvitationsOK`): an
  invitation has at least as many references as lists that hold it.
* `OneCloser` from the same invariant: the state is read and set inside the
  invitation's mutex, so the second thread finds "closed", while the first can
  only have got on by finding another state. `inv_accept` may come in between. The
  property is about the requests that call `inv_close`: REVOKE, DECLINE, RESIGN
  and the logouts that make these calls.
* `OneRemover` by `RemovalOK`, for those and for MOVE, which does not call
  `inv_close`: both movers that see the end of a game and one resigner may be on
  their way at once. What a thread that is past a party's list leaves behind is a
  list without the invitation, and the next one fails there. That the list does
  not get it back meanwhile needs that an INVITE adds only its own invitation,
  and that a mover counts as one only when it has seen the end (`OversLast`: the
  test of the end is the last call of a move until then).
* `RatedOnce` by `RatingOK`. The code has no flag that a game was rated. Both threads
  may see that a game is over, and what keeps the second from posting is that it
  has to remove the invitation from the source's list first, and that this fails
  when it is not there. So the invariant is about threads that have removed it
  and have still to post: there is one, the result is not posted yet, and the
  source's list no longer has the invitation; nor does it ever get it back.
* `ListsAgree` by `AgreementOK`: if one party holds an invitation and the other does
  not, then some thread is between its two insertions or its two removals. For
  the removals this needs that the list of the second one is not emptied by
  another thread.

Assumptions: `NULL` is not a client, an invitation object or the record of one
(`ObjectsAssumption`, `NullAssumption`), and sizes and bounds are natural
(`SizesAssumption`).

`LegionProofs` proves, for any set of daemons and any number of forks, the
invariant `LegionInvariant`: `TypeOK`, `MasterOK` (what the master has found or
stored by the time it gets to `pc`), `AlarmOK` and `ActiveOK`. `KillsHaveTarget`
follows: whatever can still make the SIGALRM handler run, the alarm, a pending
SIGALRM or a handler before its kill, implies that `spid` is set, and only
`Activate` resets `spid`, after the alarm is off and at a time when a SIGALRM
cannot be pending, because it would have been delivered before. `NoZombieLeft`
follows from `ZombiesOK`, by the same kind of argument about SIGCHLD.

`LegionOwnerProofs` proves `RunningIsActive` by the invariant `OwnerInvariant`: a
process that runs is the one that the command under way starts or stops, or is
owned by an active daemon of the list, or was dropped (`OwnerOK`). Its other
parts say which daemon is under way (`StageOK`) and that `spid` is never the pid
of a process that runs while the master may look at `flag` (`SpidOK`); without
the last, `Note` could mark the daemon of a running process as exited and forget
its pid. That a stop leaves no process of its daemon rests on the blocking
waitpid: when the handler returns there is no child at all. The bound `MaxForks`
is any natural number; identifiers are not reused.

`SfmmProofs` proves `TypeOK`, `Tiles`, `ListsHoldFree`, `FaultsAreStale` and
`RefinesAllocator`, for any size and number of pages, any number and limit of quick
lists and any requests. The invariant, `SfmmInvariant`, is about the heap between two
calls: blocks tile it (`Tiled`), lists hold blocks of their class, each once
(`ListsOK`), `last_bp` is the last block, and the blocks on no list, the loose ones,
are marked allocated and are exactly the client's, each as large as its request needs.
It says nothing of prv bits, so it holds however stale they are: a block is joined to
a neighbour only if that is on a main list, and anything else is a fault. Inside a
call one block is out of order, on no list and perhaps not marked (`Sound(h, x)`);
`CoalesceIs`, `AllocateIs`, `GrowIs`, `FlushIs` and their like say what each operator
makes of such a heap and that no other loose block changes, and `MallocIs`, `FreeIs`
and `ReallocIs` put them together as the code does. The loops over a list and over the
requests for pages are recursive functions on an interval: that they have a value for
each number of rounds, and that the rounds keep the invariant, is proved by looking at
the least number for which it fails (`LeastIs`). The joining, cutting and growing of
tiles are `JoinTiles`, `SplitTiles` and `GrowTiles`. `RefinesAllocator` has one
hypothesis more, `NoWrap`, that no request wraps `size_t` when it is rounded up,
without which the code breaks the promise (see above); for a block that moves it also
needs that both its places are held for a while (`Between`).

`FaultsAreStale` needs the prv bits, of which that invariant says nothing. Call a
block bare if the block behind it has a clear prv bit. Right is such a bit behind a
block of a main list, and it stays behind a block that allocate hands out whole.
`BitsOK`, the second invariant, says that there are no others: a bare block is on a
main list or the client's, and so none is on a quick list. A fault is that the footer
of a bare block is read that has none, or that one is unlinked that is on no main
list; to say that it was bare at the start of the call or is at its end, `Explained(h,
T, x, F)` allows bare blocks on the main lists, in a set T and at the block in hand,
and a fault, other than those in F, only if a block of T is bare. `Keeps` is what
every operator does: it takes that from the heap and block in hand it is given to
those it leaves, for any T the client holds and any F. With T empty and no fault
before, a call on a heap without a stale bit can then fail only on one that it leaves
(`Follows`), in sf_realloc on the block it has just handed out. That sf_free and
sf_realloc never refuse such a block follows from `ListsHoldFree`'s invariant: it is
marked, large enough and inside the heap.

`DtmfProofs` proves `Synthesized` and `RoundTrip`, for any lists of lines, any number
of samples, any block size above one, any keys and any garbage. For `Synthesized` the
invariant is `LineInHand`: the lines before the one in hand are over, and no line is
read later than when the line before it is over. For `RoundTrip` it is
`DetectorInvariant`: reports are in order, apart, of a block at most, end where the
detector is, and overlap an event; and of a stretch of two blocks' length less a
sample in an event, a block has been found once the detector is a block behind its
start, because the first block that begins in it ends in it too. The first part, and
that no line is of silence, holds for any choice of the filters; the second is about
block sizes at which the tone of one key that fills a block is found (`given.clear`),
a hypothesis that the property states.

`FindDupProofs` proves `TypeOK`, `LinksMarked` and `DuplicatesFound`, for any disk,
any number of names and any checksums, `LinksMarked` and `DuplicatesFound` with
the conditions about the disk that they state. That the list stays a permutation of the
files found (`FindDupInvariant`) rests on `MovedFromIsOrder`: the shift of scan2 is
an order of the entries, for any positions.

The condition of both is `NoCircles`: the differences that comp1 returns order the
lengths of the files found, and, of the files of one length, their checksums and
inodes. It asks nothing of `IntMod`. Differences may wrap, and numbers more than
2^31 apart come in another order than they should, but x below y and y below z
must give x below z, and a difference of 0 equal numbers. It holds on any disk
where no two lengths, checksums or inodes are 2^31 or more apart
(`NoCirclesIfClose`). Where it does not hold the code need not do what the
properties say (see above). `DuplicatesFound` also needs `BytesCompare`: in every
file found, a byte 255 has a byte above 127 in front of it, or fullcmp takes it for
the end of the file (`ReadToEnd`), and a file that has another file of its
content has no byte above 127. Then fullcmp is equality of contents.

* For `LinksMarked` the list has to be sorted when the links are marked
  (`LinksInvariant`). qsort promises that neighbours are not in the wrong order;
  with `NoCircles` that is all pairs (`ListOrder`, `NeighboursSorted`), although
  some entries have no checksum yet: those of one length have all theirs or
  none (`Filled`), because in a sorted list each has a neighbour of its length. So the
  names of a file are next to each other, and its first one is no link. A match
  only moves entries (`OneIsNoLink`).
* For `DuplicatesFound`, `ScanInvariant` says what the list is during scan2. Between two
  heads, a duplicate is the same as the entry in front of it, and what is no
  duplicate differs from all in front (`Grouped`). While a head is compared
  (`Compared`), what is behind it is still in order with what has not been
  compared (`Ordered`), the duplicates are exactly the compared entries that are the
  same as the head (`Matched`), and a link that is no duplicate comes after an
  entry of its file (`LinksAreLater`). That a link need not be compared is
  `SameIsCopy`: if the last entry matched, then some entry that matched has an
  inode not below any that did not (`LinkMatch`), so a link to one that did not
  match would have been sorted before it. `WithLinks` and
  `WithoutLinks` then read the printed groups off the list.

Only model-checked are:

* All liveness: fairness and ENABLED are beyond the prover.
* The two counterexamples.

## What is not modelled

* hw5: the rating formula and the race of two results for one player; short
  reads and writes of packets and their byte order; a blocked write; roles
  outside 1 and 2 in an INVITE and the NULL_ROLE branch of `inv_close`; a MOVE
  without payload (server.c:231); the size given to malloc in `game_create`; the
  uninitialised fields of the ACK to INVITE; what a freed object contains after
  its release (the model stops at the first use).
* hw4: parsing of the line and the argument vector that `register` keeps after it was
  freed; the names of log files in logrotate; a child whose dup2 or exec failed, which
  returns to the prompt as a second master (to its parent it is a daemon that stays
  silent); a daemon that closes SYNC_FD and lives on; reuse of process identifiers;
  SIGINT in the instant between fork and setpgid of a child.
* hw3: pointers that were never handed out, or twice freed; the bytes of a payload and
  what realloc copies of them; the value of MAGIC; a client that writes beyond its
  payload. After a fault the heap is left as it is.
* hw2: options; the output's wording, headers and the list of empty files; failing
  allocation; files that change while the program runs; several devices (inodes
  stand for the pair).
* hw1: the arithmetic of cosines, filters and thresholds; noise; the audio header;
  options; lines of another form than two numbers and a character, and lines cut
  short.
* hw0 keeps no state. Copies of library code (`getopt.c`, `crc32.c`) and the object
  file with the sf_ functions of hw4 are external.

## Plan

What would be modelled next are `Ratings`, `Logrotate` and `Protocol`:
`player_post_result` and its lost update; the renaming of versioned files; packets
over a connection that delivers them in pieces.
