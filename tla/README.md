# syslog-ng 2.0.10 in TLA+

The repository is a collection of monitoring and administration tools. Its one
stateful program is syslog-ng 2.0.10, under
`tools-n-scripts/sysadm/syslog-ng-2.0.10/src/syslog-ng-2.0.10/`: a daemon that
reads log messages from sockets, files and itself, routes them by the *log
statements* of its configuration, and writes them to files, pipes, programs,
terminals and the network. These modules specify that program. Paths below are
relative to its `src/` directory.

## How the program works

syslog-ng is a single-threaded process around a GLib main loop. An iteration
*checks* every event source and then *dispatches* the most urgent ones that were
ready: connecting (-150), writers (-100), readers and listeners (0)
(`syslog-ng.h`). Everything a dispatch causes happens in one call chain. What
makes it hard is that decisions are taken in one dispatch and used in a later
one, that one message is shared by queues that drain independently, that
descriptors fail or stop accepting data between any two dispatches, and that a
configuration is replaced while messages are in flight.

| part | state | operations | called by |
|---|---|---|---|
| message, `logmsg.c` | reference count, stack of acknowledgement blocks | ref, unref, block start / increment / end, ack, drop | everything below |
| log source, `logsource.c` | the window left, one per source *driver* | queue (takes a unit), ack callback (returns it) | readers, `internal()` |
| reader, `logreader.c` | input buffer and its fill, "complete line" flag | prepare, check, dispatch, fetch | main loop |
| center, `center.c` | the log statements | queue: two passes over the statements | log sources |
| destination group, `dgroup.c` | its drivers | queue: hands the message to each driver | center |
| writer, `logwriter.c` | output queue, partial line, flush timer | queue, dispatch, flush, broken, reopen | destination drivers, main loop |
| socket source, `afsocket.c` | listener, connections, their number | accept, close, keep over a reload | main loop, reload |
| socket destination, `afsocket.c` | descriptor, reconnect timer, writer | connect, connected, reconnect, notify | main loop, writer |
| files, `affile.c` | open readers and writers, reap timer | follow, moved, open, reap, reopen | main loop, center |
| program, `afprog.c`, `children.c` | pid, pipe, writer | start, exit handler, notify | main loop, writer |
| terminals, `afuser.c` | blackout time | queue (settles at once) | destination group |
| internal messages, `afinter.c` | queue, time of the next MARK | postpone, dispatch | center, main loop |
| configuration, `cfg.c` | the active configuration, persistent values | init, deinit, reload, save, load | main loop |
| statistics, `stats.c` | named counters, shared or orphaned | register, orphan, unregister, clean up | all drivers, reload |
| DNS cache, `dnscache.c` | two lists and a table | lookup, store, check hosts | message creation |
| main loop, `main.c` | signal flags, stats timer | run | - |

*Flow control* ties these together. Every message takes a unit of its source
driver's window (`log_iw_size`). The source pushes an *acknowledgement block*
onto the message; so do the center and every flow-controlled destination group.
Whoever hands the message on increments the block **on top**, whoever is done
with it acknowledges the block **on top**, and a block whose acknowledgements are
complete is popped by its callback, which acknowledges the next one. The
source's callback returns the unit. A reader with no window is not polled.

What has to be right, part by part:

* message path: a unit of window is neither lost nor returned twice; a source is
  not acknowledged while a flow-controlled destination holds its message, and
  always is in the end; a message is freed exactly when nothing refers to it;
* center: the flags `final`, `fallback`, `catchall`, `flow-control` mean the same
  in every combination; the two passes end;
* readers: how far the window is overrun, and that a stopped source resumes;
  lines are cut the same way however the input arrives in pieces;
* writers: bytes of a record are neither lost, repeated nor split between
  connections more than the code accepts; timers fire when they should;
* sockets, files, programs: limits are kept, what broke is opened again;
* reload: either configuration is completely in effect, nothing persistent is lost;
* statistics, DNS cache, marks: counters match the lists they count.

The `hazards` of `PROJECT.json` name the lines at which each of these can go
wrong, with the properties that cover them or the reason why none does.

## The modules

| module | models |
|---|---|
| `AckLedger` | abstract: what flow control promises. Each message owes a number of acknowledgements; the driver is credited at the step that gives the last one |
| `LogPath` | messages, windows, output queues and the call chain source -> center -> group -> driver, with acknowledgements and reference counts |
| `LogCenter` | the loops of `log_center_queue` over the log statements, and `RouteOf`, the same answer without loops |
| `FlowControl` | `LogPath` driven by the main loop: check and dispatch of readers, fetch limits, writers first |
| `LogReader` | how `log_reader_fetch_log` cuts a stream that arrives in pieces into messages |
| `AfSocketDest` | a stream destination: connecting, the reconnect timer, and the writer over all its connections |
| `LogWriterWatch` | the watch of a writer: when held-back messages are flushed, with a clock |
| `AfFileSource` | a followed file: rotation, and the position over reloads and restarts |
| `AfFileDest` | destination files: one writer for each name, write errors, reopening, reaping, reload |
| `AfSocketSource` | listener and connections of a stream source, their limit, keep-alive over reloads |
| `AfProgram` | a program destination with the table of children and the signals of the main loop |
| `AfInter` | syslog-ng's own messages and the MARK timer |
| `Stats` | the reference-counted counters, and who registers, orphans and frees them |
| `DnsCache` | the cache of host names and the hosts file |
| `Reload` | configurations over the life of the process: start, reload, failed reload, exit, crash, and what is handed on |
| `CfgLex` | the scanner of the configuration: buffer, start conditions, tokens |
| `CfgGrammar` | the parser of the configuration: stack, semantic actions, and the global pointers they act through |
| `Filter` | filter expressions: parsed, built, evaluated |
| `LogMsg` | a line parsed, its host rewritten, formatted for the next relay |
| `LogTemplate` | templates compiled and expanded |
| `LogPathProofs`, `FlowControlProofs`, `LogCenterProofs`, `LogReaderProofs`, `AfSocketDestProofs`, `ReloadProofs` | theorems about the module they are named after; `LogReaderProofs` also about `LogMsg`, `ReloadProofs` about `CfgGrammar` |
| `DriverProofs` | theorems about `AfProgram`, `Stats`, `AfFileDest`, `AfSocketSource`, `AfFileSource` and `DnsCache` |
| `SequenceLemmas` | lemmas about sequences that these use |
| `MCDrivers`, `MCText` | one part at a time: the drivers and services, and the texts |
| other `MC...` | instances for TLC of the module they are named after |

`LogPath` takes the constant `Route` - the lists of deliveries the center may make
of a message - and `MCLogPath` computes it with `LogCenter!RouteOf` from four log
statements; that `RouteOf` is what the loops of `log_center_queue` do is what
`LogCenter` is checked for. `FlowControl` EXTENDS `LogPath`. `LogPath` implements
`AckLedger` (`LedgerSpec`).

The modules after `AfSocketDest` are about parts that meet only in the main loop or in a
reload. What a reload does to one of them is in its module, as an init, deinit and
failed init in the order of `cfg_reload_config`; the order itself, over all drivers, is in
`Reload`. `MCDrivers` and `MCText` choose one part in the initial state and let it run,
so that their state spaces add up instead of multiplying.

### LogPath and the code

`msg` is every `LogMessage` with `ref_cnt` and `ack_blocks` (last element = top of
the stack); a structure is reused when its count is 0, which models allocation.
`window` is `options->window_size` per driver, `queue` the writers' queues with the
path flag stored beside each message, and `call` the program counter of the one
call chain.

| action | code |
|---|---|
| `Fetch` | `log_source_queue` up to the loops of `log_center_queue` |
| `EnterGroup` | one delivery of `log_center_queue`, entry of `log_dest_group_queue` |
| `Enqueue`, `Drop` | one driver of the group: `log_writer_queue`, `log_msg_drop`, or a driver without a writer |
| `LeaveGroup`, `LeaveCenter` | their own acknowledgements |
| `Flush` | one message of `log_writer_flush_log` |

`Ack` is `log_msg_ack` with every callback it runs: `Stop` is the block at which the
cascade ends, all blocks above it are popped and their references dropped.
`Fetch` does not look at the window, because `log_source_queue` does not;
`internal()` queues messages without ever looking, so `LogPath` is about any
source, and only `FlowControl` adds what readers check.

Left out of `LogPath`: contents and formatting; counters; the destination's
failures (a flush either takes a message or does not happen); the `closing` of a
reader whose messages are in flight (its block only holds a reference to it).

### FlowControl and the code

`Poll` is the check phase (`log_reader_fd_prepare`, `_check`): the readers with input
whose driver has window left. Then each is dispatched (`StartFetch`) without
another look. `MayContinue` is the rest of `log_reader_fetch_log`: after a line, the
next line of the buffer needs window (`may_read`), but the next `read()` does not, and
`log_reader_iterate_buf` starts again with `may_read = TRUE`. A file source reads once
(`LR_NOMREAD`). What is in the buffer is abstracted: a reader may find another line
or not, so the model allows every chunking of the input and any number of empty
lines. `fetch_limit = 0` is excluded by `FlowControlAssumption`: the loop at
`logreader.c:343` would never read.

### LogReader and the code

`FlowControl` abstracts the buffer of a reader; `LogReader` is that buffer. `Resume`
and `Wake` are a dispatch with and without complete lines left over; then `pc` walks
through `log_reader_fetch_log`: `Read` (any number of bytes that fits), the cutting of
`log_reader_iterate_buf` (`TakeBuffer` for a full buffer, `CutLine` for each turn of its
loop, `EndCut`), and back, until the fetch limit or `EAGAIN` (`EndFetch`), or end of file
or an error (`Close`). `Eol` is the search of the code: a NUL anywhere in the buffer goes
before a newline. A message may be acknowledged while it is being queued (it was
dropped), which `HandleLine` leaves open.

`CutAsWhole` shows a limit of the code too: closing queues *the rest of the buffer as one
message*, newlines included, even if it holds complete lines that the window kept
back. This happens because the loop reads on with an empty window and can meet the
end of the file; the property confines it to the last message of the source.

Left out: `LR_PKTTERM` (a packet is a message), `padding`, `LR_FOLLOW` (a file is polled by
its size), the address stored with a partial line.

### AfSocketDest and the code

`timers` and `connecting` are the live GLib sources, `reconnect_timer` and `source_id` the
fields of the driver, which keep the handle of a source that is gone. `out` is the
descriptor of the writer's watch, `open` all open sockets. `Reconnect` has the three
outcomes of `afsocket_dd_start_connect`: failed, connected at once, in progress. The loop
of `log_writer_flush_log` is one step for each `write()`; nothing can come between them in
the program, and what can come between them in the model can come after them as
well. `Stop` and a second `Start` are the reload whose new configuration does not
initialise. `accepted` and `sent` are histories.

Left out: the flush timer (a flush may come at any time), acknowledgements (in
`LogPath`), datagrams, the freeing of the driver. What the kernel loses when a
connection breaks is not the program's: `sent` is what `write()` has taken. A new
connection may begin with the rest of a line, since `partial_pos` is kept; this is what
the code does, and `InOrder` shows that at least no byte is skipped or repeated.

### The drivers and the code

`LogWriterWatch`: `Prepared`, `Polled` and `Dispatched` are the three functions of the watch,
one after the other as the main loop calls them; `PollInterrupted` is the poll that returns
for another source. Times are ticks, several to a second, relative to now, because
`log_writer_fd_check` compares seconds only and may so flush up to a second early.
`DispatchAll`, `DispatchSome` and `DispatchNone` are what `write()` took. While it waits for
the timeout a stale `G_IO_OUT` lets every poll return at once, which costs time but
nothing else.

`AfFileSource`: a file is an inode with a size; `Rotate` puts another at the path. `HasInput`
and `Moved` are the polling of `log_reader_fd_check`, `FileMoved` is `affile_sd_notify`,
`FileMovedUnopened` the same when the new file cannot be opened: the reader is then gone
until a reload. `SdInit` with `InitOpened` and `InitDeferred`, and `FileSdDeinit`, take and leave the
position. `Buffered` bytes are those of an unfinished line.

`AfFileDest`: `QueueMessage` is `affile_dd_queue` with `affile_dw_queue` in it (`ForMessage`,
`NewForMessage`), `FileWrite` and `FileWriteError` are a turn of `log_writer_flush_log`, `Second` and
`Reap` the timer. A file that is optional and never opened has no writer, which
`affile_dw_reapable` does not test: the model then stops in `crashed`.

`AfSocketSource`: descriptors are numbers and are given out lowest first, as the kernel does.
`Accept` with `Allowed` is `afsocket_sd_accept`, `CloseConnection` the notify of a connection,
`SdDeinit`, `SdInitNew`, `SdInitFails`, `SdRevert` and `SdRemoved` a reload as one driver sees it.
A driver that is optional and could not listen keeps an `fd` that is not its own
(`unopened`); connections that are taken up are not counted (`inherited`).

`AfProgram`: `ProgramExits` ends a process and sets the flag that the `SIGCHLD` handler sets; `MainLoop` is an iteration's
tail (`HupHandled`, `Children`, `Waited`, `ChildrenDone`), where each flag is cleared after its
work is done, so that a signal in between is lost. A SIGHUP has the three outcomes of `cfg_reload_config`:
a file that cannot be parsed changes nothing (`HupRefused`); a configuration that is
initialised takes over, and the writer goes with the old driver (`HupReload`); and one that
fails is left as it is, with the program it may have started, while the old driver is initialised
again and keeps its writer (`HupReverted`). The drivers left so, whose children are `left`, are never
deinitialised and restart their programs (`ReapLeft`). `WriteToProgram` and `WriteError`
are the writer and `afprogram_dd_notify`. Process ids are given again once waited for: if the exit
handler starts a program that gets the id of the one just reaped, `child_manager_sigchild`
then removes the new entry from the table (`mislaid`). A driver left behind gets no messages: the first message
of a reverted configuration faults, which is `Reload`'s subject (`OldConfigurationWorks`).

`AfInter`: `Prepare`, `Check`, `DispatchMark` and `DispatchInternal` are the watch; `OtherSource` is any other
message that goes through the center and sets the target back; `MarkReload` is a
reload, which leaves `next_mark_target` as it is.

`Stats`: an instance is a group or a writer in one generation. `Register`, `Release`,
`Orphan` and `CleanupOrphans` are the functions of `stats.c`; `StartReload`, `DeinitUser`, `Deinitialised`,
`InitUser`, `Initialised`, `Revert` and `ParseFailed` are the calls in the order of `cfg_reload_config`;
`WriterDeinit` and `WriterInit` come in between, from a write error and a reopening.

`DnsCache`: `Resolve` is `resolve_hostname` with the lookup and, but for `persist_only`, the store; `Checked`
and `CheckHosts` are the look at the hosts file that each lookup begins with. A file that cannot be
opened has its time noted and its entries removed, and nothing loaded; it is not tried again until it is newer
(`overlooked`). `StorePersistent` counts an entry only if the table grew, so one that replaces a dynamic entry is
not counted (`replaced`). Storing beyond the limit takes the oldest
dynamic entry; when there is none the list's sentinel is taken and an assertion fails
(`aborted`), which a size lowered below the places lost makes possible.

### Reload and the code

Every group has one driver, and `on` is the set of instances (driver, generation) between
init and deinit. `step` is the place in `main` or `cfg_reload_config` and the drivers still to
visit, in any order, because the center keeps its items in the order of the text, which
is any. `TakeUp` and `HandOn` are what init and deinit do with the `PersistentConfig`: a
position or a writer under the driver's name. `Exited` saves the positions (`Survivors`), `Start`
loads them, and `Crash` loses what was not saved. `InitFails` leaves what it had
initialised as it is and goes on to initialise the old configuration (`RevertDriver`,
`Reverted`). `Message` counts through the pointers of the groups and the center, which are
NULL where a counter was refused; `MessageFaults` is that.

### The texts and the code

`CfgLex` lets `read()` take any number of characters at a time (`Refill`, `Grown`), so a token may be cut at any
place; `Longest` and `Match` are the scanner's loop, `InInitial` and `InString` its rules by start
condition, `Restart` is `lex_init` before the next file, which keeps the start condition.
`TokensAsWritten` compares with tokens read by one left-to-right fold over the whole file.

`CfgGrammar` writes a text one symbol at a time and does with each what the parser does: shift,
reduce, and the semantic action. The state tables are not repeated: a symbol is
written where the grammar allows it. `last` are the global pointers; `StartDriver` sets those
that the action of each kind of driver sets, and `Option` writes through them. `text`, the
statements as written, is what the result is compared with. Statements are right
recursive, so that a long text meets `YYMAXDEPTH` (`Fits`).

`Filter` shifts and reduces words by the precedences of the grammar, builds the nodes of `filter.c`, and
`Eval` evaluates them, right operand first; `Meaning` is the meaning of the words.

`LogMsg` has lines of tokens, each with a length. `ParseLine` is `log_msg_parse` (`Priority`, `AfterDate`,
`AixForwarded`, `IsRepeat`, `HostName`, `Program`); `HostFits` is the 255 characters in which the parser looks for the end of
the host. `Rewritten` is `log_source_group_queue`: the name (`HostNamed`) and `normalize_hostnames` (`Lowered`). `FormatLog` is what a writer without a
template makes of it, and `Relay` all three, for each hop with other options. `Distinct` is what a host and a message need to be
told apart by the next hop. It excludes a host that chaining made too long, and one named `last` before "message repeated":
the next hop takes both for a repeat message, which has no host.

`LogTemplate` reads a template one character at a time, as the compiler does, and `Expand`s the
elements; `Says` is the value of the text as a whole.

## The runs

| run | instance | checks | states |
|---|---|---|---|
| `log_path` | 3 messages; 2 drivers with windows 1 and 2; writers with room for 2 and 1 and a terminal; 3 groups (one empty, two sharing a writer); 4 statements | `TypeOK`, `WindowConserved`, `RefsCounted`, `AwaitedIffHeld`, `BlocksNested`; `LedgerSpec`; `EventuallySettled` | 28 306 |
| `log_center` | all configurations of up to 3 statements, any flags, narrow and wide, 4 messages | `SentIsRoute` | 339 272 |
| `flow_control` | 2 connections of one driver and a file source; windows 1; fetch limits 2, 1, 2; queue of 4 and of 1; 5 messages | `WindowFloor`, `NoDropWhenRoomForOvershoot`, `SourcesResume` | 102 060 |
| `flow_control_comment` | the same with a queue of 2, the sum of the windows | `NoDropWhenRoomForWindows`, which fails | - |
| `log_reader` | all streams of up to 5 bytes over two letters, NL, CR, NUL; buffer 3, fetch limit 2, window 1; with and without `LR_NOMREAD` | `RoomToRead`, `BytesConserved`, `CutAsWhole`, `LineNotStuck` | 445 706 |
| `af_socket_dest` | 3 messages of 1, 2, 2 bytes, queue of 2, 3 handles, 2 sockets | `OneActivity`, `SocketsOwned`, `InOrder`, `Delivered` | 5 759 |
| `af_socket_dest_stats` | the same | `DropsCounted`, which fails | - |
| `reload` | 3 sources, two of one file; 2 destinations of one file; 4 configurations; 3 loads, over reloads and restarts | `PositionKept`, `WritersOwned`, `OneConfiguration`; `WritersKept` | 1 530 000 |
| `reload_reverting` | the same | `OldConfigurationWorks`, which fails | - |
| `drivers` | the eight modules from `LogWriterWatch` to `DnsCache`, one at a time | `ReadOnce`, `FileInOrder`, `SourceSocketsOwned`, `ConnectionsLimited`, `OneProgram`, `CacheConsistent`, `CountersReferenced`; `Followed`, `IdleClosed`, `WrittenToProgram`, `InternalLeaves`, `HeldBackFlushed` | 354 032 |
| `text` | the five modules of texts, one at a time | `ConfigurationAsWritten`, `TokensAsWritten`, `FilterAsWritten`, `RelayKeepsMessage`, `TemplateAsWritten` | 2 146 171 |
| `stats_orphans` | two writers that share a counter, a group | `OrphansUnused`, which fails | - |

The type invariants of the other modules (`AfFileSourceTypeOK` and so on) say what their
variables hold; they are checked when a module is changed and in no run of their own.

Bounds. The number of message structures bounds the messages in flight; no
counter needs another bound. Three messages fill both writers while a third is
being routed. In `log_path` a message goes through up to four groups, twice to the
same writer, with and without flow control, to an empty group, and to no group at
all, so stacks get four blocks deep while queues are full or empty in every
combination. In `log_center` three statements are the fewest that can put a
fallback statement before, between and after a plain and a final one; each may
accept by filter, by source, or by `catchall`. In `flow_control` five messages are
one more than the windows and overshoot of all readers together, so the floor is
the code's and not the model's. No symmetry is declared, since liveness is checked
(and the drivers and writers differ).

In `log_reader` a stream of 5 is longer than the buffer and has room for a line that
fills it, a shorter one and a rest; limit and window run out within a buffer. In
`af_socket_dest` connections and attempts are not bounded at all, only the messages;
three handles are enough because at most two are remembered, and two sockets because
at most one is open when another is made (`OneActivity` and `SocketsOwned`).

In `drivers` each history can happen twice where once would hide a case: two inodes and two
file names, two connections where the limit is reached and three reloads, so that a connection is handed on,
kept and closed; three process ids, two SIGHUPs and three exits, so that an id is given
again, and that a driver left by a failed reload may restart its program between others; a clock
of two ticks to a second and a timeout of three, which is no whole number of seconds;
`flush_lines` below, at and above the queue's length. For the cache there are sizes of 1 and 2 for two addresses,
so that the cache is full with one address or with both and a reload can lower the size below what it holds, and two changes of the
hosts file, so that an address is dynamic, persistent, and dynamic again. The clock is not set back, and no file has
a time in the future. In `reload` three loads are a start, a reload and a
failed one, or a restart in between; two writers are one handed on and one made anew.
In `text` four characters of a scanned file are the shortest string with an escape in it, and a
buffer of 3 has to grow and to move; two drivers in two statements over two parses are
the fewest by which a pointer can be stale; five words of filters nest three operators;
lines have a priority, a date and up to three tokens, over three hops; a host may have 6 characters
for the 255 of the code, which one relay that appends its name keeps to and a second exceeds; five characters of a template hold
a macro in braces and one thing next to it. Only bounds named so in the constants limit a counter.

Deadlock is checked except where something really ends: `log_center`, where the function
returns; `log_reader`, where the source closes; `reload`, `drivers`, `text` and `stats_orphans`, where a process
crashed or was stopped, a text is at its end, or the bounds of histories are reached.

### Fairness

* `WF(Chain)`, `WF(Loop)`: a call chain returns and the main loop goes on. The
  functions contain no unbounded loop.
* `SF(Flush(d))`: a destination that takes data again and again is flushed. It is
  strong because the sources can interrupt again and again; it is justified because
  writers are dispatched in an iteration before any reader that is ready
  (`LOG_PRIORITY_WRITER`). It assumes that each destination does take data: a peer that
  never reads stops its sources, which is what flow control is for.
* Nothing is assumed of the sources: no fairness on `Fetch`, `Poll` or `FetchLine`.
* `LogReader`: dispatches return, a reader that is ready is dispatched, messages are
  acknowledged. No fairness on input: `LineNotStuck` holds if nothing more arrives.
* `AfSocketDest`: timers fire, `connect()` comes to a result, a deinit is followed by an
  init (`cfg_reload_config` calls `cfg_init` right after). Of the peer `Delivered` assumes
  that it accepts connections again and again and takes data again and again.

* `drivers`: the watch, the reading and the timers of the part that runs are dispatched again
  and again, and time passes (`Tick`, `Second`). Of others, only `HeldBackFlushed` assumes
  that the peer takes data (`MakeRoom`). Nothing is assumed of files, programs, signals and messages, except that
  their number is bounded.
* `reload`, `text`, `log_center` and the runs that fail: no fairness; their properties are
  about states and steps.

### The findings

The comment at `logwriter.c:195-199` says that dropping at a full queue *"should not
happen unless the sum of window_sizes of sources feeding this writer exceeds
log_fifo_size or if flow control is not turned on"*. It can: all readers of a driver
are checked against the shared window before any is dispatched, and a dispatch
goes on to `read()` with the window used up. `flow_control_comment` shows a drop with
`log_fifo_size` equal to the sum of the windows. What does hold is
`NoDropWhenRoomForOvershoot`: with room for the windows and, per driver, the sum of
its readers' fetch limits minus one (1 instead of the limit for a file source), no
message is dropped at a writer that gets each message once and with flow control
(`FedOnce`: two groups that name one writer put two entries into its queue for one unit of window). The manual's own advice about a high
`log_fetch_limit` (`doc/reference/syslog-ng.txt:524-530`) points the same way.

The manual (`doc/reference/syslog-ng.txt:1551-1556`) promises *"statistics about dropped log
messages"*. `log_writer_broken` deinitialises the writer, which orphans its counter
(`logwriter.c:404`). Nothing initialises it again: reconnecting calls
`log_writer_reopen` only, and `afsocket_dd_init` leaves a writer that exists alone
(`afsocket.c:856`). From then on drops are not counted, as `af_socket_dest_stats` shows.

When a new configuration fails to initialise, `cfg_reload_config` reports *"reverting to old
config"* (`cfg.c:394`). What the new one has initialised stays so, its source groups with their
counters among them: the old groups of the same names get no counter (`stats.c:91-98`), and their
first message increments it through a NULL pointer (`sgroup.c:141`), as `reload_reverting`
shows. Positions and writers the new configuration had taken up are gone with it; `PositionKept` and
`WritersKept` are stated for what remains.

`stats_cleanup_orphans` asserts that an orphaned counter has one reference (`stats.c:202`). Two
`pipe()` destinations of one name share their counter: a write error of one orphans it
while the other still uses it, and the next SIGHUP aborts the daemon, as `stats_orphans` shows.

What the properties leave out is where the code does less than one could expect, and each
exception is named in the property: a message dropped by a reload that removed its writer; an optional
source that could not listen, and connections not counted after a reload; a MARK
target left over when marks are turned off, after which internal messages wait for ever;
a process id given again before the table of children is up to date; programs that configurations which failed
to initialise left running; a place lost for a dynamic name (below), and a lowered `dns_cache_size()`; a hosts file that could not be opened, or was given
a time no later than the lookup before (`dnscache.c:165-171`); a host with a colon, a bracket or a space, or one longer
than 255 characters, which no relay recognises; a `$HOST` that a later relay puts into lower case; files
that end inside a string, empty strings, and a comment on a last line without a newline;
a facility above 31; a template that ends inside `${`.

One of these contradicts a comment: *"persistent elements are not counted"* against `dns_cache_size()`
(`dnscache.c:282`). A persistent entry that replaces a dynamic one of its address is: the table has not grown, so
`dns_cache_persistent_count` is not raised (`dnscache.c:279`), but it is lowered when the entry is cleaned up. From then on a
place for a dynamic name is lost. `PlacesTaken`, in `CacheConsistent`, says how many are, and that nothing else is wrong with the count;
an invariant `persistent_count = Cardinality(DOMAIN persistent)` fails after a lookup, a new hosts file and another lookup.

Besides these, reading showed: a SIGHUP during a
reload is lost (`main.c:172`), `stats_freq(0)` after a reload keeps the old timer (`main.c:173-178`), and `cfg_free`
skips every other connection (`cfg.c:348-352`).

## The proofs

Every safety property that a passing run checks is also proved, for every value of the
constants that the named assumptions admit, except what tokens, filters and templates mean. The proofs are in seven modules of theorems and one of lemmas:

| module | theorems | about |
|---|---|---|
| `LogPathProofs` | `TypeCorrect`, `WindowIsConserved`, `ReferencesAreCounted`, `BlocksAreNested`, `AwaitedWhileHeld`, `ImplementsLedger` | `Spec => []TypeOK`, `[]WindowConserved`, `[]RefsCounted`, `[]BlocksNested`, `[]AwaitedIffHeld`; the refinement `Spec => LedgerSpec` |
| `FlowControlProofs` | `LoopImplementsPath`, `LoopTypeCorrect`, `WindowHasFloor`, `RoomForOvershootSuffices` | `FCSpec => Spec`, `[]FCTypeOK`, `[]WindowFloor`, `[]NoDropWhenRoomForOvershoot` |
| `LogCenterProofs` | `TypeCorrect`, `SendsTheRoute` | `[]TypeOK`, `[]SentIsRoute` |
| `LogReaderProofs` | `TypeCorrect`, `NeverReadsNothing`, `NoByteLost`, `CutsAsWhole`, `RelaysKeepTheMessage` | `[]TypeOK`, `[]RoomToRead`, `[]BytesConserved`, `[]CutAsWhole`; `LogMsgSpec => []RelayKeepsMessage` |
| `AfSocketDestProofs` | `TypeCorrect`, `WaitsForOneThing`, `NoSocketLeaks`, `BytesInOrder` | `[]TypeOK`, `[]OneActivity`, `[]SocketsOwned`, `[]InOrder` |
| `DriverProofs` | `RunsOneProgram`, `CountersAreReferenced`, `FilesInOrder`, `SourceOwnsItsSockets`, `ConnectionsAreLimited`, `FilesAreReadOnce`, `CacheIsConsistent` | the invariants of the run `drivers`, each for the specification of its module |
| `ReloadProofs` | `RunsOneConfiguration`, `WritersHaveOneOwner`, `PositionsAreKept`, `ReloadKeepsWriters`, `ConfigurationIsAsWritten` | `[]OneConfiguration`, `[]WritersOwned`, `[]PositionKept`; the action property `WritersKept`; `CfgGrammarSpec => []ConfigurationAsWritten` |
| `SequenceLemmas` | - | `FlattenSeq` of sequences of sequences, least numbers, last members |

Hardly any of these properties is inductive as it stands. What was added, and why:

### LogPath

`Invariance` has the inductive invariant `IInv`, the conjunction of
`TypeOK`, `RefsCounted`, `BlocksNested`, `WindowConserved` and `PlacesFinite` (a message
has finitely many places in queues, without which counting them says nothing).
The parts need each other:

* a window is conserved only if the oldest block is popped by the source's callback
  and never twice, so `BlocksNested` says who pushes which block and that none that
  is complete stays;
* that no drop pops the block *under* the group's own while the group is still
  calling drivers - the center's block, in the first group - needs the increment
  made before the group was entered: the third conjunct of `BlocksNested`;
* that a structure reused by `Fetch` is in no queue and has no block needs
  `RefsCounted`: its count is 0 only if nothing refers to it.

`AckProperties` is the lemma on the cascade: whatever the stack, `Ack` removes the
blocks above `Stop` and as many references, and leaves a stack none of whose
blocks is complete. `NatMinimum` and `StopProperties` show that the block `Stop`
chooses exists. `AppendPlaces` and `TailPlaces` count places when a queue grows or
shrinks. `WindowStep` carries the window over a step that changes one message,
`MessageStep` the rest; there is one lemma for each action.

`AwaitedWhileHeld` adds `Debts`: the acknowledgements that a stack still waits for
(`StackDebt`) are those still to come (`Pending`), message by message. Every step moves both by the
same amount (`Moves`). `StackDebt` counts what is missing in all blocks as the elements of
one set, `Extra`, so that lemmas about cardinality apply where a sum would need induction.
`ImplementsLedger` maps `owed` of `AckLedger` to `Pending`. That each step is one of the ledger needs
`Debts`: the ledger credits the driver when nothing is owed any more, the program when
the stack of blocks is used up.

### FlowControl

`LoopImplementsPath` shows step by step that the main loop is a behaviour of `LogPath`, so
`IInv` holds in it. `FCInv` adds `Dispatching` (which readers are ready or reading) and `Room`: a
driver's window is above zero by at least what its readers may still fetch in this iteration, less
the overshoot. That is what the code establishes in the check phase and uses up in the dispatches; `WindowFloor` is
the case in which nothing is left to fetch. For `RoomForOvershootSuffices` a queue has to be compared with windows of
all drivers: with `Once`, that a writer fed once holds a message at most once and that the
one being routed is not in it yet, each entry of the queue is another unit of a window
(`OutstandingFits`), and the message being routed one more, which is not in the queue.

### LogCenter

`Progress` describes the two passes from the start: in each, what has been sent is the
deliveries of the statements passed that `RouteOf` chooses, and what the code remembers (`match`, `have_fallbacks`) is what
those statements give it (`Passed`, `Noted`). The second pass is made only if nothing was chosen in the first.

### LogReader

`Room` says in which positions of `log_reader_fetch_log` the buffer can be full: while cutting,
if a message can still be taken out of it, or when the fetch limit ends the dispatch. Without
it `RoomToRead` does not survive `EndCut`. `Conserved` is `BytesConserved` with the types of its
parts; `PayloadConcat`, `PayloadTrim` and `PayloadCut` say what cutting keeps.

`CutAsWhole` compares with `MessageStarts`, the positions of the stream at which a message starts
when it is cut at once: where a line starts, and after every `log_msg_size()` bytes of it. It speaks of
messages only; `Cutting` adds where the reader is. Buffer and input are the rest of the stream
(`Placed`), a message starts at the beginning of that rest, and the messages before it are those
queued (`CutUpTo`). `FullPiece` and `ShortPiece` say that the bytes the code cuts off, a full buffer or a
line, reach to the next start and no further (`StartsNot`: two starts in one line are multiples of
`log_msg_size()` apart).

### LogMsg

`RelayInv` adds that what is on the wire is what the last relay wrote of its message, and that this message has a
priority and a host: `Rewritten` never leaves the host empty (`RewrittenProperties`). `Reparse` is
the lemma the theorem is made of: a message that is `Distinct` comes off the next hop with the priority, the host and the
text it had. It follows the parser through the line (`EndTrimmed`, `PriorityRead`, `DateRead`,
`HostRead`), each of which says where a run of tokens ends (`RunEnds`, `OneSkipped`).
`MacroHostKept` says that a host that is appended behind a slash changes nothing before the first one.
With `normalize_hostnames` the host in question is the first one in lower case or not: `HostAfter` says so of any number of relays,
because lowering twice is lowering once (`LoweredTwice`) and moves neither `@` nor `/` (`LoweredRuns`, `MacroHostLowered`).
The attempt to prove `HostRead` showed that `Distinct` had left out the repeat message of a host named `last`.

### AfSocketDest

`Activity` names the three things a running driver can wait for - a timer
(`AwaitsTimer`), a connect (`AwaitsConnect`), nothing while it is connected (`HasConnection`) - and that a stopped one has
none (`Nothing`), each with the handles the fields hold. `OneActivity` alone does not say which
handle a field names, and every callback clears by it. `Ordered` is `InOrder` with the types of the
histories; the proof follows one line from the queue into the partial line and out.

### The drivers

Each is proved for the specification of its own module. For any number of

* processes: `OneProgram` is inductive with its types, since every start follows a stop or an exit; a reload that
  fails is the one step that adds a child to `left`, which stays finite and no larger than `reverts`, since
  a driver left behind starts a program only when one of its own was waited for;
* counters: `StatsInv` counts, for each counter, the instances that hold it;
* files: `DestOrdered` says for each file that what is in it, the rest of the partial
  line and the queue make what was accepted; a lemma for each change of a writer
  (`QueuedHeld`, `TakenHeld`, `ReapedHeld`, `DwInitHeld`) says what it keeps of these bytes;
* sockets: `SourcePhase` says that a driver is there only if nothing is handed on any more,
  and that it listens; `SourceLimits` bounds the driver of the old configuration too, which a
  failed reload brings back;
* lines: `FilePositions` says where the position of a file is - in the reader, or in the
  persistent value while nothing runs - and that nothing after it was read;
* host names: `DnsInv` says of the entries (`Consistent`) that list and table agree, that no address is
  both dynamic and persistent, that the count of persistent entries is their number less those that
  replaced a dynamic one, and that the assertion fails only after more were replaced than the size leaves room for; `Within` bounds the
  dynamic entries by the places left. `FileSeen` says how the time noted, the file and what was last seen of it go together, so that a file
  that is not newer is one that was seen, unless it was `overlooked`. `LoadedIs` is the loop over the lines of the file.

### Reload

`Base` says which phases, drivers, values and counters go together. On it rest: `CountersOK`, that the
running drivers and their counters are those that the phase has reached
(`Registration`), until a reload fails; `WritersOK`, that a writer is with a driver or
under a key, never two; `PositionsOK`, where the position of each file is (`Located`), but for
those displaced because two sources share a key or a reload failed (`Known`); and `KeysOK`, for
the action property, that the writers handed on are those of the drivers that stopped, less
those that the new configuration has taken up.

### CfgGrammar

`ConfigurationAsWritten` speaks of the end; `GrammarInv` says what each step of the parser has made of the text so far.
`Shape` relates the stack to the open statement: below it only complete statements, above it
one symbol for each driver, endpoint or option, and the options of a driver above its `params`. `Held`
says that a symbol `item` has as its value the driver in the heap that is written there, and
that while parentheses are open every pointer which the kind of the driver *sets* is the last driver - the pointers it *uses*
are among those (`PointsTaken`, by cases over the kinds: the one place where `AfprogramDdStale` fails).
`Made` says that the objects, log statements and drivers of the complete statements are those of the text,
with every option up to the driver that is still open, for the drivers are in the heap before they are in a group.
What a driver means does not change when a later statement is written (`DriverSame`, `MadeKept`): a template
option stands for the template declared before it (`LookedIs`), and `DeclaredIn` counts only earlier
statements. `OptionMeans` is one option more, `GroupEnded` and `LogEnded` the lists that the reductions link
(`ItemsIs`: linked from the last to the first they are in the order of the text), and each
action has a lemma named after it. Depth, numbers of statements and drivers have no part in the argument: where the stack
is full the parser fails, and nothing is accepted.

### Assumptions

The assumptions say what a configuration and the C types give: sets of messages, readers,
drivers, addresses, users and writers are finite; sizes and limits are natural numbers, positive where the
code would not work with 0 (`log_fifo_size`, `log_fetch_limit`, `log_msg_size`, `log_iw_size`); NULL is no
object, and -1 no position. `ReloadAssumption` also says that writers are not
positions, that no source is a destination, and that the persistent names of the two differ, as
`affile_sd_format_persist_name` and `affile_dd_format_persist_name` make them. Streams, members
and routes are sequences. `CfgGrammarAssumption`: the kinds of drivers are among those of the grammar. `LogMsgAssumption`: putting
a token into lower case twice is the same as once, and makes no `@` or `/` nor changes one. TLC evaluates each of them in the run of its module.

### Only model-checked

* `FilterAsWritten` and `TemplateAsWritten`: what recursive operators compute on every text.
* `TokensAsWritten`: it compares with folds over a text, and `CfgLex` declares a recursive operator.
* `LogWriterWatch` and `AfInter`, whose properties are liveness.
* Liveness (`EventuallySettled`, `SourcesResume`, `LineNotStuck`, `Delivered`, `Followed`, `IdleClosed`,
  `WrittenToProgram`, `InternalLeaves`, `HeldBackFlushed`): fairness contains ENABLED, which is out of the prover's reach.
* What the runs refute, naturally.

## Plan

What is left, in this order:

1. Proofs: the type invariants of the driver modules as
   theorems of their own; step properties of them (a connection that is handed on is not
   closed, a position does not go back).
2. `LogPath` with writers that are freed while they hold messages, and sources that are
   initialised a second time (`logwriter.c:415`, `logsource.c:73`).
3. Datagram sources and destinations: a packet is a message, and there is nothing to reconnect.

## Not modelled

* Descriptor I/O (`fdread.c`, `fdwrite.c`): wrappers without state; their results are choices
  in `LogReader`, `AfSocketDest` and `AfFileDest`.
* The text of macros and dates (most of `macros.c`, `log_stamp_format`), time zones, regular expressions:
  conversions of one value, with neither state nor order; a macro has a value in
  `LogTemplate`, a match is a predicate in `Filter`.
* The tables of bison and flex, which are made from the grammar and rules that
  `CfgGrammar` and `CfgLex` state.
* Addresses (`gsockaddr.c`): objects that are not changed once made. The STREAMS source
  (`afstreams.c`) of Solaris, the tracing allocator (`memtrace.c`), compiled in on request, and the
  hooks (`apphook.c`, `alarms.c`), called once.
* Daemonising, limits, users and chroot in `main.c`: a sequence at start.
* The vendored scripts, and the OpenNMS Java tools, which read a file and write others in one
  pass and keep nothing between runs.

## Running

Each run of the table is `tlc -config X.cfg M`, each module of theorems `tlapm M.tla`:

    tlc -config MCLogPath.cfg MCLogPath
    tlapm LogPathProofs.tla

`PROJECT.json` lists the module and the cfg of each run. The longest proofs, `LogPathProofs` and
`DriverProofs`, take a few minutes.
