# NintyShell, modelled

TLA+ specifications of the DBX plugin NintyShell, the TLC configurations that
model-check them on small instances, and proofs for the core of it that hold for
every instance. `PROJECT.json` maps each definition to the lines it models and
lists the runs, the mutants of the code each property notices, the hazards and
the theorems. Paths below are relative to the repository, line numbers to the
commit the project was written against.

## The system

The plugin is a Go process beside the DBX host. The host sends JSON-RPC requests
on its standard input; `Serve` (sdk.go:190) gives **every request a goroutine of
its own** and all answers and events go out through one locked writer. A page
(`ui/index.html`) runs in the host's workbench, calls the plugin with `invoke()`
and gets the events of all connections.

```
 page --invoke()--> host --stdin--> Serve --goroutine per request--> Handle
   ^                                                                   |
   +--- answers, events <-- host <-- stdout (one mutex) <--------------+
                                        ^   ^   ^
                 wait() of a command ---+   |   +--- watchdog of a terminal
                          read loop of a terminal
```

### Components

| component | state | operations | what is hard | what makes it correct |
|---|---|---|---|---|
| per-command execution (main.go, ssh.go, proc_*.go) | `busy`, `cancelFn`, `done`, `cancelled`, `cwd` of a `shellSession`; a process or SSH channel | `execCommand`, `wait()`, `cancelCommand` with its 3 s timer, `shutdown` | the command is started, cancelled, waited for and shut down by four goroutines, and the lock is given up between any two steps | one command at a time; the hook is the holder's; each command is reported once, with its own directory and flag; the slot always comes back |
| session registry and terminals (main.go, localpty*.go, ssh.go) | `plugin.sessions`, `fallbacks`; `localPty` / `ptySession`, `stopping`, `ptyClosed`, `dead` | `connect`, `disconnect`, `shutdown`, read loop, watchdog, `fallbackSession`, `shell/resize` | a session is replaced, disconnected, given up as silent and exits by itself, all at once | no terminal leaks or is closed twice; the user hears of an exit and of nothing else |
| SSH session (ssh.go, sftpapi.go, dockerapi.go) | `dead`, `sshClient`, `sftpConn`, `remoteLoaded` and names, three mutexes | keepalive, `withTimeout`, `sftpClient`, `ensureRemoteData`, `runSSHCommandWithTimeout`, `ptyInput`, `shutdown` | network calls under mutexes, calls that outlive their time limit, a connection that falls silent | one SFTP client; a loss is noticed; nobody waits for good |
| directory following (`injectOsc7Report`, `osc7Scanner`) | `osc7Injected`, the scanner's carry, `cwd` | inject, feed | sequences split over chunks, a failed injection remembered as done, a terminal that goes away under the writing | the reporter is typed once; the session's directory is the last one the shell reported |
| uploads and file requests (sftpapi.go) | `plugin.uploads`, open remote files | begin, chunk, end, list, rename, download | a failed chunk, an upload nobody ends, a reconnect between two chunks | what is reported as uploaded is complete; files are closed |
| file-system provider (fsprovider.go) | none | list, read, write | cursor and limit arithmetic | pages put together are the directory |
| Docker API (dockerapi.go) | none of its own | detect, overview, action, details, logs, image | a command that was given up and takes effect later, docker changing between two commands, a bounded output buffer, text parsing | the buffer keeps the bound |
| root escalation (root.go) | root SFTP clients | not reachable: nothing sets `rootEnabled` | marker scanning | - |
| output and metadata (main.go) | `streamWriter`, `limitedBuffer`, ring tail | `Write`, `readMeta`, `parseRingMeta` | limits at a chunk boundary, markers split over chunks | output is cut at the limit and only then flagged |
| completion, configuration | remote names | completion, `config` | loading shared by requests | see SSH session |
| protocol server (vendored sdk.go) | workers, request ids | `Serve`, `serveFramed`, `write` | end of input with requests in flight | every request is answered once |
| page: terminal | `running`, `currentOut`, retry buttons | submit, cancel, events, reload | answers overtaken by events; events that name no command | output in the right block; the input line comes back |
| page: file panel | directory shown, upload state | open, refresh, follow, upload | listings answered out of order, a failure in the middle of an upload | the table belongs to the directory; what is reported as uploaded is complete |
| page: Docker panel | `dockerBusy`, panel state, three dialogs with generation counters and busy flags | open, refresh, details, logs, actions with confirmation | a dialog closed and opened again while an answer or an action is pending, the shell ending under a confirmation | a dialog shows what it was opened for; flags match the questions under way; lists follow the actions |
| folder chooser, Windows probes, packaging | - | - | - | not modelled |

## The modules

| module | models | abstraction |
|---|---|---|
| `CommandSlot` | what a session promises about `shell/exec`: one slot, each command that ran reported once after it gave the slot back | the abstract specification |
| `ShellExec` | `execCommand`, `wait()`, `cancelCommand` and its timer, `shutdown`, for one session, local or SSH | one action per critical section or call; a hook is the command it belongs to; directories are model values |
| `ShellSessions` | the registry of one connection, `connect`, `disconnect`, `shutdown`, read loop, watchdog and `fallbackSession` | a session is named after the request that builds it; output is a count of chunks |
| `RemoteSession` | dead flag, keepalive, SFTP client, completion names, channels with time limits, `shell/input`, `shell/config` with `injectOsc7Report`, and `shutdown` of one SSH session | the network is up, silent or broken; file requests are one use of the client |
| `TerminalStream` | `osc7Scanner.feed` and `emitOsc7Cwd` on an endless stream, beside a reader that takes one byte after the other | five kinds of bytes; what a read may bring is a constant |
| `CommandStream` | `streamWriter.Write`, `limitedBuffer.Write`, `readUntilOutputMarker` and `parseRingMeta` on one bounded output cut anywhere | four kinds of cells; the three readers see the same chunks |
| `FileSystem` | the provider's list, read, write, createDirectory, delete and rename, and download and deletion of `sftp/...` | each SFTP call one step; paths are sequences of names, links lead to one place, files are counts of blocks |
| `PluginServer` | `Serve` over lines, `Handle`'s recovery, the answers and the end of the input | a handler ends with a result, an error, a panic, an answer too large, or not at all |
| `TerminalPanel` | the per-command view of the page on top of a `CommandSlot`, with the answers and the events between them | a chunk of output is its command and its number |
| `FilePanel` | the page's file panel and upload loop with the plugin's upload registry | a file is a number of chunks, a directory a model value; the other file operations only ask for a new listing |
| `DockerPanel` | the page's Docker panel and dialogs with every `docker/...` handler of the plugin, against a docker that others change too | a container is running, exited or gone; an answer carries the states that were listed; a click reaches what no dialog covers |
| `MC*` | what TLC needs; `MCParts` also puts the five small parts that share no state beside each other | one part takes the steps, the others rest |
| `ShellExec_proofs`, `ShellSessions_proofs`, `RemoteSession_proofs`, `FilePanel_proofs`, `DockerPanel_proofs`, `FileSystem_proofs` | the theorems about those modules | |
| `Streams_proofs` | the theorems about `CommandStream` and, through an instance, `TerminalStream` | |
| `MCParts_proofs` | the theorems about `TerminalPanel`, which `MCParts` extends, about `PluginServer`, and about the five parts put beside each other | |

How state corresponds to the code: the fields of `shellSession` keep their names;
`stage`, `connect`, `shut`, `reader`, `watchdog`, `cstage`, `sstage`, `progress`
and `closing` are the program counters of the goroutines, one value per place where
a lock is not held or a call of the network is made; `exits`, `events`, `answers`
and `answered` are what was written to the host. The few variables that no code has
(`armedFor`, `taken`, `timedOut`, `trouble`, `seen`, `said`, `masked`, `output`,
`changed`, `removed`, `disturbed`, `disconnected`, `ended`) are histories that only
properties read; `reader` of `TerminalStream` is the reference reader.

The modules compose through `CommandSlot`: `ShellExec` implements it
(`SlotRefinement`, checked and proved) and `TerminalPanel` is built on it, so what
the page is shown to do rests on the session's promise and not on how it is kept.

A definition marked `(variant)` in its comment is a mutated form of the definition
it precedes, a mistake somebody could make there. No other definition uses it; it
is put in place of the original to show that a property notices.

## The runs

| run | cfg | shows | bounds |
|---|---|---|---|
| `exec` | `Exec.cfg` | one holder, hook of the holder, own directory and own flag in `shell/exit`, no unreported process, `ShellExec` implements `CommandSlot`; the slot comes back, and a cancel or a shutdown ends what honours it (over SSH everything) | two commands, one that never ends by itself and one that ignores SIGINT; one cancel, two directories |
| `exec_escalation` | `ExecEscalation.cfg` | **violated**: README.md:24 promises SIGKILL after three seconds; the timer calls the same SIGINT hook again and `killGroup` has no caller | one command |
| `sessions_safety` | `SessionsSafety.cfg` | each session is shut down by one request and no terminal is left to nobody, no nil pointer in `shutdown`, `shell/pty-closed` means an exit | two sessions, one disconnect, one chunk |
| `sessions_live` | `SessionsLive.cfg` | an exit is announced, a removed session ends, a silent terminal falls back | two sessions |
| `sessions_replaced` | `SessionsReplaced.cfg` | **violated**: ssh.go's "a replaced session must not announce its own closure": the flag is read, the lock given up, and the event sent after the session was replaced | two sessions |
| `remote_session` | `Remote.cfg` | one SFTP client, one set of names, one reporter, no session given up without a cause; requests but `shell/input` end, so does a shutdown, and a loss is noticed, whatever the network does | any two requests, one silence |
| `remote_timeout` | `RemoteTimeout.cfg` | **violated**: `withTimeout` makes a new error, so the tests for `errTimeout` never hold and a timed out setup leaves the session alive | one request |
| `remote_input` | `RemoteInput.cfg` | **violated**: input racing the shutdown writes to a nil terminal; the panic is recovered, answered with success, and leaves `ptyWriteMu` locked | one request |
| `remote_panic` | `RemotePanic.cfg` | **violated**: the goroutine that types the reporter tests `ptyStdin` and reads it again; `shutdown` takes it away between, and no `guardPanic` recovers the panic, so the process ends | one request |
| `file_panel` | `Files.cfg` | the table belongs to the current directory once nothing is on its way; "Upload complete" is said of a complete file or against an answer of the plugin; only abandoned uploads stay registered; every upload ends and leaves the page free, also one that was answered with failures the page does not look at or that was forgotten after an invalid chunk | two directories, two files of two chunks, one move of the terminal, one reload |
| `docker_panel` | `Docker.cfg` | a dialog shows what it was opened for and is busy exactly while its last question is under way; the lists are read again after every success; every control comes back | two containers, one image, five events |
| `parts` | `Parts.cfg` | the terminal page puts output in its own block and gets its input line back; the directory is the last one reported, however the stream is cut; output is cut at the limit, the last line is parsed for what it is, and the protocol after a marker is read without a gap; pages put together are the directory, a deletion stays below its path; `Serve` ends, and not before the requests in flight are answered, each once | two commands, two chunks, one foreign event, one reload; reads of up to five cells; outputs of seven cells in chunks of three; two file requests on three trees of up to five paths; three lines, one of which never ends |

Why the bounds are enough to be interesting. Two commands are what it takes for one
to inherit another's hook, flag or directory; the third would meet the second as
the second met the first. One cancel has two calls of a hook in it (at once and
after the timer), so the second can hit another command. Two sessions and a
disconnect are what it takes to replace a session and close the replacement. Two
requests are what it takes to race for the SFTP client, the names or the reporter
and to hold two locks in different orders. One silence suffices because it may start
and end anywhere. Two chunks tell order and loss apart, and two files of one drop
meet each other's failures. Five events open the panel and a dialog, begin an action,
let docker or the shell interfere and open another dialog (closing one and
answering a confirmation are not counted). The terminal's reads are every piece of
two outputs, one with a report that is cut off and begun again and one with the two
byte terminator, in any order and for ever; `KeepTail` and `MaxPayload` are small
enough to be passed. In `CommandStream` the limit (4), the kept end (5) and the
searched piece (3) are all shorter than the output (7) and meet chunks at, before
and across them; the script's line (4) fits into the kept end with one cell to spare.
The trees of `FileSystem` have a link below, beside and inside the directory it leads
to, and two requests are one to delete and one to get in the way. Three lines are two
requests beside each other and one that hangs, or is no request.

No run uses a state constraint: the bounds are guards (`MaxChunks`, `MaxHangs`,
`MaxOpens`, `MaxCds`, `MaxReloads`, `MaxEvents`, `MaxOutput`, `MaxChunk`, `MaxSize`)
or the finite sets of requests, paths and chunks. Symmetry is used in one safety run,
over sets whose members no definition tells apart. Deadlock is not checked where all
requests may be through: nothing more has to happen then.

In `MCParts` the five parts share no variable and no action of one reads another's, so
a behaviour of all of them together is an interleaving of behaviours of each; checking
them one at a time (the variable `part`, chosen at first) loses none of their safety
and leaves each the fairness it has alone.

## Fairness

Weak fairness on the steps of goroutines that were started: the Go scheduler runs
them, and no step waits for a lock that is not released (which the liveness runs
would show). In detail:

- handlers, `wait()`, read loops, watchdogs, `shutdown`: `WF` per goroutine;
- a process that may end does (`CommandEnds`): a command that never ends, or that
  ignores SIGINT, is in `Endless` or `Stubborn`, and `MayEnd` says so;
- a network that is silent while a keepalive is out recovers or is found broken
  (TCP retransmission gives up); without data under way it may be silent for good;
- in `RemoteSession` fairness ends with the process (`crashed`), and its properties
  say "or crashed";
- `Serve` and its workers go on (`PluginServer`); a handler in `Endless` does not;
- requests, disconnects, output, an exit of the shell, a loss of the connection, a
  click, a reload and the end of the input have no fairness: they may never come;
- the page handles its events and settles its promises; a click on retry may never
  come.

## What is proved

For every value of the constants. `ShellExec_proofs`:

| theorem | statement |
|---|---|
| `TypeCorrect` | `[]TypeOK` |
| `OneCommandHolds` | `[]OneCommand`: `busy` is a lock and one command holds it |
| `HookOfHolderHolds` | `[]HookOfHolder` |
| `NoUnreportedProcessHolds` | `[]NoUnreportedProcess` |
| `CancelledByRequestHolds` | `[]CancelledByRequest` |
| `ExitOwnDirectoryHolds` | `[]ExitOwnDirectory` |
| `SessionIsCommandSlot` | `Spec => SlotRefinement`: the session implements `CommandSlot` |

Assumptions: `CommandsAssumption` (`NoCommand` is no command, `Endless` and
`Stubborn` are commands) and `DirsAssumption` (`Home` is a directory, `NoDir` is
not). The argument:

1. `TypeOK` is inductive by itself.
2. `SlotInv` = `OneCommand`, `HookOfHolder`, `NoUnreportedProcess` and
   `TakenByShutdown` (shutdown has taken no hook before it ran). None of the first
   three is inductive alone: that giving the slot back frees it for everybody needs
   that nobody else holds it, and that a published command's hook is not
   overwritten needs both. `TakenByShutdown` is the strengthening: the
   step that takes the hook overwrites `taken`, and without it would lose a command
   that `taken` already stood for.
3. `ReportInv` carries the flag and the directory from the session's fields through
   `result` to the event. It says that the session is cancelled only when a request
   took the holder's own hook, which needs `HookOfHolder`, and it speaks of
   `result` only between the release and the event.
4. The refinement uses that the holder is unique (`HolderIsUnique`), so that the
   `CHOOSE` in the mapping moves exactly when a command takes or gives back the
   slot: four actions are steps of the slot, every other one leaves it still
   (`SameHolder`), and an event appends one command to the reported ones
   (`ExitsAppended`).

`ShellSessions_proofs`:

| theorem | statement |
|---|---|
| `TypeCorrect` | `[]TypeOK` |
| `OneCloserHolds` | `[]OneCloser`: one request shuts a session down, an open terminal has an owner |
| `NoPanicInShutdownHolds` | `[]NoPanicInShutdown` |
| `ClosedMeansExitedHolds` | `[]ClosedMeansExited` |

Assumptions: `NoSession` is no session, a request does not both connect and
disconnect (`RequestsAssumption`), `MaxChunks` is a number. The argument:

1. `CloserInv`: a session is in the registry after its own request put it there and
   until the request that will close it takes it out; so no two requests close the same
   one. It needs that a request that closes nothing yet is idle.
2. `StopInv`: `stopping` is set before the terminal is closed or forgotten, by
   `shutdown` and by `fallbackSession`. That is why `fallbackSession` cannot come
   between the two looks of `shutdown` at `localPty`, and it is what
   `NoPanicInShutdown` is strengthened to. With `CloserInv` no other request
   takes the terminal away either.
3. `OpenHasOwner` passes an open terminal from its connect to the registry, to its
   closer and on; that a closer is done only with the terminal closed is `StopInv`.
4. `ReasonInv`: a read loop that has found `stopping` unset ended for a reason, an
   exit of the shell or the end of the SSH client, and that reason stays until
   `shell/pty-closed` is written and after. By `StopInv` a terminal the plugin closed
   itself is one whose session is stopping.

`RemoteSession_proofs`:

| theorem | statement |
|---|---|
| `TypeCorrect` | `[]TypeOK` |
| `DeadHasCauseHolds` | `[]DeadHasCause`: a session is given up only for a reason |
| `DoneOnceHolds` | `[]DoneOnce`: one SFTP client, one set of names, one reporter |

Assumptions: `Nobody` is no request and not the shutdown (`NobodyAssumption`),
`MaxHangs` is a number (`MaxHangsAssumption`). The argument:

1. `CauseInv`: the connection breaks, or a call is given up, only after `trouble` was
   noted, and the shutdown marks the session when it closes the client.
2. `ClientInv`: while a request sets up the SFTP client it holds `sftpMutex`, and no
   client is cached. So a setup that ends puts its client where none is, and an open
   client that is not the cached one has outlived its time limit or its connection.
3. `NamesInv`: the request that loads the names holds `remoteMutex` until they are
   stored, and who reads them came after it; they are not written again. That is why
   reading them without the mutex does no harm.
4. `ReporterInv`: one request finds `osc7Injected` unset and sets it under the lock, and
   only that one, or the goroutine it started, can type the reporter.

`FilePanel_proofs`:

| theorem | statement |
|---|---|
| `TypeCorrect` | `[]TypeOK` |
| `SettledShowsDirHolds` | `[]SettledShowsDir` |
| `DoneIsCompleteHolds` | `[]DoneIsComplete`: no chunk is skipped, sent twice or lost silently |
| `RegistryIsOwnedHolds` | `[]RegistryIsOwned` |

Assumptions: `NoDir` and `NoUpload` are none of the directories and uploads,
and the files are numbered in the order of their turns, which names them and nothing
more (`NamesAssumption`), a file has a chunk at least and the bounds are numbers
(`SizesAssumption`). `SettledShowsDir` is inductive. The other two follow from
`UploadInv`, which says for each upload where it is: untouched (`Fresh`), worked on
(`Working`, with what `offset`, the request under way and the remote file have to do
with each other: intact with the chunks sent so far, spoilt or forgotten and told so, or
never begun), over (`Finished`), or abandoned. An abandoned upload may still have a request
under way, and a late chunk finds room because it was counted when it was sent; that
clause is what keeps `written` within the size of the file.

`DockerPanel_proofs`:

| theorem | statement |
|---|---|
| `TypeCorrect` | `[]TypeOK` |
| `ShownIsSubjectHolds` | `[]ShownIsSubject` |
| `BusyIsAskedHolds` | `[]BusyIsAsked`: one question and no more while a dialog works, none when it does not |
| `OverviewIsFreshHolds` | `[]OverviewIsFresh`: every success is followed by an overview asked for after it |

Assumptions: `NoId` is no container and no image, and nothing is both
(`NamesAssumption`); `MaxEvents` is a number. The argument (`PanelsInv`):

1. `Addressed`: the panel and the dialogs ask for different things, and only the
   container details for actions.
2. `PanelInv`: the panel has one request at most and is busy while it has; a load of
   the details waits only for an overview.
3. `DialogOK` of each dialog: no question is ahead of its generation, there is one of the
   last generation exactly while the dialog works, and it is a load for what the dialog
   is for exactly while the busy flag is set. The two properties follow from it.
4. `AloneInv` is what keeps two questions of one dialog apart although three flags
   (`busy`, `acting`, `locked`) guard them in different handlers: while a removal waits
   for its confirmation nothing else of the details is under way and no load of them is
   to come, and `reload` waits behind disabled buttons or a closed dialog.

There is little a step can do to a dialog (leave it alone, let a request go on, close it,
begin a load or an action, take or drop an answer, end an action, name the dialog while
one is under way); a lemma each says that `DialogOK` is kept, and the proofs of the
actions say which dialog meets which.

`OverviewIsFresh` follows from `FreshInv`, on top of `PanelsInv`:

1. `ListsInv`: the lists are those of Docker, or an overview is due or under way, and what a
   handler has read of Docker for its answer is still so. Each of these may fail only while
   the panel is `Untold`: Docker was changed by others or by a command whose success the
   page has not handled yet.
2. `ActionInv` is why an overview that is under way when a command ends cannot be taken for
   the one after it: while the container details are open the panel is free but for the
   refresh after an action, an action on an image runs only with the details closed, and an
   action on a container that is still of the last generation has its details open.

Both were checked by TLC on the bounds of run `docker_panel` before they were proved.

`MCParts_proofs`, about `TerminalPanel`:

| theorem | statement |
|---|---|
| `TypeCorrect` | `[]TypeOK` |
| `OwnOutputHolds` | `[]OwnOutput` |
| `IdleMeansDoneHolds` | `[]IdleMeansDone` |
| `SessionKeepsPromise` | `Spec => SlotSpec`: the page's session takes only the steps `CommandSlot` allows |

Assumptions: `ForeignAssumption` (commands of other connections are none of the page's,
and `NoCommand` is neither) and `BoundsAssumption` (the bounds are numbers). The invariant
is `Inv`, checked by TLC with two commands before it was proved:

1. `HandlerInv`: how far the handler of each command got says whether the command can have
   the slot, write, be due to be reported or have been answered.
2. `PageInv`, as long as the page has not lost track (`disturbed`): when it is not
   `running`, nothing of its commands is under way; when it is, it waits for one command
   (`Waiting`) and only that one can have the slot, be reported, be refused, or have
   events on their way. Those are, in order and without a gap, the chunks that are not
   shown yet and at most one exit behind them (`SentBy`). An exit that was sent means that
   the slot is free again, and a refusal that the command never wrote anything.

`Streams_proofs`, about `CommandStream`:

| theorem | statement |
|---|---|
| `TypeCorrect` | `[]TypeOK` |
| `CutAtLimitHolds` | `[]CutAtLimit`: the beginning is forwarded and collected, the end is kept, what is missing is flagged |
| `MarkersFoundHolds` | `[]MarkersFound`: the script's line is found and nothing else is taken for it; what is read after the handshake's marker is all that follows it |

The hypotheses stand in the theorems: the sizes are numbers, the limit is not 0
(`SizesOK`), and for `MarkersFoundHolds` what is kept of the end has room for the script's
line, `RingSize >= Len(ScriptLine)`. The code keeps 8192 bytes, which a line with a long
directory name can exceed; of such a line the theorem says nothing. With a limit of 0 the
writer would flag nothing before the first chunk; the code's limits are not 0. The
argument:

1. Lemmas on what the operators return, cell by cell: `FirstOf`, `LastOf`, `Occurs` and
   `After`; `Min` and `Max` of a set of numbers exist (`MinIs`, from `<` being
   well-founded).
2. Two lemmas carry what was forwarded and kept over a chunk: one on the beginning of more
   output (`FirstOfMore`), one on its end, which is the end of the old end with the chunk
   (`LastOfMore`).
3. `SearchInv` is the strengthening for the handshake: as long as there is no marker, what
   is searched is the end of the output, and it is empty only if it is all of it. A new
   marker then begins in the last cell or later (`FoundInMore`), which was kept. From then
   on `rest` is everything behind the first marker of the output, what came in one chunk
   with it and what came later.
4. `ParseFinds` and `ParseSays` say what `parseRingMeta` accepts; the positions of the last
   line in the kept end are positions in the output, and by `LastLineIs` what was parsed is
   the last line of the output. That needs that the line begins in what is kept: if the end
   was cut inside it, right before a tag, the tag is taken for its beginning
   (`MarkersFound` excepts this, see the gaps).

`Streams_proofs`, about `TerminalStream` (its instance `T`):

| theorem | statement |
|---|---|
| `ScannerAgrees` | for every sequence of cells, `Scan` finds what the reader finds |
| `TerminalTypeCorrect` | `T!Spec => []T!TypeOK`; that what is kept has a bound is part of it |
| `TerminalFollowed` | `T!Spec => []T!FollowsTerminal` |

Hypotheses (`BoundsOK`): the chunks are sequences of cells, `MaxPayload` is a number and
`KeepTail` one that is not 0. The code keeps 64 bytes of a text without an introducer; with
0 an introducer cut in two would be lost. The argument:

1. The scanner looks for introducers and terminators in all it has, and starts again behind
   each report; the reader is a function of one cell at a time. `Agree(p)` relates them: the
   reports in `p` are the same for both, and the reader ends where a new one ends that
   reads only what the scanner keeps of `p`. `ScannerAgrees` proves it for every `p` by the
   length of `p`: the scanner's next report, or its last remainder, is shorter.
2. So the bytes that are kept stand for the reader, which is the inductive invariant
   (`TerminalInv`): `Final(T!Outside, pending) = reader`. A chunk is read behind them as if it
   were read behind everything that came before (`Agree(pending \o chunk)`).

`FileSystem_proofs`:

| theorem | statement |
|---|---|
| `FilesTypeCorrect` | `Spec => []TypeOK`: the server's tree stays a tree |
| `FilesLeaveNothingOut` | `Spec => []NothingLeftOut`: the pages together are the directory |
| `FilesDeleteTheirPath` | `Spec => DeletesItsPath`: no step of a deletion removes anything outside |

Hypotheses (`FilesOK`): the paths are sequences of names, not the root, and finitely many;
`Target` is a path, `MaxSize` a number, and each of `Trees` is a tree (what is in
something is in a directory). The argument:

1. `Leads(t)` is where the paths lead in a tree `t`, so that the tree before a step and the one
   after it can be compared. `SteadyWay`: a path leads where it led as long as no place on
   its way has changed. `PlainBelow` and `PlainSteady`: a path that passes no link behind its
   first names stays below the place those lead to.
2. `Changes` sets `changed` of the others exactly when a place on their way, or below where
   they lead, is not what it was; otherwise the step was `Calm` for them (`CalmBeside`), and
   what they know of the tree is still so (`FilesBeside`).
3. `FilesInv`, for each request nobody changed anything for. A listing's pages are the first
   entries of the directory, and the cursor is their number (`Lists`); that the directory has
   one order is `SortedIs`. What a
   deletion has to do is `Good`: it lies below the path that was named and is reached
   through no link behind it; and it ends with that path itself, until that is gone
   (`Deletes`). The entry of a link is to be removed and not to be read, because the
   entries of a directory are told apart without following them.
4. The deletion's own steps change the tree under the items that are left. After a removal
   every path leads where it led, or into what is gone (`RemovalMoves`); so no path passes a
   link it did not pass before, and what was not there is still not there (`RemovalKeeps`).

`FilesInv` was checked by TLC on the trees of run `parts` before it was proved.

`MCParts_proofs`, about the other parts:

| theorem | statement |
|---|---|
| `ServerTypeCorrect` | `S!Spec => []S!TypeOK`, where `S` is `PluginServer` |
| `ServerServesAll` | `S!Spec => []S!ServesAll`: no handler runs when `Serve` has returned, and every call that was read is answered once or still worked on |
| `PartsApart` | `PartsSpec` implies the specification of each of the five parts |
| `PartsOwnOutput`, `PartsIdleMeansDone`, `PartsServesAll`, `PartsCutAtLimit`, `PartsMarkersFound`, `PartsFollowsTerminal`, `PartsNothingLeftOut`, `PartsDeletesItsPath`, `PartsTypeCorrect` | those properties as run `parts` checks them |

About `PluginServer` nothing is assumed. `OnceOver` is the strengthening: a line that was
answered is over, so its worker answers nothing more; `NoneForgotten` is that a line is
over only with its answer written, unless the answer is too large or the host no longer
reads. `Waited` is what `workers.Wait()` is for: `Serve` has returned only with no worker
left, and has ended with workers only after a write of its own failed, which takes a host
that is gone. The three together say that the answers of ended handlers are not lost when
`Serve` returns.

`PartsApart` is what the composition in `MCParts` rests on: a step of one part is a
stutter of the others. With it the theorems about one part carry over to `PartsSpec`,
those of the streams and of the files through instances of their proof modules, whose
hypotheses are proved of the run's sizes, pieces, paths and trees (`PiecesAre`,
`FilesAre`). `Streams_proofs` and `FileSystem_proofs` have them for any.

Induction. The library's theorems of induction take an operator, which the provers cannot
instantiate. Where one is needed (`Scan`, `Locate`, the order of a directory), the proofs
say of a *set* of numbers that it contains every number (`AllNumbers`, from `<` being
well-founded), and that a recursive definition has its fixed point is proved of the step as
a *function* (`Iteration`, `Solution`). Both proof modules begin with these lemmas.

**Only model-checked.** Liveness (`SlotFreed`, `InterruptedEnds`, `ExitAnnounced`,
`SilentFallsBack`, `ClosedSessionsEnd`, `NothingHangs`, `UploadsEnd`,
`ControlsComeBack`, `PartsSettle`): the prover has no rule for fairness. Every safety
property of a passing run is proved.

## Gaps the models show and no property forbids

These are behaviours of the code that the models contain, or that a property
excepts. They are listed because no document of the repository promises otherwise.

Commands and sessions:

- A cancel between the busy claim and the stored hook is answered "No command is
  running" and forgotten (main.go:575).
- The grace timer reads the session's hook three seconds later and may interrupt
  the next command (main.go:593). That this command is not *reported* as cancelled
  is `CancelledByRequest`.
- A local command caught in the same window by a shutdown runs on; `InterruptedEnds`
  is about commands whose hook was stored, and over SSH about all of them.
- Output that arrives after the watchdog looked at `outputSeen` does not stop the
  fallback (localpty.go:257), and the connection is remembered as silent.
- A refused channel (`MaxSessions` of the server) marks the session dead like a lost
  connection does (ssh.go:428). `DeadHasCause` counts a refusal as a cause: what it
  excludes is that a command that ran into its time limit takes the session with it.
- An SFTP setup that ends after its time limit leaves a client nobody holds.
- A failed loading of the remote names is remembered as done, and so is a reporter that
  could not be sent (main.go:447): the panel then does not follow the terminal.
- At the end of the input `Serve` waits for its workers and shuts no session down; a
  handler that never ends keeps the process. An answer over the limit of the protocol
  is not written, and its caller gets none.

What a shell prints:

- A report of a directory that is followed by one without a directory in the same chunk
  is lost (`masked`): only the last report of a chunk is looked at (localpty.go:67).
- A last line that is longer than the kept end, and that has a tag where that end begins,
  is parsed as a metadata line (main.go:941).
- `streamWriter` flags output of exactly the limit as truncated, `limitedBuffer` does
  not (main.go:862, dockerapi.go).

Files:

- A deletion of a named link to a directory empties that directory and fails at the
  link itself (fsprovider.go:229).
- The cursor of a listing is an offset: when the directory changes between two pages,
  entries are skipped or come twice. A limit between 0 and 1 becomes 0, and the host is
  handed the same cursor for ever.
- `fsWrite` without `create` keeps what is longer than the new data. A download that
  fails leaves a partial file on the user's machine.
- The page looks at no answer's `success` in `uploadToRemote`: after a failed write it
  sends the rest and says "Upload complete". `DoneIsComplete` excepts uploads the
  plugin answered with a failure. After a chunk that could not be decoded the upload is
  unknown, and the next request ends it with an error.
- An upload the page gives up (a local read error, a reload) stays registered with
  its remote file open.
- Two files of one drop may go to two directories, when the terminal moves between
  them; and the terminal moves the panel's target directory even when the panel does
  not follow it, until the next listing.

The page:

- A page that is reloaded while a command runs, or two pages on one connection,
  take each other's output and exits: an event names the connection, not the
  command. `TerminalPanel` calls this `disturbed`; `OwnOutput` and `IdleMeansDone`
  except it, `PartsSettle` does not.
- A listing asked for before the terminal moved and answered after it takes the panel
  back (`openFiles` has no generation counter).
- The panel becomes visible when an upload ends though it was closed meanwhile
  (`openFiles` sets `filePanel.hidden`, not `filePanelOpen`).
- An action on a container that succeeds after its dialog was closed refreshes nothing,
  and the panel lists the state from before it (ui/index.html:2422).
- When the shell ends under the confirmation of a removal, the dialog is closed, the
  confirmed removal is asked for no id and refused, and details opened meanwhile stay
  empty until they are refreshed (ui/index.html:2398, 2360).

## Not modelled

- **Root escalation** (root.go) but for the marker search of its handshake, which is in
  `CommandStream`: nothing calls `configureRootEscalation`, so no request reaches it.
- **Dialling and authentication** (ssh.go, before a session exists): one call that
  succeeds or fails, which is `OpenPty` and `OpenPtyFails` of `ShellSessions`.
- **The framed transport** of the SDK, which `main` does not choose.
- **The metadata files** of the local wrappers (`readMeta`): an input of `ShellExec`
  (`meta`), with the directory they hold or none.
- **Panics in `execCommand`**: nothing in it is known to panic. One would be recovered by
  `Handle` and leave `busy` set; `SlotFreed` says nothing of it.
- **Text**: which completions are offered, the parsers of docker's output, the
  configuration form, URIs, the text of scripts and wrappers (their effect - directory
  and exit status - is an input). These are functions without state, where a table of
  examples says more than a model.
- **Rendering**, history, the completion popup and the interactive terminal (xterm) of
  the page; the keyboard focus, which can leave a dialog by Tab (the Docker model lets a
  click reach only what no dialog covers).
- **Data races on a single field** (`cwd` is written without the mutex in places): an
  access is taken as atomic.
- The Windows console probes, the folder chooser, packaging and the SSH test tool.

The order in which the host delivers events is taken from the one pipe they are written
to; answers may be settled in any order with respect to them.

## Plan

What is left that would add something:

1. Two pages on one connection in `TerminalPanel`, if events come to name their command.
2. The root escalation, once a request reaches it.
