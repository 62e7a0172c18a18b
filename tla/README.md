# irctest: models, checks and proofs

irctest runs IRC servers and clients as child processes, talks to them over
sockets, and tests them with pytest. This project models three things:

* the machinery that must work for a test to mean anything: the controllers that
  start and stop software, the registry of ports that parallel workers share, the
  services, and the mocked clients through which tests see a server;
* the tests of clients, with the methods of `BaseClientTestCase` they use;
* the tests of servers, as sequences of steps against a server that handles the
  lines of its clients in any order, does what it likes where specifications
  leave it a choice, or has a fault.

## 1. Inventory

| component | source (`irctest/`) | state | operations | modules |
|---|---|---|---|---|
| port registry | `basecontrollers.py` 100-132, 172-180, `irc_utils/filelock.py`, `irc_utils/junkdrawer.py` | `irctest_ports.json`, its lock, `_own_ports` | `get_hostname_and_port`, release in `kill` | `PortRegistry`, `PortAllocator`, `PortRegistryProofs` |
| UnrealIRCd start and stop lock | `controllers/unrealircd.py` 140-172, 298-328 | a file lock of the machine | `run`, `kill_proc` | `UnrealIrcd`, `PortRegistryProofs` |
| life of a server test | `cases.py` 130-143, 557-589, `basecontrollers.py`, `controllers/*.py` | `proc`, `port_open`, `services_controller`, `directory`, the processes | `setUp`, `run`, `wait_for_port`, `restart`, `terminate`, `kill_proc`, `kill`, `tearDown` | `ServerController`, `ServicesProofs` |
| services readiness, account registration | `basecontrollers.py` 444-556 | `services_up`, a client of its own | `wait_for_services`, `getNickServResponse`, `registerUser` | `Services`, `ServicesProofs` |
| mocked client | `client_mock.py` | `inbuffer`, the socket | `sendLine`, `getMessages`, `getMessage` | `ClientMock`, `FifoChannel`, `ClientMockProofs` |
| `assertDisconnected` | `cases.py` 664-672 | none | two calls of `getMessages` | `Disconnection`, `DisconnectionProofs` |
| clients of a server test | `cases.py` 586-808 | the dict `clients` | `addClient`, `connectClient` with `@retry`, `removeClient`; the loops on `getMessage` | `TestClients`, `TestClientsProofs`; what they exchange: `ServerTests` |
| client tests | `cases.py` 357-531, `client_tests/` | two listening sockets, the connection, the capabilities | `acceptClient`, `readCapLs`, `negotiateCapabilities`, `tearDown`, every test | `ClientScripts`, `ClientCases`, `TestClientsProofs` |
| tests of servers | `server_tests/` | what a test has left to do | the test methods | `TestSteps`, the modules `*Tests`, `ServerTests`, `ServerTestsProofs` |
| message matching | `patma.py`, `cases.py` 145-330 | none | `messageDiffers`, `match_*` | `IrcMessages` (regular expressions are sets of values) |
| test outcomes | `runner.py`, `cases.py` 800-985, `conftest.py` | none | exception to outcome | the verdicts of `ServerTests` |
| SCRAM | `scram/` | stage of the exchange | `response` | as the client tests use it: `ClientScripts` |
| Sable | `controllers/sable.py` 24-53, 407-799 | three processes, two `services_up`, a thread for each | `run`, `wait_for_services`, `registerUser`, the inherited `kill` | `Sable`, `SableProofs` |
| dashboard, reports, workflows | `dashboard/`, `report.py`, `make_workflows.py` | files | batch conversions | not modelled |
| message parser, capability and SASL helpers | `irc_utils/` | none | text to records | not modelled |
| other controllers | `controllers/` | as the life cycle | configuration templates | not modelled |

How they interact. A worker process runs one test at a time. `setUp()` makes a
controller, which takes ports from the registry (a file all workers share), writes a
configuration in a temporary directory, starts the software in a session of its own
and, with services, polls its port before it starts a second controller. The test
then adds mocked clients, each of which waits for the port, and asserts on the
messages they receive. `tearDown()` kills services, server, then closes the clients.
A client test is the other way round: it listens, its controller starts a client that
connects, and the test plays the server.

What is hard to test here:

* workers interleave inside `_used_ports()`, and may die there;
* a port is probed and bound at different times by different processes;
* an exception in `setUp()` skips `tearDown()`;
* a process may crash, ignore SIGTERM, or have helpers in its group, and may be
  reaped at an unexpected place;
* services link late, answer late, or die while a test waits for them;
* with Sable, two threads wait at once, and either may fail;
* `recv()` cuts the stream anywhere, and `getMessages()` has five ways to end;
* the server may close the connection between two steps of a routine;
* `@retry` repeats a call whose first attempt left state behind;
* a client under test may exit between two calls of the test, with a connection
  half open;
* a server handles the lines of two clients in an order the test did not choose, and
  an assertion on the absence of a message may come before the message;
* a test waits without a time limit for a message a server may omit.

`PROJECT.json` lists each hazard with its line and the properties about it.

## 2. Modules

### PortRegistry, PortAllocator and UnrealIrcd

One action per step between which another worker may run: entering the `with`
statement (`Enter`), `exists()`/`write_text("[]")` (`CreateFile`, `FinishCreate`),
`read_text()` (`ReadFile`, `ReadTorn`), the body (`GetPort`, `ReleasePorts`,
`ReleaseFails`), and the truncation and writing of the file (`OpenFile`,
`WriteFile`). `pc[w]` says where worker `w` is, `usedPorts[w]` is its local
variable, `ownPorts[w]` is `_own_ports` of its current controller. The file is
`fileState` (absent, torn, complete) and `onDisk`. `XDist` decides, as
`filelock.py` does, whether the lock is one. Around it: the server binds its port
(`ServerListens`), a test is abandoned in `setUp()` (`Abandon`), a worker dies
(`Crash`): its lock goes, its server and the file stay.

`Candidates` models `find_hostname_and_port()` and the loop at
`basecontrollers.py:122` together: the kernel proposes a port without a socket, and
the loop drops those in `used_ports`. `Raise` is what any exception leaves: the lock
is released, nothing is written, and the controller is dropped with its ports.

`PortAllocator` is what workers expect of the registry: an object that gives a port to one
worker, takes a worker's ports back, and loses some of them or all at a stroke. In the
refinement `ImplementsAllocator` a worker owns `_own_ports` and, while it releases them, those that
the file still lists (`Held`); lost is what is in the file, or about to be, and nobody's
(`LostPorts`). A call of `get_hostname_and_port()` takes effect when the body of the `with` statement
chooses the port, one of `kill()` when the file is truncated or, if the worker dies before that, when it
dies. A worker that dies between truncation and writing leaves a file nobody can parse: all
ports without an owner are lost.

`UnrealIrcd` puts the controllers of UnrealIRCd on top of the registry, all actions of
which it has. `run()` takes the lock of the machine, starts the process and keeps the
lock until `wait_for_port()` returns or raises (`StartsServer`, `RunReturns`,
`RunRaises`); `kill_proc()` takes it to stop the process (`StopsServer`,
`KillProcReturns`, `KillProcRaises`), and `kill()` then releases the ports. A worker
that dies drops both locks.

### ServerController and Services

One server test: `pc` is what the test is doing, `after` why. The processes are
a group per controller: a leader (`absent`, `running`, `zombie`, `reaped`) and
perhaps a helper. `Reached(g)` is what `os.killpg(os.getpgid(pid))` signals:
everything in the group while the leader's pid exists, nothing once it was reaped.
`wait_for_port()` is `CheckIsAlive`, `ConnectionRefused` or `Connects`, then `SendsChkport`, the loop
of its handshake (`ReadsOther`, `SendsBlank`, as often as the server likes), `PortIsOpen` and
`WaitReturns`; a timeout of `create_connection()` and a `sendall()` on a broken connection raise out
of it (`WaitRaises`), as they are caught nowhere. `kill_proc()` is `SendTerm`, `LeaderWaitedFor`,
`EscalateToKill`, `KillExpires`; the rest of `kill()` is `ReleasePorts`,
`RemoveDirectory` (or `RemoveDirectoryFails`), for the services first. `restart()`
is as in `controllers/ergo.py`, `run()` as in `controllers/inspircd.py`. The state
`errored` is a `setUp()` that raised, `broken` a `tearDown()` that raised.

`Services` extends it with the services process, its link with the server, and the
two clients that talk to it: `chkNS` of `wait_for_services()`, which is connected once
and asks NickServ until it answers, and the client of `registerUser()`, which asks once
and waits. `phase` is where this client is (connect, burst, ask, reply, quit), `inbox`
what it has not read, `requests` what NickServ has not answered, `lost` whether a
request of `registerUser()` went with a link. The link comes up, breaks with a process
and answers at any time. A synchronized `getMessages()` of these clients is one step with what it returns: `Services`
assumes that a server that runs answers the PING of each, without which they would wait for ever
(`client_mock.py:57`). `Sable` assumes nothing of the kind. `ServerController` is what a reader of a test needs to know of
its life, and `Services` implements it: every step of `Services` is one of
`ServerController` or leaves its variables alone.

### Sable

A test of Sable has a server, its services if it asks for them, and a history server if it
asks for that (`wanted`). `run()` starts them one after the other and waits for none
(`RunServer`, `RunWatched`; without a database the history server is refused,
`HistoryFindsNoDatabase`). `addClient()` waits for the port (`PortAnswers`) and, in a test
with services, starts a thread per controller (`ThreadsStart`), joins both and raises if
one of them did (`ThreadsJoined`). A history server without services is therefore not waited
for; a comment in the code says so (line 598). Each thread has a client, and so has
`registerUser()`: `does` is where it is, `conn` what the server knows of it, `heard` whether what
it waits for was there in the answers it has not read. The server tells what has joined it when
it answers, so that an answer may be stale when it is read. The clients of the services' thread and of
`registerUser()` read with `synchronize=True`, that is, until the PONG of their own PING has come
(`ServerPongs`, `HasPong`) or the connection is closed, without a time limit; that of the history server
reads for a second (`Reads`). `UserSynchronizes` is the `getMessages()` behind the 001,
`ThreadReadsReply` the 10 seconds of a thread, whose limit is only looked at between two reads, `UserReadsReply`
the 100 looks of `registerUser()`. The processes join, answer, and exit
when they like. `kill()` is that of the base class (`SableKills`): services, then server.
`MCServices` is the disjoint union: a test is one of `Services` or one of `Sable`.

### FifoChannel, ClientMock, Disconnection

`FifoChannel` is what tests expect of a connection: lines arrive once and in order,
and only PONGs may disappear. `ClientMock` is the code: `net` is the stream of lines
not yet received and `cut` how much of its first line was, so that `recv()` may
return any prefix; `data`, `messages`, `inbuffer` are the variables of the code;
`call` is the running call. `Returns` and `Raises` are its ends, used by
`ReceiveChunk` (the parse loop: a garbled line, a 451, the PONG, or more to come),
`ReceiveTimeout` and `ReceiveEnd`. A `getMessage()` runs `getMessages()` inside it
(`single`), then pops. `ImplementsFifoChannel` is the refinement, with
`queue <- inbuffer \o messages \o data \o net`.

`Disconnection` adds `assertDisconnected()`, which calls the actions of
`ClientMock`. Its runs check the properties of both modules.

### TestClients, ClientScripts, ClientCases

`TestClients` is the dict of clients of a server test. Of a connection only `up` or
`closed` is kept. `NewName` is `max(used_ids + [0]) + 1`; `int()` of a word raises
(`AddRaises`). `connectClient()` adds a client, then registers or fails, and the client stays
in the dict: with `ConnectionClosed`, which is retried once, or with what is not retried, a connection
that was refused or reset, an assertion, or a `ValueError` (`RegistrationFails`).

`ClientScripts` has the tests of `client_tests/`, each a sequence of steps with the
habits it leaves to clients (which capabilities they ask for, whether they come back
without TLS, ...) and the faults it must notice. `ClientCases` runs them: the test side
has one action per method of `BaseClientTestCase` that blocks or changes something
(accepting from the backlog of a socket, the TLS handshake, reading a line, answering,
`tearDown()`), and the client connects, sends, reads, closes and exits when it likes.
`hasFile` distinguishes a connection whose `conn_file` was made from one whose handshake
raised, which is what `tearDown()` depends on. `MCTestCases` is the disjoint union of the
two: a test case is a server test or a client test.

### The tests of servers

`TestSteps` is the vocabulary: a test is a sequence of steps, which are the calls of
the methods of `BaseServerTestCase` and the assertions on what they return.
`ChannelTests` (part, join, kick, topic, quit, messages), `MembershipTests` (invite, names,
statusmsg, channel case mappings, echo-message, multi-prefix, extended-join, account-tag,
away), `PresenceTests` (who, whois, setname, kill, wallops, oper, away-notify, invisible),
`MonitorTests`, `ModeTests` and `RestrictionTests` (channel and user modes), `SessionTests`
(cap, registration, SASL), `HistoryTests` (chathistory, redaction, read markers),
`ExtensionTests` (labeled responses, message tags, bot mode), `MetadataTests` (metadata of
users and channels), `QueryTests` (list, whowas, lusers, and the regression tests) and
`DraftTests` (multiline, channel forwarding and rename, RELAYMSG, roleplay) are the tests, one
definition per test method, named as it is.

`ServerTests` runs one of them. `toServer` and `toClient` are the lines on their way, and
`inbuffer` what `getMessage()` left. Every step that sends does only that; a step that
receives with `synchronize=True` waits until the server has handled all lines of that
client; the loops without synchronization (`getRegistrationMessage()`, `getCapLs()`,
`skipToWelcome()`, `joinChannel()`) take messages as they come and answer PINGs. The server
takes a line of any client at any time (`ServerHandles`).

`IrcState`, `IrcChannels`, `IrcUsers`, `IrcMetadata`, `IrcSession`, `IrcDrafts` and
`IrcServer` are this server, each one extending the one before it. It is
external to irctest, written from what the tests ask of it; `choices` are the options it
takes where a test accepts several answers, and `fault` is what it does wrong: a message it
never sends (`Silent`), a command it ignores (`Deaf`), a refusal it omits (`Lenient`), a
message it sends to everyone (`Leaky`), or a fault of one test.

The end of `ServerTests` says what the text of a test settles by itself. Each position of a script
has a label: the clients whose lines the server may not have handled when the test gets there
(`late`), and those that may have messages in `inbuffer` (`left`), from which `getMessage()` returns
without asking the server. `Settled` holds of a script if every assertion of an absence comes where
only the client it reads can be late, and that one is waited for. `MCTestsAreSettled`, which TLC
evaluates, says that 94 of the 100 tests that assert an absence are settled (294 others assert
none); the six others, `MCUnsettledTests`, rely on a message that the server sends them before they read.

### Faulty variants

Definitions introduced by "Faulty variant" are not part of a specification. Each is
a plausible mistake in the definition that follows it, and breaks a property when it
replaces that definition: this shows that the property says something of the code.

## 3. Runs

| run | shows | bounds |
|---|---|---|
| `PortRegistry` | under xdist, with UnrealIRCd: no shared port, no lost registration, no `KeyError`, no leak but of abandoned tests; servers start and stop one at a time; who holds a lock can go on, and no call waits for ever; the file, its lock and its readers implement `PortAllocator` | 2 workers, 4 ports, 2 calls each, 1 crash anywhere |
| `PortRegistryUnlocked` | two plain sessions: calls raise, but end | 2 workers, 4 ports, 2 calls each, 1 crash |
| `Services` | clean tear down, restarts, truth of `port_open` and `services_up`, end of every wait and of the tear down; of Sable: nothing is used before both threads found it, only the history server outlives a test, and calls wait for nothing but what a running server owes them | services or 2 stops in the test, 2 crashes, helpers in both groups, 2 polls, 3 questions to NickServ; Sable alone, with services, or with both, 2 exits, 2 tries |
| `Disconnection` | order, completeness of synchronized calls, `assertDisconnected()` | 2 lines, 2 commands, 2 calls and the assertion, every failure |
| `DisconnectionChannel` | the refinement of `FifoChannel`, and that calls end | 2 lines, 1 command, 2 calls, careful callers |
| `TestClients` | a chosen name is fresh, clients have the numbers of their calls; a conforming client passes its tests, a faulty one does not, `tearDown()` raises nothing after a test that passed, and tests end | 3 calls, each perhaps retried, a word, two given numbers; 16 client tests, 5 connections, 1 exit at any time |
| `ServerTests` | every modelled test: a conforming server passes whatever it chooses and in whatever order it handles lines, a faulty one does not, nothing is awaited for ever, absences are no matter of timing | 4 clients, all tests, each of their faults, every set of choices |

Why the bounds are enough. A lost update or a collision takes two workers and one
call each; the second call lets a release meet what the first one of the other
worker left. There are as many ports as calls, so that `get_hostname_and_port()`
never runs out: with fewer it would spin, and only then (`HolderCanMove`, and theorem
`PortsSuffice`). Two crashes are those of
a server and its services, or of a server and of its successor. `MaxAsks = 3` lets
NickServ be asked before the services link, between the link and their answer, and after;
`Notified` gives the server's own NOTICEs to the client of `wait_for_services()`, which is
the one that could take them for an answer. A stale PONG takes a call that raised and a
later one; a line lost or doubled between `inbuffer` and the socket takes a `getMessage()`
and a `getMessages()`, with two lines. Four connections are what the longest client test
asks for; the fifth is one too many. No test of servers has more than four clients.

Fairness. Workers and tests keep running: weak fairness of the steps they take by
themselves, never of the choice to call something. `FairSpecUnreal` relies on the time
limits of `wait_for_port()` and of `wait(5)`: a server that starts listens or makes `run()`
raise. (`wait_for_port()` has none in the loop of its handshake: UnrealIRCd is taken not to keep it there,
and `WaitEnds` of `ServerController` is about servers that do.) In `FairSpecServices` signalled processes exit, unless deaf to SIGTERM, and the
server answers what it is asked, PINGs included; the services need not link or answer. The server of
`ClientMock` answers; it need not listen, write, or close. In `MCSpec` the test goes on and
clients answer what they receive, unless they exit. In `FairSpecSable` the threads and the calls of
the test go on, and nothing else has to: nodes need not link, nor the server greet, answer or let go. What
the reads and joins without a limit then wait for is in the property: `SableCallsEnd` excuses a run in which a server
that runs owes one of the clients, for ever, the end of its registration, the PONG of a read, or the end of the
connection after QUIT (`ServerOwes`). Every other wait is ended by a time limit of the clients (`tries`) or
by the end of a connection. No fairness is needed of a worker's
turn at a lock beyond weak fairness: the others make a bounded number of calls.
`ServerTests` has no fairness: that a test does not wait for ever is there a property of
states (`NothingAwaitedForEver`).

Deadlock is not checked: a test, and the bounded number of calls, may be over.

## 4. Where the code departs from what it says

| run | property | what happens |
|---|---|---|
| `ClientMockLoss` | `NoSilentLoss` | `getMessages(synchronize=False)` that times out returns `[]` and drops what `getMessage()` had left in `inbuffer` (`client_mock.py:54,63`) |
| `ClientMockHang` | `CallReturns` | a chunk that ends between CR and LF is never parsed: `new_data` is tested, not `data` (`client_mock.py:74`) |
| `DisconnectionFalseAlarm` | `NoFalseAlarm` | a last line before the end of the connection makes `assertDisconnected()` fail (`cases.py:667`) |
| `ServerControllerOrphan` | `KillSignalsGroup` | helpers of a leader that was reaped are not signalled (`basecontrollers.py:147`) |
| `ServerTestsFalseAlarm` | `ConformingServerPasses` | eight tests fail conforming servers: `_connect_bob()` does not wait for bob's QUIT (`chmodes/account_extban.py:65`), `testPlainInfiniteMessages` meets the ERROR before the end of the connection (`sasl.py:397`), `testRegistrationDuringSasl` sends a PING right after `CAP END` (`sasl.py:943`), `testMessagesToSelf` reads the answer to CHATHISTORY with one `getMessages()` (`chathistory.py:201`), `testGetTwoUnsetValid` wants the nick where `*` was asked for (`metadata_3.py:98`), `testListOne` passes over a pseudo-channel only after the channel (`list.py:86`), `testWhowasNoParamRfc` asks for the nick of another test (`whowas.py:310`), `testLuserOpers` takes a missing count of zero and then does not (`lusers.py:305`) |

Seen while modelling, without a run of their own:

* `addClient()` without a name "uses the lowest unused non-negative integer", says its docstring
  (`cases.py:595`), but the code (603) chooses `max(used_ids + [0]) + 1`: the first client of a test is
  1 although 0 is unused, and a number that was freed by `removeClient()` is passed over unless it was the largest. The code
  is right, as the tests write down 1, 2, ... for their clients (`NumberedByCalls`); the docstring is wrong
  from the first call on;
* after a retry, the client a test calls 1 is number 2 (`cases.py:93,603`); `NumberedByCalls`
  therefore speaks of calls before the first failure;
* a test that `run()` refuses leaves its port in the registry (`cases.py:574`);
* `registerUser()` takes any line of the server after its first 376 or 422 for an answer, and
  waits for ever if the services die with its request (`basecontrollers.py:551-554`);
  `RegistrationEnds` excludes the latter (`lost`);
* the handshake loop of `wait_for_port()` appends `b""` for ever if the server half-closes, and reads for
  ever if it keeps talking (`basecontrollers.py:402`): this is what `WaitEnds` excepts. A reset of its `sendall()`
  and a timeout of its `create_connection()` leave it as exceptions (393, 399);
* the threads of Sable are joined without a limit, and their reads wait for a PONG without one
  (`controllers/sable.py:51,693,705`, `client_mock.py:57`): a server that runs and does not answer a PING
  hangs `addClient()`. This is what `SableCallsEnd` excepts;
* `terminate()` waits without a time limit (`basecontrollers.py:258`);
* the socket without TLS of the client tests has no time limit, so a client that exits hangs
  them (`client_tests/tls.py:146`, `cases.py:395`); when the first `wrap_socket()` raises,
  `tearDown()` meets an `AttributeError` and leaves the sockets open (`cases.py:385`);
* `testUntrustedCertificate` fails a client that refuses the certificate in the handshake, while
  `testStsInvalidCertificate` fails one that does so after it; `testPlainNotAvailable`
  requires a client to ask for `sasl`, though its docstring lets it give up before;
* code that is never reached: `connection_registration.py:61` compares the command with the
  word `"ERR_PASSWDMISMATCH"` instead of the numeric, and line 157 compares with `"MODE"` a
  message that was just found to be 376 or 422;
* `testLineTooLong` asserts that a client gets nothing which is not on the channel
  (`messages.py:145`); `testQuitErrors` keeps the commands of the last `getMessages()` only, so
  that a message after the ERROR hides it (`connection_registration.py:205`);
* Sable: the history process that `run()` starts (`controllers/sable.py:541-548`) is not stopped by
  `kill()`, which knows `services_controller` only: it outlives every test that asks for it, and may
  still write where `rmtree()` deletes; `OnlyHistoryOutlives` says that nothing else does;
* the final loop of `testBasic` (`message_tags.py`) checks what alice received twice, and never bob's echo;
  `testRedactTagmsg` (`redact.py`) asks CLIENTTAGDENY about `+draft/reply` and sends `+draft/react`;
  `testSetGetUser` (`metadata_3.py`) ignores its `get_target`;
* `testWhoisAccount` (`whois.py:364`) sends its second WHOIS as client 1 and reads the messages of
  client 2, so that no fault of a server makes this assertion fail;
* an UnrealIRCd that outlives `wait_for_port()`, `wait(5)` or its worker starts or stops outside
  of the lock.

## 5. Proofs

`PortRegistryProofs` proves, for every number of workers, ports, calls and crashes,
`Spec => []P` for every safety property of `PortRegistry`, assuming `Serialised`: the
workers run under xdist, or there is one. (Without it, `PortRegistryUnlocked` shows
that `ReleaseFails` and `ReadTorn` do happen.)

None of the properties is inductive: each must say what the worker inside the `with`
statement knows. `IInv` does: `LockInv` (the lock is held by exactly the worker
inside), `ReaderInv` (the file is what that worker read, or torn by it), `OwnedInv`
(every owned port is in the file, or in the set about to be written; `op` and `pc`
say which), `ListeningInv` (the same of ports with a socket), `AbsentInv` (nobody owns
a port before there is a file), `TornInv` and `LeakInv`. `Mutex` follows from
`LockInv` and `Serialised`; then each action preserves each conjunct, in one step per
action of `StepIInv`. Types need no such help: `TypeCorrect` holds without `Serialised`, as
`StepTypeOK` shows action by action.

From the same invariant follows that the registry implements `PortAllocator`
(`ImplementsPortAllocator`). A step maps to `Allocate` (the body chose a port), `Free` (a file
that will not list them any more was opened), `Lose` (an exception, an abandoned test, or a
death), `Break` (a death while the file is torn) or nothing. `RInv` adds to `IInv`
what the mapping depends on: `ChosenInv` (between the body and the rewriting, `used_ports` differs from the
file by ports of the worker, and never by a port of another) and `EmptyInv` (a file in the making lists
nothing).

For controllers of UnrealIRCd, the module proves their types (`UnrealTypeCorrect`) and
`OneStartsOrStops`, for any number of workers that may die anywhere. `StartStopInv`: whoever
starts or stops a server holds the lock of the machine and nobody else does, and a worker that waits
for that lock is not inside `_used_ports()`, so that the two locks are never awaited together.
The latter also gives `UnrealImplementsRegistry`: every step of `UnrealIrcd` is one of
`PortRegistry` or leaves its variables alone, so that all of the above holds of its controllers.

It gives `HolderCanMove` as well: whoever is inside `_used_ports()` has a step to take, and whoever holds the lock of
UnrealIRCd has one or waits for the former (`LockHolderCanStep`, `HoldersCanMove`). The one thing inside that can
spin is the loop for a port. `SpinsWithoutPorts` says when: each port is that of a live controller or was leaked.
`PortsSuffice` rules that out if there are more ports than calls, by counting: `CountInv` maps the calls
made so far onto the ports that are taken, wherever their workers died, with a lock or without.

`ServicesProofs` first proves the four safety properties of `ServerController`,
`RestartsAlone` being an action property. They assume only the types of the
constants: any limits on crashes, polls and restarts, any kinds of stops in the test,
software that refuses or is deaf. `CleanTearDown` speaks of the end of a chain of steps, so
`IInv` carries what each step leaves: `ProcInv` (without `self.proc` a controller has no
process, not even a zombie), `StoppingInv` (why `kill_proc()` runs, and of whom),
`ServicesInv` (once the server is being killed its services have nothing left),
`ReleasedInv` (ports go before the directory). `PortOpenInv` says of each place in
`run()` where `port_open` may be true. `RestartsAlone` follows from `ProcInv` in one step.

It then proves that `Services` implements `ServerController`
(theorem `ImplementsServerController`), by cases on the actions: those of the clients, the link and
NickServ leave its variables alone. So everything proved of `ServerController` holds of
`Services` too. It proves further `TypeOKServices`, `ServicesUpIsCurrent` and
`RefusedOnlyIfGone`. `ServicesUpIsCurrent` is not inductive: that `services_up` was earned
depends on a NOTICE in `inbox` being an answer of NickServ, which was on a link.
`ServicesInvariant` therefore has, with the invariant of `ServerController`, `EarnedInv`
(what an answer in `inbox` presupposes), `PhaseInv` (which lines a client in each phase may
have, and which controllers have been started), `SetUpInv` (where the test is once it
has services, or while it has none yet), `RefusedInv` (what `registerUser()` reads while it
waits, if the server itself is silent), and the types.

`DisconnectionProofs` proves `AcceptsOnlyClosed` and `ClosedBeforeIsNoticed`, for every
number of lines, commands and calls, and with all failures of `ClientMock`. Soundness
takes `CaughtInv`: only the end of the connection raises what the assertion catches.
That two calls are enough is the deeper fact. `TokenInv`: a line that was written
answers a PING that was already sent. So if the server had closed before the first
call, no line in the socket carries its token (`FirstInv`), its PONG cannot be
found, and it returns only after it has read everything; the second call then finds
the end of the connection and nothing else (`SecondInv`), and must raise. `RoutineInv`
and `OutcomeInv` say that nobody else calls in between. The lemmas on `SubSeq` and on
concatenation say that a property of all lines survives any cut of `recv()`.

`ClientMockProofs` proves what a test may rely on: its types, `DeliveredInOrder`,
`SyncCapturesReplies` and the refinement of `FifoChannel`. What the loop over lines leaves
of a chunk (`Parsed`) takes an induction over its lines; as no theorem with an operator
parameter can be used, `SetInduction` (of `BoundedInduction`) derives induction up to `k` from the pigeonhole
theorem: a set that contains 0 and the successor of each of its members, but not `k`, would
be mapped one to one into itself without 0. `OrderInv` says that the five places where a line
may be (delivered, `inbuffer`, `messages`, `data`, `net`) follow each other, so that forgetting
some of them never disorders the rest. `SyncCapturesReplies` needs that a PING is answered
once (`AnswersInv`), and that the PING of the running call is the last request of the client,
or answered with no reply behind it (`WaitInv`): a stale PONG cannot end the call early.
The refinement assumes `Regular`: careful callers, who ask without synchronization only
when `inbuffer` is empty, no garbled line or 451, no chunk that ends between CR and LF. These
are the cases of `ClientMockLoss` and `ClientMockHang`. A chunk then has at most one PONG that
is not handed on, so every step of the client is one of the channel.

`TestClientsProofs` proves that a name `addClient()` chooses is not in use
(`AutoNameIsFresh`, an action property) and that clients have the numbers of their calls
when there was no retry, no name given and nothing removed (`NumberedByCalls`), for any names,
any number of calls and any failures. Freshness needs that the `max()` of the source is one: a
finite set of numbers that is not empty has a largest member (`MaxOfNumbers`, by `SetInduction` on
its size). The numbers need `CountInv`: while each client ever added belongs to a call without
a name and is still in the dict, the dict is `1..n` and `connected` counts up. `BoundInv` bounds
the names by the steps, which makes the values of `added` finite for the type invariant.

`SableProofs` proves of `Sable`, for any configurations and any number of crashes and of tries, its types
(`SableTypeCorrect`), that `wait_for_services()` returns only when all that the test asked for was found
(`WaitedForAll`), and that `kill()` leaves nothing but the history server (`OnlyHistoryIsLeft`). That a test
goes on with `services_up` everywhere is what two threads did: `CallInv` says where each client may be
(a thread is at work in `wait_for_services()` only, and if it ended without an exception it has set
`services_up`), `EarnedInv` that what it was set for was there when the answer was written and is still there
unless a process ended, `SetUpInv` that every controller the test asked for was made before, and that nothing
runs that has none. `KillInv` has the order of `kill()`. Each lemma takes one step per action.

`TestClientsProofs` also proves of the client tests, for any client that may do and crash as it likes and for any
`MaxConnections` and `MaxClientCrashes`, their types (`CaseTypeCorrect`) and
`PassedIsTornDown`. The latter is about the tests as much as about the methods: `tearDown()` raises if a
handshake left a connection without `conn_file`, which a test may expect
(`assertRaises()`) without failing. `ScriptInv` says what saves them: what is left of a script expects a
connection to fail only if one with its file was accepted before (`RaisesLate`), in this script or already
(`hasFile`). That all 16 scripts are of that kind is proved from their parts (`ClientTestScripts`, and the lemmas
on `CalmSeq`), since most are concatenations. `FileInv` says that a connection has its
file unless its handshake is going on or the test failed.

`ServerTestsProofs` proves of the tests of servers what does not depend on the server, which is left
a black box: `ServerHandles` and `ServerRegisters` are used only for the queues they may touch. The tests are
arbitrary too: `TestsAssumption` says that a step has a client and checks with outcomes, that a branch leads to
a place in its script, and TLC evaluates it for the modelled ones. `TypeCorrect` takes `PosInv` (what is left is the end of the
script) and `QueuesInv`. `LinesSettled` says that a settled script (`Settled`) asserts an absence only when the
server has handled all lines of all clients. Its invariant `LabelInv` is the soundness of the labels: the label of
the position accounts for the lines on their way and for what is left in `inbuffer`. `AccountsAfter` shows it of each
kind of step, and the server only makes queues shorter. `AbsenceSettled` concludes `AbsenceIsSettled` itself
for tests that are all settled, with a server that answers for its history at once (`irc.asked` is empty); what the
six unsettled tests and such servers do is left to TLC. `ExactPattern` says what
an assertion means: a pattern without a wildcard accepts exactly the message it spells out.

### Why calls end

Fairness and ENABLED are out of the prover's reach. What is left of "this call ends" when fairness is taken
out of it is proved: that a wait is never in vain (a state in which the guard of some step holds), and that the call is
made of a bounded number of such steps (a measure that each of them makes smaller, and that nothing else which may
happen makes larger).

| liveness property | never in vain | bounded by |
|---|---|---|
| `EveryCallReturns` | `LockHolderCanStep`, of serialised workers (without a lock, only TLC) | `CallsAreShort`: 7 steps, lock or not, torn file or not |
| `StartAndStopEnd` | `HoldersCanMove`, of serialised workers | `StartsAndStopsAreShort`: 9 steps |
| `WaitEnds` | `WaitIsShort`: the same measure | 6 + 2 * `MaxPolls`, and a step more for each round of the loop of the handshake, for which a process of the server must hold the connection |
| `TearDownEnds` | `TearDownIsShort`: no step of `kill_proc()` needs the process to exit | 10 |
| `ReadinessWaitEnds`, `RegistrationEnds` | `ServicesCallsMove`, if a server that runs answers PINGs | `ServicesCallsAreShort`: 47 + 6 * `MaxAsks`, the second call included |
| `SableCallsEnd` | `SableCallsMove`: a call that cannot go on waits for a server that runs and owes one of its clients a line | `SableCallsAreShort`: 70 + 9 * `MaxTries`, the PONGs included |
| `CallReturns` | `CallsAreAnswered`, if no chunk ends between CR and LF | `ReadingIsShort`: 2 steps a line, 3 a pending request; a line the server writes by itself adds 2 |
| `ClientTestEnds` | `TestsWaitForClients` | `TestsAreShort`: 2 for each step of the script, 1 for each line that a step passes over |

The measures are easy; where the waits stand is not.

* `TearDownInv`: in a tear down, `kill()` only comes to `kill_proc()` with a process that was started, of
  the services first.
* `BurstInv`: a client that waits for the end of a MOTD has it or a PING in `inbox`, or the server has still to greet
  it, or the connection is closed. `WaitingInv`: only `registerUser()` waits for NickServ, which has its request and a
  link, unless the request went with the services (`lost`).
* `ConnOf`, `WorkInv` and `RunsInv` tie each client of a test of Sable to what the server knows of it, and to the call it is part of;
  a connection that is not closed has a server that runs.
* `CutInv`: as long as no chunk ends between CR and LF, what the loop of `getMessages()` keeps in `data` is the beginning
  of a line of which the rest is in the socket. The PING of the running call is the last request until it is
  answered (`SyncInv`), so there is something in the socket, or the server has the PING. `ClientMockHang`
  shows what such a cut does.
* `WaitInv`: every script runs its client and accepts it before it reads (`TestsOpen`, of the 16 scripts), and behind an
  open connection is a client that is alive, so that a test that waits for a line waits for somebody. What remains are
  the waits of `MayWaitForEver`: for a client that is alive and silent, and at the insecure socket.

The types of `PortRegistry`, `UnrealIrcd`, `Services`, `ServerController`, `Sable`, `ClientMock`, `Disconnection`,
`TestClients` and `ClientCases` are theorems that no run checks again.

Only model-checked:

* liveness itself, that is, the fairness of the table above: `StartAndStopEnd`, `EveryCallReturns`, `CallReturns`,
  `TearDownEnds`, `WaitEnds`, `ReadinessWaitEnds`, `RegistrationEnds`, `SableCallsEnd`, `ClientTestEnds`;
* `ConformingClientPasses`, `FaultyClientIsNoticed`, `ConformingServerPasses`, `FaultIsNoticed` and
  `NothingAwaitedForEver`: each is about concrete scripts (16 of tests of clients, 394 of tests of servers) against all that a modelled client
  or server may do. A proof would go through them one by one, which is what TLC does: there is no larger instance.

## 6. Not modelled

* Of Sable: the certificates and files that `run()` writes, helpers, and processes that ignore SIGTERM,
  which `ServerController` has. The `registerUser()` of Ergo, Atheme and Dlk, and websockets.
* Servers that open their port after their controller was dropped, in `PortRegistry`.
* `dashboard/`, `report.py`, `make_workflows.py`: batch programs that turn files into files.
* The message parser and the helpers of `irc_utils/`: data the models abstract from.
* Of the tests of servers, these files: `account_registration.py`, `bouncer.py` and `ergo/` (accounts of
  Ergo and its services), `readq.py`, `buffering.py` and `websocket.py` (bytes on the wire, which
  `ClientMock` has), `utf8.py` and `confusables.py` (names character by character), `time.py`,
  `pingpong.py`, `help.py`, `info.py`, `links.py`, `isupport.py` (one command, and the format of what it
  answers), the older `metadata.py`, and `znc_playback.py`. Two tests of `read_marker.py` that need
  services, the two of `list.py` that wait for minutes, `testEmptyNick`, `testISupportToken` of
  `account_extban.py`, and the wait of `SablePostgresqlHistoryTestCase` for the database.
* In the others: decorators that skip or expect failures of one software; sleeps; names and
  masks character by character; `testNulInPassword`, the skipped tests of `who.py`, the
  Hybrid branch of `testInviteList`, `InviteNonExistingChannel*`, and the variants of `rfc1459`
  names. The burst of a registration arrives at once, `connectClient()` is one step, and so is
  `registerUser()`, which `Services` has in detail.
* SCRAM's hashes and signatures: whether a proof is right is one bit.
* The timeout of a client socket in a client test that has one, as an exact time: it may expire
  only when nothing can come any more.
