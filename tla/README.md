# Verification of the Signal relay and its clients

TLA+ modules, TLC configurations and TLAPS proofs for the programs of this
repository: a message relay (`packages/relay-server`), the Signal client library
(`packages/signal-core`) and the applications that talk through them
(`apps/sysmaint-agent`, `apps/sysmaint-web`, `apps/diag-probe`, `apps/cli`).
Line numbers below are those of the source files named.

## Inventory

| Component | State it keeps | Operations | What makes it correct | Module |
|---|---|---|---|---|
| Relay, message path (`relay-server/src/index.ts`) | tables `users`, `messages(delivered)`; in memory the `connections` map, the readyState of each socket, the snapshot of each running `deliverPending`, the sends that wait for their callback | `POST /v1/register`, `POST /v1/messages`, the `/ws` upgrade, the close and error handlers, `SIGINT` | a stored row is never forgotten, is marked only after it was written to a socket of its recipient, is not repeated on one connection, survives a restart | `RelayServer`, `Mailbox` |
| Relay, prekey directory (same file, 642-665) | table `prekeys` | upload (registered users only), fetch | the bundle fetched is the one last uploaded, and it names keys its owner still has | `PreKeys` |
| Relay, diagnostics (581-629) | `latestMetrics` | counters, histogram | nothing depends on it | not modelled |
| signal-core, sessions (`index.ts` 774-903, `store.ts` 558-609) | one session record per peer | `initSession`, `encryptMessage`, `decryptMessage`: libsignal loads the record, awaits, saves it | no two messages of a session use the same message key; no update of a record is lost | `Session` |
| signal-core, identity and prekeys (`index.ts` 413-660) | identity key, three counters, prekey records and used marks | `initializeIdentity`, `generatePreKeys`, `exportBundle`, `removePreKey` | the bundle exported names stored records; ids are not reused | `PreKeys` |
| signal-core, encrypted store and pinned identities (`store.ts` 104-367, 440-530, `crypto.ts`) | key-value table, KDF parameters, one identity key per peer | the constructor, `get`, `set`, `isTrustedIdentity`, `saveIdentity` | one key opens every row; what is kept of a peer is of the identity that was pinned | `Cli` |
| Agent (`sysmaint-agent/src/index.ts`) | `shouldStop`, `activeWs`, chat log, telemetry rows | `listenLoop`, `handleMessage`, bootstrap, signal handlers | it reconnects until told to stop; the log agrees with what it answered | `Agent` |
| Web chat client (`sysmaint-web/lib/signal.ts`) | `chatPromptQueue`, one waiter with its socket and timer | `sendPromptToSysmaint`, `waitForChatReply` | a prompt gets its own reply or an error; prompts do not overlap | `Chat` |
| Web direct messages (`sysmaint-web/lib/e2ee-chat.ts`) | received map, pending decryptions | `sendDirectMessage`, `pullDirectMessages` | a message read within the window is returned by the pull that read it | `Chat`, `Demo` |
| Demo page (`app/demo/page.tsx`) | inputs, threads, overlapping polls | send, poll, merge, restore after an error | nothing is shown twice or swapped, no typed text disappears | `Demo` |
| Web test runner (`lib/test-suite/runner.ts`, `database.ts`, `app/api/test/run/route.ts`, `app/test/page.tsx`) | `isRunning`, `currentRunId`, rows of runs and results, one event stream a run | `runAll`, `executeTestWithRetry`, `createTestRun`, `completeTestRun` | one run at a time, the lock is released, late attempts decide nothing, a bounded table | `TestRunner` |
| Probe and status (`diag-probe/src/index.ts`, `lib/state-db.ts`, `app/api/status`, `app/page.tsx`) | last CPU sample; `snapshots`, `chat_messages`, `usage_resets`; what the dashboard shows | sample, publish, store, read, reset, poll | a failed round does not end the loop; the dashboard does not go back; usage is that of its window | `Telemetry` |
| CLI (`cli/src/index.ts`) | a store per command; exit flag and timer of `listen` | one-shot commands, `listen` | see the encrypted store | `Cli`, `PreKeys` |
| Envelope and message schemas (`shared`, `sysmaint-protocol`) | none | parse, serialize | what one side sends the other accepts | `Session`, `Telemetry` |
| Infrastructure (`infra`) | none of the protocol | | | not modelled |

How they interact: clients register, upload prekeys and post envelopes over
HTTP; the relay pushes rows over one WebSocket per identity. The agent and the
web server are clients of the relay; the web server reads the agent's SQLite
database for its status pages.

Every process is a single-threaded Node event loop and every SQLite call is
synchronous, so the unit of atomicity is the code between two awaits, and between
processes one SQLite statement. What is hard to test is what happens at those
points: handlers of other sockets and requests, closes, errors, timeouts, and the
end of the process. `PROJECT.json` lists these hazards at their lines.

## Modules

| Module | Models | State and actions |
|---|---|---|
| `Mailbox` | what the relay promises | `to`, `handed`, `delivered`, `heard`: accept, hand over, mark, hear |
| `RelayServer` | the relay's message path; implements `Mailbox` | below |
| `Session` | signal-core's encryption and decryption on shared records | below |
| `PreKeys` | the prekeys of one identity, from nextCounter to a peer's session | below |
| `TestRunner` | the web test suite, its database, its event stream and its page | below |
| `Chat` | the web server as the client of one relay identity | below |
| `Agent` | the agent's loop and its concurrent handlers | below |
| `Telemetry` | from the probe's sample to the dashboard | below |
| `Cli` | processes on one encrypted store, the listener, trust on first use | below |
| `Demo` | the demo page over the direct-message routes | below |
| `MC*` | instances for TLC: symmetry, values, and the bounds named there | |
| `*_proofs` | theorems, see Proofs | |

The modules compose by contract: `Chat`, `Agent`, `Telemetry`, `Cli` and `Demo`
take of the relay what `RelayServer` shows of it (a durable mailbox, one
connection per identity that a new one supersedes, a message once per connection,
an unmarked row offered again), and of decryption what `Session` shows (a message
opens once, when its reader runs one operation at a time). `Chat` models the
relay's side of one mailbox itself because its two kinds of readers fight over it.

### RelayServer

| Variable | In the code |
|---|---|
| `users`, `to`, `createdAt`, `delivered` | the tables (261-291); a row exists when `to[m]` is a client |
| `clock` | `Date.now()` at the last insert (677) |
| `connections` | the map (469) |
| `owner`, `readyState` | the `clientId` of a socket's closure, ws's readyState |
| `backlog` | the rest of the snapshot `rows` of a running `deliverPending` (488-491) |
| `sent`, `settled` | the sends of a socket in order, and how many of their callbacks ran; `task` says whether `deliverPending` or `deliverIfConnected` awaits the send |
| `peer`, `heard` | the client's end: whether it still reads, and how much it has read |
| `reply` | the answer of `POST /v1/messages` |

The one await of `deliverPending` and of `deliverIfConnected` is on the callback
of `ws.send`. `Connect` and `PostMessage` therefore run up to the write, and
`SendResolved`, `SendRejected` and `MarkThrows` run from the callback to the next
write or to the end. The loop of `deliverPending` is the set `backlog[s]`, of
which any oldest row goes next: `ORDER BY created_at` says no more.

External, modelled from their use: ws (a send on an open socket succeeds once
the bytes left the process, a send on any other socket fails, callbacks run in
order), the network, the client process. `DESTROYED` is ws's `CLOSING` after the
TCP socket is gone. `Halt` is both the SIGINT handler, which contains no await,
and a crash of the process; the loss of recent commits in a power failure is not
modelled. Timestamps do not go backwards. Not in this module: the prekey
endpoints and diagnostics, which touch none of this state, and requests refused
with 400 or 404, which change nothing. The `from` field and the envelope travel
with the row and are part of its identity.

### Session

| Variable | In the code |
|---|---|
| `session` | the record under `session:<peer>` of alice's and of bob's store (`store.ts` 572-593) |
| `op` | the calls of `encryptMessage` and `decryptMessage` in progress, each with the record its `getSession` returned |
| `against` | libsignal's ratchet keys: key `k` was generated on seeing key `against[k]` of the peer |
| `posted`, `reads` | the messages encrypted, and how often each was decrypted |
| `overlapped` | a history variable: the kinds of operations that were in progress together on a user's record; "encrypt" when one of two was an encryption |

libsignal (external) awaits `getSession`, computes, and awaits `saveSession`.
`BeginEncrypt` and `BeginDecrypt` are the code up to the load, `EndEncrypt` and
`EndDecrypt` the code from the save on, and `Abandon` is an exception or the end
of the process. A record is what the properties need of libsignal's: the chain
it sends on and the position there, the peer's chains it knows and the keys it
used. A message may be decrypted at any time and more than once, since the relay
offers a row again after a failure.

`encryptMessage` and `decryptMessage` keep nothing apart. Of their callers only
`sendPromptToSysmaint` is queued (`signal.ts` 303-310); the frames of a socket
(`signal.ts` 259, `e2ee-chat.ts` 347, the agent's `handleMessage`), the requests
of `/api/e2ee/send` and two CLI commands on one store overlap freely. The module
therefore lets operations overlap, and each property says which overlap breaks
it: that is what a caller has to rule out.

The run starts after alice's `initSession`. Not modelled: sessions that both
sides initiate, a second bundle processed over a session, and limits of libsignal
(2000 skipped keys, five chains, forty archived sessions) that no run here comes near.

### PreKeys

| Variable | In the code |
|---|---|
| `localId`, `identity` | the name, and the key pair as the number of the last one generated (`index.ts` 430, 433) |
| `counter`, `record`, `used` | the rows of the three counters, of the records and of `prekey:used:` in the owner's store; `made` numbers the prekeys generated |
| `proc` | what each process on that store is at: its task, the next statement `at`, the kind `n` it generates, how many of `--count` are `left`, the identity key it loaded (`signer`), the id it drew, the bundle it builds |
| `registered`, `directory` | the owner's rows of the relay's `users` and `prekeys` |
| `session` | the bundle each peer's session was made from |
| `overlap` | a history variable: what two processes have done at the same time |

One store is used by several processes: the agent, the probe or the web server,
and the CLI on the same file. SQLite makes each statement atomic and nothing more,
so an action is one statement and a process may end after any (`Stop`). The two
awaited reads of `exportBundle` are grouped: the three counters are one step and
the three records another, which loses no behaviour a property could see, since
none compares two kinds of prekeys. `generatePreKeys` keeps the order preKey,
signedPreKey, kyberPreKey. `setDeviceId` and `setRegistrationId` are part of
`SetLocalIdentity`; a process that ends among them ends before the key pair too.

Nothing keeps processes apart. Each property says which overlap breaks it:

- "counter": two processes read a counter before either wrote it. Then they draw
  one id, and the later save replaces a prekey that may be in a bundle already.
- "generation": one has drawn an id without a record, while another generates or
  looks up the latest ids.
- "identity": one replaces the identity key (CLI `init` on a store in use) while
  another is at work.

External, modelled from its use: libsignal verifies the two signatures of a bundle
against its identity, and decrypts a PreKey message when it finds the private keys
of everything the bundle named. A peer's PreKey message may come at any time and
again. Not modelled: `--count 0`, the trust that a peer puts in an identity key it
saw before, and the marks on Kyber prekeys, which nothing reads.

### TestRunner

| Variable | In the code |
|---|---|
| `isRunning`, `currentRunId` | the module variables of `runner.ts` (37-38) |
| `runner` | how far `runAll` of a run is: at the race of a test function with its timer, in the pause before a retry, completed, rejected, or lost with the process |
| `executing`, `won` | test functions that were called and have not settled; those that passed before their timer (history) |
| `rows`, `saved` | the tables `test_runs`, in order of `started_at`, and `test_results` |
| `stream`, `tab` | the event stream of a run, and what the page shows |

`GetRun` is `GET /api/test/run` with `runAll` up to its first await, so the check of
the lock and its taking are one step. Every statement of the database may throw,
each of the three of `createTestRun` on its own (`done` says how many succeeded).
`TimerFires` leaves the function in `executing`: nothing cancels it, and
`FnSettlesLate` is its end at any later time, during the retry or after the run.
`Crash` loses what is in memory and keeps the tables. The test functions are
external and may never settle.

### Chat

| Variable | In the code |
|---|---|
| `accepted`, `delivered`, `unmarked`, `conn` | the relay's rows for alice, and the socket in its map |
| `link`, `wire` | each reader's socket and what was written to it |
| `stage` | how far a call of `sendPromptToSysmaint` or `pullDirectMessages` is |
| `queue` | `chatPromptQueue` with the promise chain (`signal.ts` 303-310) |
| `reading`, `pending`, `received` | decryptions begun; those that `Promise.allSettled(pending)` waits for (`e2ee-chat.ts` 330); what was opened and kept |
| `prompted`, `opened`, `late`, `errors` | prompts posted; history: what was opened, and what came after a window or a wait; the bound |

Each prompt and each pull opens a socket under alice's one relay identity, so each
`Upgrade` supersedes whoever is there. `waitForChatReply` opens its socket after the
prompt was posted, so a reply may be queued by then; `SettlePrompt` settles it once, by
its own reply, its timer, or the loss of its socket; `OnMessage` starts a decryption
for every frame, whether the wait is over or not. A direct message that a prompt's socket reads, and a reply that
a pull reads, are opened and dropped. HTTP calls and connections may fail
(`MaxErrors`).

### Agent

| Variable | In the code |
|---|---|
| `loop`, `shouldStop`, `activeWs` | where `main` and `listenLoop` are, and their two variables (1038-1043) |
| `sock` | the WebSocket of each round of the loop |
| `queued`, `wire` | the relay's rows for the agent, and what was written to its socket |
| `stage`, `rounds` | each `handleMessage` at its await, and its rounds of tool calls |
| `chatLogs`, `snapshots` | the tables `chat_messages` with `tool_calls`, and `snapshots` |
| `usage` | the token columns of the row of a reply |
| `replies` | prompts whose reply was posted |

A frame starts a handler (1072-1076) that nothing waits for; handlers run from
await to await and interleave. A handler that fails is logged and its message gone.
`Signal` is SIGINT or SIGTERM at any time, during the bootstrap and the pause too.
`Crash` is the end of the process and its restart with an empty memory and the
same tables. The LLM answers or asks for tools, at most `MaxRounds` times. What its
last response says of tokens is looked up under several names (`ExtractUsageStats`):
`Metadata` gives the numbers found, in the order of the look-ups. The cost computed
from them is not modelled. Not modelled either: the branch for `chat.reply` (1019-1036), since nobody sends the agent one.

### Telemetry

| Variable | In the code |
|---|---|
| `probe`, `round`, `sampling`, `lastCpuSample` | the loop of `diag-probe` (591-611), and the read of `/proc` that runs beside the fetch of the relay's diagnostics |
| `lastRead`, `host` | history: the last sample taken; the report of this round |
| `reports`, `rejected` | reports accepted by the relay, and those that the agent's decoder refused |
| `snapshots`, `log`, `now` | the agent's tables, `usage_resets`, and `Date.now()` |
| `data`, `resetInfo`, `reset`, `request` | the dashboard: what it shows, its confirmed reset, the steps of `onResetUsage`, its requests for the status |

A report reaches the agent at any time, in any order, or never. A round that fails
on the relay's side leaves the read of `/proc` running, which still replaces the
CPU sample. The page's polls run beside each other and beside its reset. A request
for the status is asked, read by the server, and arrives or fails; then its place in
`request` is free for the next poll, so the page polls for ever. The snapshot and the usage of one status
are read in one step; they are of different tables and no property relates them.
Of the host a report has the percentages of CPU and memory; "odd" notes, as history,
that the kernel's counters were: the busy time went backwards, or more memory was
available than there is. Unmounting the page is not modelled. Usage counts the replies logged since the last
reset, which is what every total is a sum over.

### Cli

| Variable | In the code |
|---|---|
| `kdf`, `salts` | the KDF parameters in the `meta` table, and how many were generated |
| `row` | the rows of the `kv` table: the key each is encrypted with, and the peer's identity it is of |
| `stage`, `command`, `key` | each process, its command and the key it derived |
| `todo` | the accesses to the store that a command, or a handler of a listener, still has to make |
| `peer`, `peerKey`, `by` | the peer's identity that a thread deals with; the peer's current one; the sender of each message |
| `owner`, `sock`, `conn`, `exiting` | the listener of a handler, its socket, the relay's map entry, `exiting` |
| `overlap` | a history variable: what two processes or handlers did at the same time |

A command is the list of its accesses in order (`CommandTasks`), and an access is a
step: every process and every handler interleaves with all others between any two.
An access fails when its row cannot be decrypted with the key of the process, when a
row it needs is not there, or when the peer's identity is not the pinned one; then a
command ends and a handler drops its message. A process may be killed at any step.
The overlaps that the two properties except:

- "split": two processes found no KDF parameters and will both create them, or
  `init` replaced an identity that its own key does not open.
- "contacted": two threads have checked different identities of the peer while none
  was pinned, and both will pin.

The peer may start over with a new identity, and its messages are PreKey messages.
Not modelled: the administration commands, and the content of sessions and prekeys,
which is that of `Session` and `PreKeys`.

### Demo

| Variable | In the code |
|---|---|
| `draft`, `sending` | the input of each of the three panels, and the text of its request in progress |
| `message`, `step`, `made`, `clock` | the server's work on it: `sendDirectMessage`, with `messageId` and `createdAt` |
| `mailbox`, `reader`, `polling`, `got` | bob's rows at the relay, the polls in progress and what each has decrypted |
| `thread`, `autos`, `log` | `directMessages`, the automatic status requests, `sysmaintMessages` |
| `typed`, `failures`, `dropped` | history: texts typed, failed sendings of each, texts replaced |

The interval starts a poll every 1.2 s and a poll takes 0.9 s or more, with no limit
on its fetch, so polls overlap and answers come in any order. A message of alice
arrives twice: with the answer to its sending and with a poll. The messages' times
are taken before encryption and may be equal. A failed sending may have been
delivered. Inputs can be edited while a panel is busy. Only bob's mailbox is polled.
`mergeDirectMessages` is what the code's map and sort compute: the first of each id
(`FirstOfEachId`), ordered by time and, for equal times, as they came (`ByTime`). Names
that `TestRunner` has too carry the module's name, since one module proves both.

## Runs

| Run | Instance | Question |
|---|---|---|
| `relay_safety` | 2 clients, 2 rows, 2 sockets, failing updates, halts and restarts | Does any interleaving of the loop, direct sends, supersede and handlers repeat (`AtMostOncePerSocket`) or reorder (`OnlyBacklogIsOvertaken`) a row, lose the map entry of a live socket (`OpenIsRegistered`) or promise a delivery that is not marked (`ReplyImpliesMarked`), and does the relay implement `Mailbox` (`ImplementsMailbox`)? |
| `relay_liveness` | 1 client, 2 rows, 2 sockets, relay up, equal timestamps | Is a row ever forgotten (`NoStrandedRow`), and does a queue drain while its client stays online (`QueueDrains`)? |
| `relay_loss` | 1 client, 2 rows, 2 sockets | A counterexample: a row marked delivered that no client has or will get. |
| `session_overlap` | 2 operations a user, 4 messages, 5 ratchet keys, 2 reads of each | What survives overlapping operations on a record: no key is used twice (`KeysAreUsedOnce`) and unread messages stay readable in any order (`UnreadStaysReadable`) unless an encryption overlaps; no message is read twice (`ReadAtMostOnce`) unless anything does. |
| `prekeys_overlap` | 2 processes, 1 peer, 2 ids a kind, 6 prekeys, 2 identity keys, `--count` up to 2 | Processes that end anywhere and start again: does the store keep what bundles name, a one-time prekey until it is used (`NamedKeysAreKept`), does a bootstrap find what it exports (`BootstrapExports`), and does its bundle verify (`BootstrapVerifies`)? |
| `prekeys_crash` | 1 process, the same bounds, `--count` 1 | A counterexample: a process ends inside `initializeIdentity`, and the next bootstrap takes the store for initialised and finds no key pair. |
| `test_runner` | 2 earlier runs in a table of 2, 2 more, 2 tests, 1 tab, 1 failing statement, 1 crash | Is the lock that of the run in progress (`LockMatchesRun`), is a stored verdict the attempt's own (`VerdictIsOfItsAttempt`), are the tables bounded and what they keep whole (`RetentionHolds`, `AnalysedRunsAreWhole`, `RunningRowHasCause`), and do a run and the page that shows it end (`RunEnds`, `PageSettles`)? |
| `chat_mailbox` | 2 prompts, 1 pull, 1 direct message, 1 error | Does a prompt take only its own reply (`OwnReply`), who can lose one (`LostReplyHasCause`), does a pull return what it opened (`PullKeepsWhatItOpens`), and does every call end (`CallsEnd`)? |
| `agent_loop` | 2 prompts, 1 report, 1 round of tools, 2 troubles | Does a signal find the socket in use (`SignalReachesSocket`), does the log agree with the handlers (`LogMatchesReplies`), and do the loop and the handlers end (`LoopEnds`, `HandlersEnd`)? |
| `telemetry` | 3 rounds, replies, resets, milliseconds and failures of the page's calls together, 2 polls at a time, any number of them, 3 samples of `/proc` | Does an answer go back behind what the page knew when it asked (`ReadsForward`), is usage that of its window (`UsageIsOfItsWindow`), which reports are refused (`RejectedReportHasCause`), does the probe go on (`ProbeGoesOn`), and does the page come to show what the tables say, after answers that overlap and beside a confirmed reset (`PageCatchesUp`)? |
| `cli_store` | 2 processes, 2 passphrases, 2 messages, 2 identities of the peer | Does one key open every row (`OneKey`), and is everything kept of the peer of the pinned identity (`InboxIsOfPinned`)? |
| `demo_thread` | 2 texts, 2 polls, 2 failures, 2 milliseconds | Is anything shown twice (`ShownOnceBarFailures`), swapped (`OrderIsKept`), or lost from an input (`NothingTypedIsLost`)? |

The passing runs but the relay's have from 0.2 to 1.1 million distinct states, and
TLC finishes each within minutes.

Two rows and two sockets are what supersede needs: a third socket would only repeat
the step. Two clients show that rows and sockets are not mixed up. The proofs below
lift the properties of `relay_safety` and `NoStrandedRow` to any number.

Four messages and five ratchet keys let the conversation turn twice with a
message of every chain still under way; a second read is what a redelivery is; a
third operation of one user could only repeat what a second one does. States
after an overlap with an encryption are cut off, since no property but
`ReadAtMostOnce` claims anything of them, and that one excuses them too.

Two ids and six prekeys are two generations of every kind: the first is uploaded,
and the second either replaces nothing or, after a race, a prekey of the first. Two
identity keys let `init` replace one in use. A second peer would be another copy of
the first: no peer writes what another reads except the used mark. States with two
kinds of overlap are cut off: after "counter" comes "generation", where no property
claims anything, and only `NamedKeysAreKept` claims something after both of the
others, for which the identity key does not matter. The proofs make no such cut.

`test_runner` starts with a table as full as the cleanup keeps it (two runs stand for
the hundred of the code). The cleanup precedes the insertion, so the first new run
deletes none and the second deletes one, unless a statement faults; and the second
sees what a failed or crashed first one left. Two tests are one that goes
on and one that is the last; a late function of the first can settle during the
second. A second fault or crash would meet a server that holds no lock.

In `chat_mailbox` the second prompt waits behind the first and reads the reply that
the first gave up; the pull takes the mailbox from either. In `agent_loop` two
prompts interleave with each other and with a report, two troubles are a connection
that breaks and, in the next, an error or a crash. In `telemetry` the bound is one
for all inputs, so that any three of them occur together: a reply, a reset and a
millisecond between them, or two rounds and a lost poll. Polls, and failures of rounds,
are not counted; two polls at a time are what it takes for an answer to arrive after a
later one, or after a reset. Samples come in any order: among the three
are pairs whose busy time goes backwards while the total grows, which gives a negative
percentage, one with more memory available than there is, and one with none. The two
prompts of `agent_loop` have a response whose counts are missing or no numbers, and one
without a total.
Two processes with two passphrases are all that "one key" can go wrong with; two
handlers of one listener and a command are the three threads of `InboxIsOfPinned`.
Two texts and two polls are two messages that come in either order and twice, and two
failures are a lost answer and a lost poll.

### Fairness

`FairSpec` assumes only what the process does on its own.

- `RelayServer`: the callback of a send to a client that keeps reading runs, such a
  client reads on, and ws finishes a close it started. Nothing is assumed of a client
  that stopped reading: the relay has no heartbeat, so a half-open connection may stay
  registered for ever. `QueueDrains` is about a client that stays online on one socket
  for that reason.
- `TestRunner`: timers fire (`TimerFires`, `Retry`) and the event or the loss of the
  connection reaches the page (`TabHears`). Nothing makes a test function settle.
- `Chat`: HTTP calls, decryptions and timers end. Nothing makes the agent answer, the
  relay accept a connection or a message arrive.
- `Agent`: bootstraps, the pause and closing handshakes end, and each handler goes on
  (`HandlerGoesOn`): its calls end, and the LLM responds, as it likes. Nothing makes the relay accept a connection. A
  connection that is broken without a word is assumed to be noticed by the network
  (`OnClose`): the agent itself would wait for ever, as it has no heartbeat.
- `Telemetry`: reads of files and the HTTP calls of the probe and of the page's polls
  end, with an answer or an error, and the page, while it is mounted, polls again when
  its interval is over (`page.tsx` 325). Nothing makes a report arrive, and nothing of a
  reset is assumed to end. In the model an error is one of the bounded inputs, so a
  request that can no longer fail is answered: `PageCatchesUp` is about a server that
  answers in the end.

`Cli` and `Demo` have no liveness property: a forced exit follows from its timer
alone, and a fetch of the demo page may hang, as it has no timeout.

Deadlock is not checked where the system really stops: all runs but those of the
relay end when their bounded inputs are used up.

## Proofs

`RelayServer_proofs` proves, for any sets of clients, messages and sockets:

- `TypeCorrect`: `TypeOK`.
- `OpenSocketsAreRegistered`: by `Bookkeeping`, which adds that an entry of the
  map points to a socket of that client, that a socket not yet accepted is
  empty, and that `settled` and `heard` stay within the sends.
- `NoRowTwiceOnASocket` and `RowsReachTheirRecipient`: by `Delivery`. A row can
  come to a socket twice only through the backlog, so the invariant adds that
  what is left of a backlog belongs to the client and was not sent there.
- `NoRowIsStranded`, for a relay whose UPDATE does not throw: `NoStrandedRow` is
  inductive given `Bookkeeping`. (When it throws, the catch of `deliverPending`
  ends the loop on a healthy socket and the rows do wait for a reconnection.)
- `OrderOnASocket`: by `Ordering`, which bounds the rest of a backlog by what was
  sent of it from below and by what was posted since from above.
- `RepliesAreTrue`: by `Marking`, which adds that a marked row was written.
- `Invariance`: `IInv`, the conjunction of these layers.

`RelayServer_proofs` also proves `Refinement`: `Spec => ImplementsMailbox`. A write
is an offer, the callback of a send is a settlement, a read of the client is a
hearing, and everything else stutters; `Bookkeeping` and `Delivery` supply that
a row written is a stored row of the socket's client and that the next of a
backlog is too.

`Session_proofs` proves, for any sets of operations and any bounds:

- `TypeCorrect`: `TypeOK` with `Numbering`, which says that ratchet keys are
  numbered as they are generated and nobody sends on the signed prekey.
- `KeysStayUnique`: by `Advancing`. A key is used twice when a record is saved
  that is behind what its user has sent, so the invariant says that neither the
  record nor any copy in progress is. A decryption that overlaps with decryptions
  cannot break it: it either keeps the position or starts a chain nobody has.
- `ReadsDoNotRepeat`: by `Remembering`, which says that the record holds the key
  of everything that was read and that the copy of the operation in progress is
  the record.
- `UnreadIsReadable`: by `RatchetsStayInStep`. Whether the peer can open a message
  depends on both records, so the invariant relates them (`InStep`), for the records
  in the stores and for every copy that an operation in progress may save: what the
  peer sent is on a chain that the record knows or would take up next; a chain once
  sent on has been answered before its user sends on another; and a user that has not
  yet sent on its new chain finds the peer still waiting for it. `UsedAreRead` says
  that only messages that were read have used their keys up. A decryption that
  overlaps with decryptions saves one of these copies, an encryption that overlaps
  saves what is none, which is why the property excuses only that.
- `Invariance`: `IInv`, the layers together.

`PreKeys_proofs` proves, for any sets of processes and peers and any bounds:

- `TypeCorrect`: `TypeOK`.
- `KeysAreKept`: by `Counting`, with `AllAreKept`, which is more than
  `NamedKeysAreKept`: as `removePreKey` deletes nothing, used one-time prekeys stay too.
  A record is overwritten only by a process at "save",
  so the invariant says that while nobody overlapped on a counter no id at or above
  it has a record, whoever is to write the counter has its current value, and whoever
  is to save has an id below it that has no record and that no other process has.
- `BootstrapsExport` and `BootstrapsVerify`: by `Renewing` and `Signing`. A process
  that ended early may have left the latest id without a record; a bootstrap draws
  new ids, so the invariant follows it: of the kinds it has done, the latest id has
  a record, signed with the identity key of the store. An overlap is noted in the
  step in which it arises (`Overlaps(proc) \subseteq overlap`), which is what
  excludes the other processes at a step that writes.
- `Invariance`: `IInv`, the layers together.

`Pages_proofs` proves of `TestRunner`, for any numbers of runs, tests, tabs, faults and
crashes:

- `TypeCorrect`: `TypeOK` with `Behind`, which says that a run has a result of every
  test before its current one and pauses after a first attempt only. Without it the
  counts of a completed row, which are sizes of sets of results, have no bound.
- The other five rest on one lemma, that every step of `Next` is, for the variables
  of the runs, one of a few steps (`StepOfRuns`): start, go on, complete, reject,
  pause, retry, cease.
- `LockHeld`: `LockMatchesRun` is inductive over these steps.
- `VerdictsAreOfAttempts`: by `VInv`. What passed and what is stored lies in the past
  of its run (`Past`): a late settling adds nothing to `won`, and a verdict cannot be
  contradicted by a later pass of the same test, because the run has gone on.
- `RunningRowsHaveCauses` and `RetentionIsKept`: by `Tables`, which adds that the row
  of the run in progress is there (`RowOfRun`), since only the start of another run
  deletes rows, and the lock excludes one.
- `AnalysedAreWhole`: by `Written`. The stored results of a run in progress are those
  that `runAll` holds, the i-th of them that of test i; a run that has not begun has
  neither row nor results; the row of the run in progress says running; and a completed
  row among the kept ones agrees with its results. That counts of positions are sizes
  of sets of results is a bijection (`SameCount`).

and of `Demo`, for any texts, polls and bounds:

- `DemoTypeCorrect` and `ShownOrderIsKept`: by `DTInv`. What the merge shows rests on the
  lemma that the number of messages before a message in time, ties as they came, is a
  bijection from the merged messages to the positions (`ByTimeIs`). So the thread is
  always the merge of itself (`ArrangedOnce`): each id once, ordered by time. A further
  merge then only puts new messages between the old ones (`MergeAdds`).
- `ShownOnce`: by `CInv`, which follows a text from the input to the thread. It is in
  one place at a time (`OnePlace`); messages that exist anywhere, on their way, at the
  relay, in a poll or shown, have ids of their own (`Ids`); and a text has, beside its
  failed sendings, one message or can still become one (`Counted`). A failed sending
  turns its message loose and puts the text back, which is the one step that adds.
- `TextsAreKept`: `NothingTypedIsLost` is inductive given `CInv`: a merge loses no
  text (`MergeHasAll`), and a request ends with its text shown, put back, or replaced.

`Chat_proofs` proves, for any sets of prompts, pulls and direct messages:

- `TypeCorrect`: `TypeOK` with `Turns`: the queue holds each prompt once and only its
  head reads.
- `RepliesAreOwn`: `OwnReply`.
- `LossesHaveCauses` and `PullsKeep`: by `Causes`. `FromRelay` says that what is on a
  wire was stored, and that a reply exists only after its prompt was posted;
  `ForeignIsLate`, that a reply read by the wait of another prompt came after that wait
  was over, which holds because waits take turns; `PullWaits`, that a pull waits for
  what came within its window.

`Agent_proofs` proves, for any sets of messages and any bounds:

- `TypeCorrect`: `TypeOK`; the rounds stay within the limit because tools are asked
  for below it.
- `SocketReached`: by `OneSocket`. Sockets are used in order, only the last is alive,
  while the loop waits for its close event, and then `activeWs` is that socket.
- `LogsMatch`: by `LogInv`, which says for each prompt what the log has of it at each
  stage of its handler; appending an entry of one prompt changes nothing of another's.

`Cli_proofs` proves, for any sets of processes, messages and passphrases:

- `TypeCorrect`: `TypeOK` with `Working`: only running processes have accesses to do.
- `OneKeyHolds`: by `OneKeyInv`. In the list of every command each keyed write comes
  after a read of the identity or the session (`Guards`), so whoever is to write either
  has read a row of the store, and so holds its key, or will read one first.
- `PinnedOnly`: by `PinInv`. In every list a pin comes after a check of the peer's
  identity, what is saved comes after a pin, and the thread does not change the peer in
  between (`After`); what is left of a list may rely on what has been done. Two threads
  that both have a pin to write have checked the same identity, or the overlap was noted.

`Telemetry_proofs` proves, for any samples of `/proc` and any bound:

- `TypeCorrect`: `TypeOK` with `TInv`, which adds that the log has no more rows than
  there are inputs and that rounds are counted from 1.
- `RejectionsHaveCauses`: by `RInv`. The sample that the next percentage is computed
  from is always the last one taken, also when its round failed meanwhile; so a
  percentage that the decoder refuses comes from counters that were odd.
- `UsageOfWindow`: by `InOrder`. The tables grow in order of time, so the reset with the
  greatest time is the last one in the log, and what the query sums by time is what was
  logged since, up to replies in the very millisecond of the reset.
- `AnswersAreNotOlder`: by `PInv`. A status only moves forward: to a later window, or in
  the same window to at least as many replies. Everything that the page shows, has seen
  or has been answered is a status of the past (`OfThePast`).

Greatest and least elements exist by well-founded induction on the natural numbers, taken
from the library for a set and not for an operator (`WFMin`).

The proofs use the assumptions on the constants (`RelayAssumption`,
`PreKeysAssumption`, `TestRunnerAssumption`, `ChatAssumption`, `AgentAssumption`,
`CliAssumption`, `TelemetryAssumption`, `DemoAssumption`; for `Session`, that null is not
a record). They keep names apart, say that what `/proc` shows are numbers and that limits
are, at least one test, one id, one run kept and one identity;
they bound no set. Theorems of type correctness and invariance are not repeated as
properties of runs.

Only model-checked is liveness (`QueueDrains`, `RunEnds`, `PageSettles`, `CallsEnd`,
`LoopEnds`, `HandlersEnd`, `ProbeGoesOn`, `PageCatchesUp`), which is out of the prover's reach. Every
invariant and every action property of a passing run is stated by a theorem.

## Disagreements with comments and documents

Two are shown by runs (`relay_loss`, `prekeys_crash`). Met while reading, and visible in
the definitions, but not worth a run each:

- `runner.ts` 9-11 says tests run one at a time; an attempt that timed out runs on
  beside its retry and later tests (`FnSettlesLate`). The README speaks of three
  attempts (235, 349-352), `maxAttempts` is 2.
- `relay-server/src/index.ts` 513: `deliverIfConnected` also answers false for a row
  that another socket has delivered.
- `chat/page.tsx` 66 says that the input is preserved on an error; it was cleared.
- `state-db.ts` 18 calls its connection read-only; a reset inserts. The route of the
  reset speaks of a deletion.
- `diag-probe/src/index.ts` 217 gives 0 to 100 for the CPU percentage; it can be
  negative or above 100, and is the load average in the first round.
- `api/e2ee/send/route.ts` 204-205 says that the plaintext is not in the response; the
  message of the response has its text.
- One-time prekeys: `signal-core/src/index.ts` 36, 467-469 and 843, `ARCHITECTURE.md` 285,
  `README.md` 650 and `PROJECT_EXPLANATION_OVERVIEW.md` 80 have them used once, or deleted
  after use. `store.ts` 627-631 and 672 mark them and keep them on purpose, nothing reads
  the mark, and the relay hands the same bundle to every peer, so a key is used as often as
  peers use the bundle. `ReceivePreKeyMessage` is what the code does; `NamedKeysAreKept`
  takes no side and claims nothing of a used one-time prekey.
- `signal-core/src/index.ts` 441-443 says that `nextCounter` gives each prekey an id of its
  own; two processes on one store can draw one id (the overlap "counter").
- `database.ts` 11 and 79 keep the last 100 runs; the cleanup runs before the insertion, so
  the table holds 101, and `RetentionHolds` allows that one more.
- `ARCHITECTURE.md` 167 gives every message a key of its own; that needs encryptions of
  a session to take turns, which nothing but the prompt queue ensures (`KeysAreUsedOnce`).

## What the exceptions mean

Nothing in the code keeps certain operations apart, and what then goes wrong is a
consequence of the code, which no true property can exclude. Such a property names the
overlap and claims something of every behaviour without it: it says that this overlap is
the only cause, and it would not notice one more thing that the overlap does. None of
the exceptions is idle: without it TLC finds the property violated, in `session_overlap`
and `prekeys_overlap` once their constraint, which cuts behaviours off after the
overlap, is left out too:

| Property | Excepts |
|---|---|
| `KeysAreUsedOnce`, `UnreadStaysReadable` | an encryption that overlaps with another operation on the record |
| `ReadAtMostOnce` | any operations of the reader that overlap |
| `NamedKeysAreKept` | two processes inside `nextCounter` together |
| `BootstrapExports`, `BootstrapVerifies` | another process that generates, or replaces the identity, meanwhile |
| `LostReplyHasCause` | a pull that takes the reply of a prompt that waits |
| `PullKeepsWhatItOpens` | a message that comes after the window and before the socket is closed |
| `OneKey` | two processes that create one store, `init` with another passphrase on a store in use |
| `InboxIsOfPinned` | two threads that check different identities before either pins one |
| `NothingTypedIsLost` | a text replaced by the one that a failed send puts back |

`PROJECT.json` lists each of them as a hazard, or in the note of the hazard that the
property covers otherwise.

## Not modelled

- The relay's diagnostics and `infra`: counters and pages on which no decision depends.
- The CLI's administration commands: they start containers and print.
- The agent's branch for `chat.reply`; delete and the marks on Kyber prekeys, which
  nothing reads; `--count 0`.
- Sessions that both sides initiate, and a bundle processed over a session: `Fetch` and
  `ContactTasks` have the step, `Session` starts after it.
- libsignal, the LLM, ws, SQLite and the network, which are external and appear as what
  they may do; cryptography is a key that opens what it closed; power failures that
  lose recent commits.
- Rendering, styles, the read-only routes, the other numbers of `/proc`, and the cost of a
  reply.

## Plan

1. `ensureSessionWith` in `Session`: its look-up and its fetch are separated by an
   await, so that both sides, or two requests of one side, initiate.
2. `Chat` and `Agent` each shown to use the mailbox that `RelayServer` implements, by
   a refinement of their relay's variables.
3. Abstract specifications of what the test runner and the telemetry promise, which
   their modules are then shown to implement, as `RelayServer` does `Mailbox`.
