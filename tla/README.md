# Goronation in TLA+

Goronation runs a coding agent in a cage and lets a user watch and steer it
from a browser.  These modules model the parts of it where ordering,
concurrency, failure and crashes decide whether the result is right: the
conversation with the agent and the stream of its events, the vault and the
passkeys, the proxy and the gateway through which the cage reaches the network,
PID 1 of the cage, and the host processes that share one session.  TLC checks
them on small instances; TLAPS proves the safety properties of the runs, and that
the detailed modules implement the abstract ones, for every value of the
constants.

## 1. Inventory

### Parts of the system

| Part | Source | State | Operations | Module |
|---|---|---|---|---|
| conversation | `cmd/internal/chat/conversation.go` | `state` (idle, turn, closed), `stopped`, `pending`, `settled`, `orphans`, pins | `Send`, `ResolvePermissionIn`, `ResolveFormIn`, `Stop`, `Close`, `OnLine` | `Conversation`, `Approval` |
| queue to the agent, `Session` | `cmd/internal/chat/queue.go`, `agent.go`, `cmd/goronation/serve_chat.go` | queued lines, `closed`, the goroutine `drain` | `WriteLine`, `Discard`, `drain`, `Finish` | `Conversation` |
| claude adapter | `agent/claude` | `pending`, `seen`, `sentInit` of the `Stream` | `EncodePrompt`, `EncodeResolve…`, `Decode` of requests, withdrawals and results | `Conversation` |
| opencode adapter | `agent/opencode`, `chat/http.go`, `chat/sse.go`, `serve_chat_opencode_linux.go` | `root`, `children`, `pending`, `seen`; queue of HTTP requests | the start of the transport, `Decode`, `encode…` | `OpenCode` |
| Hub and its writer | `cmd/internal/chat/hub.go`, `durable.go` | ring, pins, `nextSeq`; queue, `W`, `trims`, `trimmed`, `degraded` | `Update`, `Close`; `take`, `Apply`, `Trim`, `judge`, `degrade` | `EventHub` |
| event log | `cmd/internal/eventlog/eventlog.go` | rows, pinned column, `last`, `trimmed`, `floor` | `Apply`, `Range`, `FirstUnpinned`, `Trim`, `Close` | `EventLog` |
| event stream to a page | `durable.go`, `hub.go`, `serve_chat_http.go`, `assets/chat` | `Subscription`, `Backfill`; the page's `lastSeq` and omission mark | `Subscribe`, `SubscribeAfter`, `Backfill.Next`, `Subscription.Next`, reconnect | `ChatStream` |
| files of the log | `eventlog/sweep.go`, `files.go`, `lock_unix.go`, `chat_eventlog.go` | directory per session, its flock, the database | open, close, `SweepStale` | `Serve`, `EventHub` |
| run, serve and web | `run.go`, `serve*.go`, `web_*.go` in `cmd/goronation` | three flocks, four files, the cage | start, listen, end, spawn | `Serve` |
| vault | `vault/`, `vault_linux.go` | `vault.json`, `audit.log`, the flock; `doc` and `key` of an open `Vault` | `Open`, `Init`, `Unlock`, `AddWrap`, `RemoveWrap`, `putItem`, `Lock`, `Close`, `Reset` | `Vault`, `AtomicVault` |
| webauthn | `cmd/internal/webauthn`, `web.go`, `credfile` | state file, `Store.used`, tokens in browsers | register, authenticate, logout, operation ceremonies, add, remove, `web token` | `WebAuthn` |
| egress proxy | `egress/`, `proxy.go` | slots, connections, `closed`, the audit queue | accept, CONNECT, relay, `ServeBoth`, `Close` | `Egress` |
| git and GitHub gateway | `egress/gateway`, `egress/git`, `egress/github`, `ghapi`, `pr.go` | the quota; GitHub's refs and pull requests | fetch, push, pull request, `pr ready` | `Gateway` |
| PID 1 of the cage | `init*.go`, `relay_http.go`, `relay_control_linux.go` | the proved socket, slots, `quit`, the child's life | start, prove, relay, stop | `Cage` |
| sessions | `cmd/internal/session` | directories | create, list, export | not modelled |
| sandbox, host files | `sandbox`, `hostfs` | kernel state | start, mount, confine | start and wait, in `Serve` |
| core types, tools | `core`, `tools` | – | – | not modelled |

`PROJECT.json` lists every component with its sources and what is left out of
it.

### How the parts interact

```
 users ── Send / Resolve / Stop ──▶ Conversation ── WriteLine ──▶ queue ── drain ──▶ agent
                                     │     ▲                                         │
                              Hub.Update   └──────────── OnLine (Stream) ◀───────────┘
                                     ▼
                                    Hub ── enqueue ──▶ storeWriter ── Apply, Trim ──▶ EventLog
                                     │                                                  │
                              Snapshot, push                                    Range (Backfill)
                                     ▼                                                  ▼
                                 Subscription ───────────── GET /events ─────────────▶ page

 web ── spawns ──▶ serve ── starts ──▶ cage: PID 1 ── relay + token ──▶ agent
  │                  │ flocks, sockets, database       │
 WebAuthn, Vault     └─ hostProxy ◀── CONNECT, git, pull requests
                           │
                        Gateway ──▶ GitHub ◀── goronation pr ready
```

* `Conversation` holds one mutex in each method and publishes under it, so
  seqs are consecutive.  `Hub.Update` holds `Hub.mu`.
* The writer goroutine shares with the Hub a queue and the atomics `W`,
  `trims`, `trimmed` and `degraded`, and is *not* excluded by `Hub.mu`.
* A reader takes `Hub.mu` to subscribe, and afterwards reads the log and its
  live queue while all the others go on.
* The queue's goroutine calls back into `Conversation.Stop` when a write
  fails; `Conversation` calls `OnStop`, which discards the queue.
* Host processes share nothing but the file system: flocks, sockets, the
  event log's database, the state file of the passkeys, the vault.
* The host hands PID 1 of the cage one socket per request; what listens on the
  agent's port is in the hands of the cage.

### What is hard

* **Two writers of one truth.**  An event is in the ring, on its way to the
  log, or in the log; the three move independently.
* **Stale reads.**  `SubscribeAfter` and `Backfill.Next` compare `trims` and
  read rows without a lock that keeps `Trim` out; `Reset` is confirmed without
  the lock; `pr ready` looks and acts in two requests; the relay looks at the
  child and the port before it writes the token.
* **Giving up.**  A full queue, a slow disk, a failing write or a ring that
  overtakes the writer gives up the log; afterwards every answer comes from
  memory.
* **Three tables of requests** (conversation, `Stream`, Hub pins) that several
  users, the agent, the policy and the end of the process change in any order;
  with opencode a fourth, at the server, which settles requests on its own.
* **Partial failure.**  The `Stream` has moved on when a line is refused by
  the queue, or when the events of a line are refused as too large; a pull
  request was made but its answer is lost; one of several steps of a start
  fails.
* **Crashes.**  A process is killed between any two of its steps and leaves
  files without locks; a loss of power takes back what was not synced.
* **Ends.**  `Close`, `Stop`, `Finish`, `OnStop` and the exit of the agent come
  in many orders; nothing may be left waiting, and nothing left behind.

`PROJECT.json` lists these one by one, at the line where each bites, with the
properties that cover it.

## 2. Modules

| Module | Models | Extends |
|---|---|---|
| `EventLog` | the Store's rows and its calls, as operators | – |
| `EventHub` | `Hub.Update` with its eviction loop, `Hub.Close`, and the writer | `EventLog` |
| `ChatStream` | the readers on top of it: subscribe, backfill, snapshot, live, disconnect, dial again | `EventHub` |
| `Approval` | abstract: what a conversation promises about a request | – |
| `Conversation` | conversation, `Stream` of claude, queue and `Session` of one launch | `INSTANCE Approval` |
| `OpenCode`, `MCOpenCode` | `Stream` of opencode, its transport and its server | – |
| `AtomicVault` | abstract: one document, replaced as a whole | – |
| `Vault`, `MCVault` | processes on one vault directory, with crashes | `INSTANCE AtomicVault` |
| `WebAuthn`, `MCWebAuthn` | passkeys, ceremonies and sessions on one state file | – |
| `Egress` | the proxy of one run, up to the return of `Close` | – |
| `Gateway` | the gateway's handlers, GitHub, and `pr ready` | – |
| `Cage` | PID 1 of an opencode cage, its child and its port | – |
| `Serve` | run, serve and web processes on one session | – |
| `ChatStream_proofs` | theorems on the Hub, its writer, its log and the readers | `ChatStream` |
| `Conversation_proofs`, `OpenCode_proofs`, `Vault_proofs`, `WebAuthn_proofs`, `Cage_proofs`, `Serve_proofs` | theorems on one module each | that module |
| `Gateway_proofs` | theorems on the gateway and on the proxy in front of it | `Gateway`, `Egress` |

The MC modules only define symmetry sets; the other runs use their module
directly.  Operators named after a mistake (`ResetUnchecked`, `KillNever`,
`ClosedOwn`, …) are plausible wrong versions of the definition they precede;
each shows that a property can fail.

### EventLog and EventHub

Events get consecutive seqs from 0, so *an event is its seq* and the ring is the
interval `head..nextSeq-1`.  `durable` is the set of seqs whose
`Event.Durable` is true.  A row of the log is its seq, and `rowPinned` is its
pinned column.

| Action | Code |
|---|---|
| `Update` | `Hub.Update` up to the eviction loop: publish, pin, unpin, `enqueue` |
| `Evict` | one turn of the eviction loop, with the check against `W` and `degrade` |
| `UpdateReturns` | the end of the loop; `Hub.mu` is released |
| `Close` | `Hub.Close` and `storeWriter.closeInput` |
| `Take` | `storeWriter.take` with `mergeOps`, and its end condition |
| `WriterApply`, `Applied` | the call of `Store.Apply`; what `run` does with its result (`W`, `stored`, `judge`) |
| `TrimBegins`, `WriterTrim`, `TrimEnds`, `TrimJudged` | `trims` odd; the call of `Store.Trim`; `trimmed`, then `trims` even; then degrade or `judge` |
| `CloseLog` | `chatLog.Close`, possibly before the writer has ended (`chatLogCloseWait`) |
| `ReadFails` | `Backfill.fail` by some reader |

A step of the writer is one access to something another goroutine can see:
the call of the Store, the moves of `trims`, the end.  Adjacent accesses are
one action where no other actor can tell the difference.  In `Applied` these
are the look at `degraded`, the move of `W` and `judge`: an actor that comes
between the last two sees the state of a commit that was judged fast, and the
degradation that follows is then like one by a failed read, which may come at
any time; one that degrades between the first two makes `W` meaningless, since
only a Hub that has not degraded uses it.  In `TrimEnds` it is `trimmed` just
before `trims` becomes even: a reader that read `trims` before it has another
value than the even one that follows, and hangs up either way.

### ChatStream

A reader is a page and its request.  `conn[r]` is the `Subscription` together
with the position of the handler; `view[r]` is what the page keeps: `lastSeq`,
the events it has shown, whether it marked an omission.  `Dial` reads `trims`
before `SubscribeAfter` takes `Hub.mu`; `BackfillCheck`, `BackfillRange` and
`BackfillEnds` are the three separate moments of `Backfill.Next`.  A live queue
always holds the events from some seq up to `nextSeq-1`, so it is that seq,
`qnext`.  `Disconnect` cuts the connection at any point; of what was being sent
a prefix arrives.  Publishing with readers is `EventHub!Update` together with
the push into each registered queue (`Publish`), and `Close` together with the
end of each registered subscription (`StreamClose`).

### Conversation and Approval

`c` is the `Conversation` and what it has published; `stream` is the adapter's
`Stream`; `queue` is the line queue and where `drain` is; `agent` is what the
process has read and how far `serve` is with its end.  Each method of
`Conversation` holds the mutex throughout, so each is one action; `DrainTake`,
`DrainWrites`, `DrainFails`, `DrainStops`, `OnStop`, `Exit`, `Close`,
`FinishDiscards` and `OutputEnds` are the steps of the other goroutines.
`pending` and the `Stream`'s `held` are maps in the code and sets of items here,
each item with the number `seq` of its card: the code settles several at once in
that order (`InOrder`), and the order decides which ids `settled` forgets first.
`Answers` are the answers a user can send: to a card of this launch that was
really shown, or to one of an earlier launch, with or without the
`content_hash`, to either endpoint, at any time and any number of times.

`Approval` is the contract in two variables: the `status` the users were shown
and what the agent was `told`.  A request is decided once, the decision is
final, and the agent is told at most once and nothing but that decision.
`Conversation` computes both from its state and checks `A!ApprovalSpec`.

### OpenCode

`parent` and `req` are the server: the tree of its sessions, and each request's
session, content and fate.  `sse` are the events on their way to `serve`,
`queue` the HTTP requests on their way back, and `stream` is the adapter's
`Stream`.  The transport is `readReadyLine`, `openEventStream`,
`createSession`, then `ReadSSE` and `Write` until `Over`.  `DecodeFrame` has one
case per event that changes the `Stream`; `Server` asks, settles, repeats and
ends on its own, for our session, its children and the sessions of other
clients.  An answer the server refuses ends the conversation
(`httpWriter`), which is what `VerdictTrue` rests on.

### Vault and AtomicVault

`disk` is `vault.json` as every process sees it, and `back` is the set of
documents a loss of power may leave: `Rename` adds to it, `Sync` reduces it to
`disk`.  An operation under `Vault.mu` prepares a document and a line
(`commit`), and then goes through `appendAudit`, `WriteTmp`, `Rename`, `Sync`
and `NoteFailure`, each of which may fail; `Kill` and `PowerLoss` come between
any two.  `PeekID` is the confirmation in the shell, before `Reset` takes the
flock.  A wrap holds the body key it yields and an entry the key it was sealed
with, so an entry that some passkey cannot open is a visible error.

`AtomicVault` has two variables, the document shown and the documents a loss of
power may leave, and seven operations.  The mapping shows of an entry only that
*every* passkey of the document opens it; `ImplementsAtomicVault` says that each
step of each process is one of these operations or invisible.

### WebAuthn

A challenge travels in a signed token, so the server keeps only `used`.  The
key, `SessionSecret`, is made by the first `web token` (`ensureSessionSecret`):
a file it has never written has none.  `verifyToken` computes a MAC with
whatever the file has, so with no key it accepts claims of any content
(`Presented`, `stateClaims`); only `VerifySession` refuses an empty key.
`Signed` says that a token was one of the server's own, and the history variable
`unsigned` that the file has held passkeys without a key; such a file comes from
`RegisterFinish` on a file without a key, and `web token` ends the state.
`Update` is what a handler does under `Store.mu` before its `save`, and `save`
may fail; `IssueBootstrapToken` and `CliSave` are the command `web token`, which
loads and saves the same file without the mutex.  `raced` remembers that it has
written over a newer state.  `RevokedForGood` and `ChangeAuthorised` hold until
then and say so: `Store.mu` serialises one process only.

`OnceOnly` is about Assertions whose token the server had signed: in other claims
the expiry, and so the time for which `used` remembers them, is not the server's.
`ChangeAuthorised` covers every change of the set of passkeys.  The first one,
on a file with a key, needs a token that was signed in a `RegisterBegin`, and so
the bootstrap token; every later one needs an Assertion for that change by a
passkey that is registered before and after it.  A first passkey on a file
without a key is left out, and while `unsigned` the Assertion may come from claims
that the server has not signed, though a registered passkey must have answered
them.

### Egress

`at[c]` follows one connection from `Accept` over `dispatch` (CONNECT or
gateway), `AddConn`, `readRequest`, `Dial`, `Grant` (which writes the audit
line), `Answer` and the relay to `Release`; `closer` follows `hostProxy.Close`.
`addConn` refuses when `closed` is set, under the mutex that `MarkClosed` takes.
A request to the gateway is in its header (`head`), its handler (`handler`), a
`Read` of its body (`body`), the end that net/http gives it (`finish`) or closed
(`gone`).  Only inside a `Read` is there a deadline: `passed` says which of the
idle one, new with every `Read`, and the absolute one, fixed by `stallGuardBody`
when the handler begins, has come; the `Read` ends at the earlier (`BodyDeadline`,
`ReadTimesOut`).  A handler may read or not, return without having read, or wait
for its upstream for ever; a body that nobody has read is drained by net/http
without a deadline.  `BodyEnds` therefore says that the reading ends, and not
that the slot comes back.

### Gateway

What the cage may send is a set of records: routes, command lines of a push
(updates, deletions, shallow lines, capabilities), fields of a pull request.
`Relayed` and `Pulls` are what passes the gateway's checks, computed by
operators named after them.  GitHub is external: a relayed request is carried
out or not, and its answer may be lost or unfit either way.  It may make a pull
request that is no draft although a draft was asked for: `relayPull` leaves it
standing and says so in the audit (`Reason`).  `ReadyByHost` has this case beside
that of the host, which makes a pull request ready after it has looked at the
checks; the cage has none.  `getPullRequest` and `Ready` are the two requests of `goronation pr ready`.

### Cage

`lsn` are the sockets that listen on the child's port, each bind a new number,
and `ino` is the one whose inode `prove` recorded.  The child binds, proves,
exits, and is reaped in separate steps; others may bind the port whenever the
kernel lets them.  A request is parsed, gets a slot, looks at `quit`, dials,
looks at the pidfd, looks at the listener, and writes the head with the token:
eight actions with anything in between.  `TokenToProved` is about the socket
that was proved; it assumes nothing about who owns it, and the child may have
exited while `prove` ran.

### Serve

`proc[p]` is where a process stands and what it holds; `lock` and `file` name
the process that holds a flock or made a file.  `Launch`, `handleChatStart` and
`ensureTermSocket` start processes from every combination of arguments that
`parseRunArgs`, `serveArgs` and `pickAgent` accept; `own` marks one on a session
(or a login directory) of its own, which meets nobody.  The steps of the start
are `SweepStale` (look, lock, remove, unlock), `acquireLock`, `create`,
`startProxy`, `Start`, the attempts of opencode with their reaping, `lockSock`
and `Listen`; each may fail and then unwinds as the code does.  `Shutdown` and
the steps after it are the defers of `runServe`; `Signal` and `Kill` come at any
time.

### Abstractions

* An event weighs one unit, or two if its seq is in `Big`.  In the bounded
  queue, the fixed part of an op and its pins together weigh one unit.
* How long a commit takes is a free choice in `judge`, so every pattern of
  slow and fast commits is covered.  How many ops `take` takes is free too
  (at least one): the real limits are among the choices.
* `Store.Range` returns at most `Batch` rows; its limit in bytes is left out.
* A failed SQLite call has changed nothing (the code rolls back).  A row that
  fails the checks of `storedEvent` is a failed read.
* `FirstUnpinned` reports a failed query as "none": `Trim` may return 0 at any
  time.
* The content of a request is a model value, and its `content_hash` is the
  identity of the content.
* The queue's two limits (lines and bytes) are one, `MaxLines`.
* `maxSeenRequests` (2^17 ids) is not reached; `lastErr`, which suppresses
  repeated error events, is left out; wording, rendering and SSE framing too.
* In the program `MaxPending` (8) is below the Hub's `MaxPinned` (16), so
  there a pin is never dropped for lack of room; `EventHub` still models that
  case, and `Conversation` pins without a limit.
* Cryptography is its ideal: a signature, a MAC or a wrap is right or wrong.
* Text, tool and usage events of opencode, and `Stream.calls`, which joins
  them, change nothing that is modelled and are left out.
* `Serve` has one session; the total limit of all logs is a failed start.

## 3. Runs

| Run | Config | States | Question |
|---|---|---|---|
| `event_hub` | `MCEventHub.cfg` | 194,677 | Is a durable event ever lost between ring and log, does first_seq stay honest and monotone, do pins survive, does the writer drain and end? |
| `chat_stream` | `MCChatStream.cfg` | 431,450 | Does a page that reconnects get everything it was promised, is a waiting request never skipped, is what it misses unawares only what a Trim deleted, and does its stream end after `Hub.Close`? |
| `silent_hole` | `MCSilentHole.cfg` | – | Does a page always learn of what a Trim took away? (violated) |
| `conversation` | `MCConversation.cfg` | 482,268 | Is each request decided at most once, is the agent told only that, and does Stop end everything? |
| `lost_verdict` | `MCLostVerdict.cfg` | – | Has every request a published resolution, even if a line was too large? (violated) |
| `opencode` | `MCOpenCode.cfg` | 517,433 | Is each request settled once, with the verdict that stands at the server, and does none linger? |
| `vault` | `MCVault.cfg` | 254,535 | Is every change audited first, does a reset destroy only what was confirmed, is every change atomic? |
| `webauthn` | `MCWebAuthn.cfg` | 920,966 | Does a ceremony authorise once, do revoked sessions stay revoked, do passkeys change only with authority, once the file has a key? |
| `egress` | `MCEgress.cfg` | 52,691 | Is every tunnel accounted for, is no tunnel open after `Close`, does `Close` return, does the reading of a trickled body end? |
| `gateway` | `MCGateway.cfg` | 205,977 | Does the quota hold, is only the session's namespace changed, can the cage make no pull request ready? |
| `cage` | `MCCage.cfg` | 186,384 | Does the token reach only the proved socket, is the start always reported, does the cage end with its host? |
| `serve` | `MCServe.cfg` | 270,915 | Does no process take away what another uses, is there one cage, does nothing stay behind? |

Deadlock is checked in `cage`, `opencode` and `serve`, whose proper ends are
explicit stuttering steps, and in `gateway`, which never ends; a conversation, a writer or a `Close` that has ended may stop, and in `vault` and
`webauthn` the bounds end the behaviour.  The modules define type invariants
(`TypeOK`, `StreamTypeOK`; `GatewayType` and `ServeType` with the proofs).
Those of `EventHub`, `Gateway`, `Cage` and `Serve` are proved as parts of the
inductive invariants; the others were checked by TLC on the bounds of the runs
and are not among their properties.

**Bounds.**

* `event_hub` publishes four events, up to two per Update, one of them large,
  into a ring of two units and a queue of four (two small ops): the ring evicts
  with the writer behind, level and ahead; the queue overflows; ops merge,
  including a pin and an unpin of one seq; two Trims run, the second with a
  formerly pinned row below the range the first one deleted; seq 0 is a row.
* `chat_stream` has one reader, because readers affect each other only through
  `degraded`, which `BackfillFails` may set at any time.  With a ring of one
  event, a batch of one row and three events, one of which may be pinned, the
  reader resumes more than once, backfills in more than one batch, is overtaken
  by a Trim between any two of its steps, and overflows its live queue while it
  backfills; the pinned request leaves the ring, is in the log or only in
  memory, survives a Trim, and is unpinned while the reader is away.
  `silent_hole` has four events and no pins, which play no part in it.
* `conversation` has a permission and a form with room for one of them to wait
  (so the other is refused), two contents for one id (an answer to the wrong
  content), room for one settled id (so ids are forgotten), one line of queue
  (so a write is refused), two turns (so a request of the first is answered in
  the second) and one oversized line.  `lost_verdict` needs only one content
  and one turn.
* `opencode` has three sessions (ours, and two that are children of it, a child
  and a grandchild, or strangers, with room for two children), a permission and
  a form, and two events and one request in flight, so that any two cross.
* `vault` has two processes, two passkeys, one entry and two vaults, so that a
  reset can meet another vault than the confirmed one; two documents may be
  left unconfirmed.
* `webauthn` has two passkeys, two handlers, two challenges, two revocations,
  one run of `web token`, and a clock of three moments against lifetimes of one,
  so that everything expires and is used at its last moment.  The file has no
  passkey and no key at first, or one or two passkeys and a key.  `MaxUnsigned`
  (one) bounds what a file without a key makes arbitrary: the unsigned claims
  that `used` remembers, and the challenges drawn afterwards.
* `egress` has two connections for one or two slots, and an audit queue of one
  line, so that slots run out and lines are dropped.  A body is read any number
  of times.
* `gateway` has two requests, pushes of up to two commands (and one more, which
  is refused), a quota of two and two commits.
* `cage` has two requests with one slot of each kind, and two sockets of
  others, so that the port changes hands twice.
* `serve` has two processes, one repository and room for two starts of web (the
  program has four; with two processes more cannot happen), and a session
  recorded with opencode, whose start has more steps.  Two processes are enough
  for the lock and file races of pairs; the proofs cover any number.

**Fairness.**  `EventHub`: an Update that holds the mutex goes on, and the
writer goroutine runs when it can: the Go scheduler gives both, and each Store
call returns.  Nothing obliges the conversation to publish or to close.
`ChatStream` adds that a handler goes on sending (its writes have a deadline,
after which it is a `Disconnect`); no fairness on the page, on dialling or on
disconnecting.  `Conversation`: goroutines run on (`OnStop`, `drain`, `Finish`),
an agent whose cage was stopped exits, and a write to an agent that has exited
fails.  An agent is *not* assumed to read its input, to answer or to exit on
its own.  `Egress`: goroutines run, time passes (`Stall`, `Late`), a `Read` ends at
its deadline, a relay ends when its context is done, and net/http ends a request
whose body was read, since the deadline of the last `Read` stays on the
connection; nothing is assumed of clients, of a handler of the gateway or its
upstream, of net/http with a body that was not read, or of the disk behind the
audit log, whose `Drain` is bounded by a timer.  `Gateway`: a handler that has begun goes on, because its request to
GitHub is bound to a context that ends; no property checked rests on it.
`Cage`: the goroutines of PID 1 run and its timers expire, and a process that
has begun to exit ends; the child and the host owe nothing.  All are weak
fairness.  `OpenCode`, `Vault`, `WebAuthn` and `Serve` assert safety only and
assume none.

### What the runs found

1. **A silent hole** (`silent_hole`).  `Backfill.Next` compares `trims`, then
   reads rows (`durable.go:456-470`).  A Trim between the two leaves a
   non-empty batch with rows missing below it, and the batch is returned
   without a second comparison; only an empty one is checked again.  The page
   advances `lastSeq` past the deleted rows; the next call notices the Trim and
   hangs up, but the first_seq of the new hello is then not beyond
   `lastSeq+1`, and the page never shows that something was omitted.  The
   comment there says that it will.  `HolesAreTrimmed` (run `chat_stream`)
   bounds the damage: what is missed without notice are only rows that the
   garbage collection has deleted.
2. **A request settled without a resolution** (`lost_verdict`).  `Feed`
   refuses all events of a line when one is too large, after the `Stream` has
   already closed its requests.  They still wait in the conversation; an answer
   is then refused by the `Stream`, and `writeResolveLocked` settles and unpins
   the request without publishing anything, although v0 promises exactly one
   resolution per request.  That there is never more than one (`SettledOnce`)
   and the contract with the agent (`ImplementsApproval`) hold even then, as
   `conversation` shows.

Seen while modelling, without a run of their own:

* `ErrAfterNotIssued` is documented as "the caller falls back to the full
  replay" (`eventlog.go:33`), but `Backfill.Next` takes it for a failed read and
  degrades for the rest of the session (`durable.go:461-463`).  A page reaches
  it by resuming after an event that was published but is not durable, once the
  ring has moved on and no later durable event was written.
* A failed start of opencode closes the proxy and gives up its lock before it
  has waited for the cage: for that time another process can start a cage on
  the session.  `OneCage` leaves such a start out, and processes that were
  killed.
* A process that sweeps holds the flock of another session's directory for a
  moment; a serve of that session that starts just then fails with `ErrLocked`.
* `pr ready` cannot name the commit it has checked: a push between its query
  and its mutation makes a commit ready that nobody has looked at.
  `ReadyByHost` is about what was seen.
* `web token` writes the whole state file from another process, and can undo
  what a handler has saved meanwhile, a revocation among it.
* `webauthn/doc.go` says that the first passkey is registered with the bootstrap
  token.  On a state file that `web token` has never written there is no
  `SessionSecret`, and `RegisterFinish` (`ceremony.go:241`) does not look whether
  there is one, as `VerifySession` does (`ceremony.go:341`).  `ChangeAuthorised`
  says this of files with a key only.
* `auditLog.Write` reports success whatever happens to the line, so a tunnel is
  granted although its line is dropped; the drop is counted, unless the line is
  still in the queue when `auditCloseWait` is over.
* The deadline of a body is set by `stallBody.Read` only: a handler of the gateway
  that returns without reading it, or waits for its upstream, has none.

## 4. Proofs

TLC checks a small instance; the theorems hold for every value of the constants
that satisfies the named assumptions.  Every inductive invariant was first
checked by TLC on the bounds of its run.

### The Hub and its log

The first part of `ChatStream_proofs` proves the safety properties of `event_hub`, from
`BigAssumption` (sizes are one or two units) and `HubAssumption` (limits are
naturals, `GCTarget <= GCMax`, `SlowRun > 0`).  `MaxSeq` and `MaxBatch` are
bounds of the model but arbitrary naturals in the proofs.

None of the properties is inductive: whether an evicted event is in the log
depends on what was confirmed, which depends on what was queued, merged and
applied.  The inductive invariant `IInv` follows an event along that path:

* `WriterShape`: what the writer's registers hold in each of its positions;
  `trims` is odd exactly while a Trim runs; a degraded writer has no queue.
* `InFlight`: the op in the writer's hands holds durable seqs above `W`,
  without a gap.
* `InQueue`: the queued ops follow it, each above the ones before it.
* `Covered`: unless degraded, every durable event is at most `W`, in hand or
  queued: nothing falls between two places.
* `EvictedConfirmed`: unless degraded, a durable event that left the ring is
  at most `W`.
* `LogEnd`, `LogRows`: `last` is `W` outside the gap between the call of Apply
  and its confirmation; the rows are the durable events up to `last` except
  those a Trim deleted.
* `PinsTravel`, `PinnedKept`: a pin travels in the op that appends its event,
  nothing on the way clears it while the Hub holds it, and once it has arrived
  the row stays.
* `BelowFirst`: every deleted seq is below the first_seq that is, or is about
  to be, announced.

`Invariance` proves it step by step, one lemma per action; the theorems
`TypeCorrect`, `EvictedStored`, `FirstSeqIsHonest`, `PinnedIsKept`,
`ApplyInOrder`, `WriterDrained` and `FirstSeqGrows` follow.

### The readers

`ChatStream_proofs` then shows that the composed specification implements the
Hub's (`StreamImplementsHub`: every step of a reader is a stutter or
`ReadFails`), so the Hub's theorems hold with any number of readers
(`HonestToReaders`).

`StreamComplete`, `PendingSeen` and `HolesAreTrimmed` need, besides
`StreamAssumption` (queue limits are naturals, a batch has a row), an invariant
that compares a page with four things that move without it: the ring, the pins,
the log and the writer.  `SInv` is `IInv` and, for each page and its request:

* `PageOK`: up to its last seq the page has what is still in the ring and what
  is pinned; a durable event it has not was trimmed, or the page was told.
* `FillOK`, `RowsOK`, `EndOK`: while the request reads the log, what is behind
  the ring was confirmed before it began, and as long as `trims` still has the
  value it compared, the rows it has sent and those it holds are all there are.
  A backfill ends only with a comparison after its last, empty batch, and that
  one covers all batches before it; so a stream that goes on to the snapshot is
  complete, and the silent hole of section 3 is one of a stream that hangs up.
* `LiveOK`: the snapshot and the live queue together have what is left.

A step of the Hub or the writer changes none of the pages but all they are
compared with; `HubMoves` does this once, from what every such step respects
(`Onward`: `head`, `written`, `trims` and `storeTrimmed` only grow, and a pin
is new or stays).

### The conversation

`Conversation_proofs` needs `ConversationAssumption` only (limits are naturals).
The methods of a `Conversation` are functions applied one after another to a
conversation and a `Stream`, so the invariant is stated on such a pair
(`Consistent`) and proved for each function: an id stands for one item and one
card (`Named`); a verdict is one and final, and nothing is left that would
publish another (`Final`); the Hub pins what waits (`Pinned`); and while no line
was refused as too large the tables agree (`Agreeing`).  `Grows` is what each
function respects: cards and verdicts stay, and an id that was seen does not
come back.  `Resolves` is the shape that answers, expiry and withdrawals have in
common, and `ResolvesKeeps` the lemma they share.

`CInv` adds the other half, the lines: each says what was published (`LineOK`),
and there is at most one reply to a request in the queue, in the hand of `drain`
and at the agent together (`OneReply`).  `ShownIsSettledOnce`,
`OnlySeenIsAllowed` and `ConversationTablesAgree` follow.

`ConversationImplementsApproval` is the refinement: `Grows` says that a status
moves once and stays, `LineOK` that what the agent is told is that status, and
`Consistent` that one step of a conversation, which may settle several
requests, is a step of `Approval` or none.

### The opencode adapter

`OpenCode_proofs` needs `OpenCodeAssumption` (limits are naturals, permissions
are not forms, the names of nothing and of the root are not sessions).  What
makes `OInv` long is that the server, the events on their way, the page and the
lines on their way back speak of the same request at different times:

* `EventOK`, `LineOK`, `WaitingOK`: an event that is on its way, or a line, is
  still true of the server in what cannot change (session, hidden part), and
  only a request shown in full is allowed.
* `TreeInv`: the sessions in scope are a root and what is below it.
* `SeenOK`: what `seen` says of a request determines its verdicts; one that
  `us` has answered has its line still in the queue, or the server took it.
* `GhostOK`: for a request the server has given up, an event that makes the
  `Stream` give it up too (`Kills`) is on its way, behind every event that
  would still show it.

`GhostOK` depends on the server's tree, and `Below` says which sessions are below
one without recursion.  It holds because the server gives up the requests of a
session when that session ends, or the root above it, and announces either: a
child whose end silently took the requests of the sessions below it would leave
them on the page, since the adapter closes a whole tree only for the root.
`RequestsSettleOnce`, `VerdictsAreTrue`, `AllowedWasShown` and `NothingHaunts`
follow; `OpenCodeTypeCorrect` adds the limits (`PendingLimit`, `FlightLimit`).

### The vault

`Vault_proofs` covers any number of processes, passkeys, entries and vaults.
`VaultAssumption` says that limits are naturals, that passkeys and names are
finitely many, and that the value that stands for "no file" is none of the
documents, neither of `Vault` nor of `AtomicVault`.  `VInv` says that every
document on the disk, or that a loss of power may bring back, is one that opens
(`FInv`, `Sound`), and for each process with the flock what its place in an
operation means: `Writing` (it works on the document of the disk; what it is
about to write is one `Change` away from it, and its line is the last of the
audit log) and `Resetting` (until the file is removed it is the confirmed one).

`VaultAuditedFirst` and `VaultResetConfirmed` follow, and two facts that no run
checks under a name: `NoLockout` (every document there is, or may be, opens with
each of its passkeys) and `OneInside` (the flock is enough, although a kill
releases it at any point).  `VaultRefinement` maps `disk` and `back` to what
they show through their passkeys: `Rename` is one of the operations of
`AtomicVault`, `Sync` its confirmation, `PowerLoss` a choice among what may be
left, and all other steps are invisible.

### The passkeys

`WebAuthn_proofs` needs `WebAuthnAssumption` (limits and lifetimes are
naturals).  `OnceOnly` rests on `Spent`: `consumeLocked` forgets a challenge
only when no token that was signed for it can still be accepted; unsigned claims
cannot bring it back, since `Spent` speaks of `used` and of the tokens handed out.
`RevokedForGood` and `ChangeAuthorised` rest on `Derived`: what the holder of
`Store.mu` is about to save was made from the file as it is now, unless `web token`
has raced, and its change of the passkeys is `Founded` (the first, by a signed
token) or `Told` (a later one, by an Assertion).  `SInv` says that as long as not
`unsigned` a file with passkeys has a key, so that every Assertion on it is signed.

### The gateway

`Gateway_proofs` needs `GatewayAssumption`: finitely many requests at a time and
natural limits.  That the pull requests made and the quota left stay within the
quota is not inductive, since a handler has taken from the quota before its pull
request exists.  `Spent` counts these handlers too, and `Checked` says that the
refs a handler is about to relay have passed `ReadPush`, whatever the number of
commands.  `QuotaIsKept`, `NamespaceIsKept` and `ReadyOnlyByHost` follow; the last
from `PullMade`: a new pull request was asked for as a draft, and if it is none
its line in the audit is not that of a plain success.

### The proxy

The second part of `Gateway_proofs` is about `Egress`, from `EgressAssumption`
(finitely many connections, a queue and a limit of at least one).  `PInv` ties
the counters to the places of the goroutines: `wg` is the number of connections
that are handled (`Counted`), `conns` the ones among them that are not released
(`Tracked`), `dropped` the number of lines that were lost.  `Stages` says what
`hostProxy.Close` has done at each of its places: once it has waited, nobody is
counted, and `addConn` lets nobody in.  `PlaceOK` says where a handler may hold
an upstream connection and what has then become of its line.
`TunnelsAreAccounted` and `ClosedStaysClosed` follow.

### The cage

`Cage_proofs` needs `CageAssumption` only.  The argument of
`TokenGoesToProved` is one about time: `Alone` says that while the proved socket
listens it listens alone and that, since sockets are numbered as they are bound
(`Numbered`) and the child binds once (`Proved`), it does not come back once it
is gone.  Hence `Taken`: a connection that another socket took tells that the
proved one is gone, and the look at the listener, which comes after the dial,
must then fail.  `Unshared` is what `portSharable` establishes before the inode
is recorded.

### The host processes

`Serve_proofs` covers any number of processes and repositories, from
`NoneAssumption` and the assumptions on the constants.  `SInv` has four parts
for each process: `Shape` (where the egress and the cage stand at each point of
its life), `Holds` (the flocks it holds there), `Has` (the files it relies on)
and `Only` (no file is its own longer than it needs it, unless it was killed).
The lemma `Frame` reduces a step of one process to that process: a step changes
a lock only by taking or releasing it, and a file only while its lock is its own
or free, so the others keep what they hold and have.  One lemma per group of
actions shows that each is such a step.  `LogStaysInUse`, `SocketsServe`,
`OnlyOneCage` and `NothingIsLeft` follow.

### Only model-checked

* Liveness (`WriterEnds`, `StreamEnds`, `StopEnds`, `CloseReturns`, `BodyEnds`,
  `StartReported`, `HostGoneEnds`), which is beyond the prover.
* `TypeOK` of `Conversation`: `settled` is the result of a fold over the items
  in order, and what a fold returns is an induction over data.  The theorems do
  not need it: `IsConversation` leaves `settled` open, since in the code it
  decides only with which error a late answer is refused.
* The two counterexamples of `silent_hole` and `lost_verdict`.

## 5. Not modelled, and why

* Namespaces, mounts, Landlock and seccomp of the cage: the kernel decides; a
  model of the arguments would show nothing.
* The byte relay of `relay.go`, web's relay to a chat socket and the terminal's
  relay: they copy bytes and hold no state between requests.
* The session store: it makes directories under random names and exports
  patches, one process at a time.
* Cryptography, CBOR, SQL, pkt-lines, JSON, HTTP framing, rendering: their
  results enter as success or failure.
* Text, tool and usage events of both adapters: they are passed on and decide
  nothing.
* A recovery of a conversation after a crash of `serve`: its log is removed at
  its end and a stale one is swept (`Serve`), so nothing is recovered.
* Development tools, test servers and core types.

## 6. Plan

Done: all modules of section 2 with their runs, and the proofs of section 4:
every safety and action property that a run checks is a theorem.  What is worth
adding, in this order:

1. Theorems about the abstract specifications themselves: that `Approval` tells
   the agent nothing but the decision, and once, and that `AtomicVault` never
   shows a document nobody saved; with the refinements they carry over.
2. `HolesAreTrimmed` strengthened to the exact window in which a hole can open,
   so that a change of `Backfill.Next` can be judged by the proof.
3. `Conversation` over the `Stream` of opencode, as one composed module, with
   the invariants `Consistent` and `OInv` side by side.
