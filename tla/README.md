# whalevet: specifications

TLA+ models of whalevet, checked with TLC and, for the safety properties, proved
with TLAPS for all values of their constants. whalevet is a proxy on a Unix
socket in front of the Docker daemon: it refuses images a policy denies, adds CA
certificates to the images containers are created from, and edits Dockerfiles
while builds stream through it.

Paths are relative to `src/`. `tlc -workers 2 -config X.cfg M` checks one
configuration, `tlapm M_proofs.tla` the proofs of a component.

## 1. Inventory

| Component | Source | State | Operations | Talks to |
|---|---|---|---|---|
| Session splice | `internal/proxy/sessionsplice.go` | `connWin`, `strmWin`, `initWin`, `targets`, `stat`, `buf`, `closed` under one mutex and a condition variable | two pumps, `waitWindow`, `writeMessage`, `applyWindowUpdate`, `applySettings`, `markClosed`, `run` | client and daemon over HTTP/2 frames; the pumps share the fields |
| File sync rewriting | `internal/proxy/session.go`, `sessionsplice.go` | the last `Stat` per stream; the session's rules | `identify`, `emitMessages`, `rewriteDiffCopyData` | called by the splice's pumps; Dockerfile editing |
| Server lifecycle | `internal/command/serve.go` | `serverState`: listener, its address and path, `shutdown`, `closed`, `wg`, `reloadMu` | signals, `reload`, `watchConfig`, `acceptLoop`, shutdown | the file system, signals, a handler per connection, `HTTPProxy.SetConfig` |
| Container create | `internal/proxy/http.go`, `policy.go`, `internal/image/commit.go`, `internal/cache/cache.go` | image cache under a lock; images and containers live in the daemon | policy check, cache lookup, inject (inspect, create, extend, commit, remove), forward; pull check | the daemon's API, the configuration, env files (`ExpandEnvFiles`, `http.go:485`) |
| gRPC body rewriter | `internal/proxy/grpcfilter.go` | the message in hand, held tar, `done`, `tarFail` | `Read`, `nextMessage`, `handleTarMessage`, `finishTar` | the h2c bridge pulls from it |
| h2c bridge | `internal/proxy/h2c.go`, `buildkit.go` | one transport per connection | `serveH2C`, `snapshot` | net/http, x/net/http2, the body rewriter, env files, Dockerfile editing |
| Dispatch and tunnels | `internal/proxy/http.go` | the two connections | `ServeConn`, `forwardHTTPConn`, `tunnelUpgrade`, `tunnelRaw`, `copyToThenClose` | every handler; client and daemon |
| Legacy build | `internal/proxy/http.go`, `internal/tarutil` | the tar and its edited copy | `handleBuildConn`, `loadCertFilesForTar`, `ExtractDockerfile`, `RebuildTar` | env files, Dockerfile editing, `forwardHTTPConn` |
| Dockerfile editing | `internal/image/dockerfile.go`, `env.go`, `cacerts.go` | flags and lists of one call of `modify` | `ModifyCopy`, `ModifyInline` | builds, sessions, the splice |
| Env files | `internal/config/envfile.go` | the `Env` maps of the shared configuration | `ExpandEnvFiles` | builds, sessions, container creates |
| Configuration | `internal/config/config.go` | none | load, validate | server, commands |
| Commands | `internal/command` (but `serve.go`), `cmd` | shell files, systemd units, images | setup, uninstall, status, doctor, validate, prune | the user's system |
| Audit log, version | `internal/proxy/logging.go`, `internal/version` | none | output | - |

What is hard, and what correctness means, for the parts with concurrency or
failure:

- **Session splice.** Flow control by an intermediary that holds bytes back and
  lengthens messages: what is checked, written and deducted are three steps, and
  the other pump changes the budgets between them. Correct: never more than the
  daemon granted; the client never starved by an edit; nobody asleep who could
  proceed or when the session is over; a frame that is only relayed waits for the
  connection and not for the Dockerfile. Padding, which HTTP/2 counts and the splice does
  not, must not make the accounts drift by more than itself.
- **File sync rewriting.** Two streams of packets on one connection, paired by
  position. Correct: in order, once each, only a whole Dockerfile edited, and no
  such Dockerfile left out.
- **Server lifecycle.** Four kinds of goroutine, two callers of `reload`, errors at
  every system call, signals over a channel of one place. Correct: always
  reachable at the current path; listener and configuration agree between reloads;
  nothing older overwrites something newer; no handler cut off by the exit; signals
  and connections answered.
- **Container create.** Concurrent requests over one cache, every daemon call
  may fail with or without effect, and restarts. Correct: the container runs
  what was asked for; the cache names images that exist; temporary containers are
  removed; a create is refused only if the image is really missing.
- **Body rewriter.** Caps and errors in the middle of a message. Correct: the
  bytes that come out are those that went in, except for edited Dockerfiles; every header
  has the length of what follows it, also when an edit has changed that.
- **Env files.** Unsynchronised writes to maps that every request reads, which may also
  kill the process. Correct: inline entries win and no key of a file is missed, whoever
  merges at the same time; what a session uses does not change under it.
- **Dockerfile editing.** One pass with flags and lists that are cleared on the way.
  Correct: the client's lines in order, each block once and where it belongs.
- **Legacy build.** A Dockerfile and a tar that must fit each other although files
  cannot be read or have colliding names. Correct: what the edited Dockerfile copies is
  what the tar unpacks to; every build ends.
- **Tunnels.** Two copies that end each other by closing. Correct: when one end hangs up
  both end; until then nobody loses what was sent.

`PROJECT.json` lists the hazards one by one, each at its line.

## 2. Modules

| Module | Models | Role |
|---|---|---|
| `SendWindow` | what HTTP/2 promises of a sender | abstract specification |
| `SessionSplice` | both pumps, windows, held bytes, teardown | implements `SendWindow` |
| `EditingPipe` | what the rewriting of a file sync promises | abstract specification |
| `DiffCopy` | how streams are marked and packets paired and edited | implements `EditingPipe` |
| `Server` | main, watcher, accept loop, `reload`, shutdown | |
| `ContainerCreate` | create and pull requests, cache, injection | |
| `GrpcFilter` | the reader that rewrites a gRPC body, and the call around it | |
| `EnvFiles` | the expansion of rules over shared maps | |
| `DockerfileEdit` | `modify`, a line at a time | extends `EnvFiles`, whose maps it ranges over |
| `Forwarding` | forwarding a request, and the tunnels | |
| `LegacyBuild` | `ServeConn`, builds, what a session does with rules and Dockerfiles; tars | composes the three |
| `MC_*` | constants of the runs | |
| `*_proofs` | theorems of the module they extend | |

The components meet at narrow places, and each model has the other side of that
place as an environment. `SessionSplice` counts bytes and lets an edit lengthen a
message by any amount of `Growth`; `DiffCopy` says which message is edited and
treats a packet as one unit: between them is the call `writeMessage(sid, m)`.
`Server` starts and awaits handlers; `ContainerCreate` is one kind of handler, and
its `Reload` is the `SetConfig` that `Server` performs, as is `LoadConfig` of `EnvFiles`.
`LegacyBuild` is a composition: its steps are steps of `EnvFiles`, of `DockerfileEdit`
and of `Forwarding`, put in the order of the handlers by the place `at[c]`; that it
implements `EnvFiles` and `Forwarding` is proved.

### SessionSplice (`sessionsplice.go`)

One variable for each field of `sessionSplice`, one program counter per pump
(`upAt`, `downAt`) and the locals the pump carries from one step to the next:
`sid`, `need` and `pad` (payload and padding of the frame in hand), `msg` (bytes left of the message
being cut), `rest` (bytes of complete messages not yet taken), `job` (`cut` for
`writeMessage`, `relay` for the frame `pumpDownstream` passes on). A step ends
where the code releases the mutex or calls the network, so the three steps of
`waitWindow`, write, `spendWindow` (in this order for cut frames; wait, spend,
write for relayed ones) interleave with everything `pumpUpstream` does.
`Awake` is the broadcast on `winCond`; `TearDown` is `run` closing both
connections after the first pump.

External to the code and modelled from how it is used: the client, which sends only
what the credit it was forwarded allows, and the daemon, whose side of the
window is `daemonWin`. A peer receives in the step in which the proxy writes.

A client may pad its DATA frames (`Paddings`; the clients of Docker, written in Go, do not).
`readH2F` strips the padding from `payload`, so a relayed frame is waited for and paid for
by `need` and goes out as `OnWire == need + pad` bytes, and of a frame of a target only the
payload is held. `unpaid` and `stripped` keep the account of what this costs the daemon and
the client; the code has no such variables and no step looks at them.

### DiffCopy (`session.go`, `identify`, `emitMessages`)

`ReadHeaders`, `ReadContinuation` and `Forward` are `pumpUpstream` over header
blocks, in one frame or several. `PassStat`, `PassData` and `PassOther` are the
branches of `emitMessages`; a message that is compressed or does not parse takes
the same path as a packet of another kind. The streams are sequences of packets with an
index `taken`, since what is behind the index matters to the abstract
specification. A packet carries the file it belongs to (`fsutil` names it by an
id): the client knows it, the proxy never looks. The client sends, for each file, a
Stat and then some or all of its bytes in one packet or several; `Interleaves` says
whether it may go on to the next Stat before.

### Server (`serve.go`)

`at["main"]` and `at["watcher"]` are places in `runProxyServer`, `watchConfig`
and, for both, inside `reload`; `acceptAt` in `acceptLoop`. One action for each
mutex section, channel operation or system call. The file system is `bound`
(which listener answers at a path); `Close` unlinks the path as Go's Unix listener
does, whoever is bound there by then. `sigChan` is a sequence of at most one
signal; `Offer` drops what does not fit, as `os/signal` does. `watchConfig` loads
on any event, so bursts of events are a counter.

### ContainerCreate (`http.go`, `commit.go`, `cache.go`, `policy.go`)

A handler per request with its place `at[h]`: policy, rules, cache lookup,
certificates, inspect, create, extend, commit, remove, store, forward. Every daemon call has
an action for its failure. The daemon is external: `images` by name, temporary
containers by request, and `Resolve`, the rule by which it reads a reference. An image
is a version of some name, the certificates it trusts and the label. A reference
has its parts, because what `MakeProxyRef` and `splitRef` do to them is where a
wrong image could come from. Around the handlers: pulls, `prune`, changed
certificate files, reloads, and a crash that loses the cache and the handlers
but not the daemon's images and containers.

### GrpcFilter (`grpcfilter.go`, `proxyH2CStream`, part of `tarutil`)

The variables are the fields of `grpcRewriteReader` (`out`, `done`, `tarBuf`,
`tarFail`), what `Read` returned last (`result`) and what the client has of the
answer (`answer`). The reader is sequential: `ReturnData` and `ReturnEOF` are the
branches of `Read`, and while nothing is ready the client decides which way
`nextMessage` goes: a whole message (`NextMessage`), one over the limit that comes
whole, ends or breaks (`NextOversize`), an end before or right behind a header
(`EndOfBody`), or an error (`BodyBreaks`). Behind a message over the limit the client may
send on (`ClientGoesOn`), and the reader reads none of it: `unread` counts what is lost. `handleTarMessage` and `finishTar` are
part of these actions. A payload is a sequence of fields in the order of
their encoding, each with its nesting depth, so that `rewriteRecords`, which is recursive
in Go, looks at neighbours of the same depth; a field with number 0 stands for bytes
that do not parse and makes `parseFields` give up on its level and all within. A tar
is names and contents in turn. A field with a content of `Long` is longer than another, so
that an edit changes the length of its message, and the header before it
has to be made anew (`Framed`). `Answer`, `Refuse` and `Finish` are the handler, which may return
before the body is read.

### EnvFiles (`envfile.go`)

Go's maps are references: `copy(out, rules)` copies the rules and shares their `Env`
maps with the configuration and every other request; only a rule without an env table
gets a map of its own (`own`). `env` holds the shared maps of each load of the
configuration, `uses` says which load a request took. A look-up, a write and the two ends
of a range over a map are each a step. `Fault` is the Go runtime noticing two goroutines
at one map, one of them writing: it may notice or not, and then the process dies.
`ParseEnvFile` is in what a file may hold: a map, or `Bad`.

### DockerfileEdit (`dockerfile.go`, `env.go`, `cacerts.go`)

`content` is the list `parseDockerfile` makes, `line` the loop's position, and the three
flags are the code's (`pending` stands for `runBeforeEntrypoint` and
`envBeforeEntrypoint`, which are cleared together). The result is a list of pieces: a
line of the client, or a block with what it holds - which env values, rendered how, and
which certificates. What a block says in shell is left out. The reference definition the
result is compared with (`Place`, `Arranged`) knows neither flags nor loop, and leaves
open which side of the CMD or ENTRYPOINT line the blocks for it stand on.

### Forwarding (`http.go`)

`fwd` is the handler's place (dial, write, await the answer, copy, returned), `copier` the
goroutine's; `backend` and `accepted` say which connections the proxy still holds. A
hijacked stream begins as a request and becomes a tunnel. Pieces sent and passed on are counted
in each direction; those to the daemon from the moment the goroutine starts to copy, with
what the reader in front of the connection still holds (`StartTunnel`). The peers are
external: each sends and closes when it likes, a client also for writing only.

### LegacyBuild (`ServeConn`, `handleBuildConn`, `serveH2C`, `tarutil`)

`at[c]` is the handler's place, from the first look at a connection (`peek`) over the
rules, the certificates (one file a step, each read or not) and the edit to the
forwarding. A session (`IsSession`) takes its rules once and edits whatever Dockerfile
passes by them. A tar is a list of entries with names; `rebuilt` and `extra` say what
stands in the place of each and what is appended; `Unpacked` says what is there once the tar
is unpacked, where the last entry of a name counts. Locals of a handler that has returned are
set back to their first values: nothing reads them, and states that differ in
them only are one.

## 3. Runs

| Run | Question | Result |
|---|---|---|
| `one_target` | Is the splice, with one Dockerfile stream and another stream, a correct HTTP/2 sender, is the client never short of credit, and does every credit wake the pump that cuts a message? | holds, but for padding, by which the properties are weakened |
| `flow` | Do held bytes flow, does the pump come back, does a session end? | holds while a message fits the window and the client does not pad |
| `relay` | Does a relayed frame wait only until the windows cover it? | violated |
| `two_targets` | Does the one `strmWin` do for two Dockerfile streams? | violated |
| `lifecycle` | Reloads, failures, connections and shutdown racing | holds |
| `tagged` | Two creates at once over tagged references, with failures, pulls, prunes, reloads, restarts | holds |
| `digest` | The same for a reference by digest | violated |
| `documented` | Three file sync streams in the packet order `session.go` documents | holds |
| `entries` | Stats that run ahead of the content | violated |
| `body` | gRPC bodies of any method, ending or breaking anywhere, below and above the limit | holds |
| `builds` | Builds, sessions and tunnels at once over one configuration | holds |
| `half_close` | Does a client that only stops sending get the whole answer? | violated |

The violated runs are findings, each against a sentence of the repository:

- `relay`: `waitWindow` makes every relayed frame wait for `strmWin` too, which is 0
  until a Dockerfile stream is marked; and the marking raises it without waking the
  pump, which sleeps on over a frame that both windows cover.
- `two_targets`: a second Dockerfile stream resets `strmWin` and lends one stream's
  credit to the other; a frame goes out that the daemon did not grant.
- `digest`: `repo@digest` is committed as `repo:latest` under the injected prefix
  but requested by digest, which no image has.
- `entries`: only the last Stat of a stream is remembered, so a Dockerfile whose
  Stat is followed by another file's goes unedited. The README promises streams of
  several entries.
- `half_close`: `copyToThenClose` closes the connection to the daemon when the client
  stops sending, so that `docker exec -i` with its input at an end loses output.

Two disagreements are excluded from the runs by their constants instead:

- a SIGTERM that arrives while a SIGHUP is queued behind a running reload is dropped
  (one place in the channel, `serve.go:96`): `QueuedTermEnds` speaks of signals that
  were queued, where `serve_test.go` has every SIGTERM end the process;
- `reload` compares spellings of an address, `openListener` trims slashes: a reload from
  `unix:/x` to `unix:///x` binds the path that closing the old listener then unlinks.
  `TwoSockets` in `MC_Server` and `DistinctSockets` in the proofs say that this does not happen.
  Nor does the other half of it, that a reload which fails to listen has removed the path of
  the running listener (`serve.go:199`).

Five more have no run of their own either; the properties name them as conditions:

- "Every DATA frame goes toward the daemon's connection window; wait for the daemon to
  replenish it before flooding past its budget" (`sessionsplice.go:431-432`), but the padding of a
  relayed frame is written and neither waited for nor spent (`292-301`, `433-439`).
  `ConnectionNeverOverrun` holds up to the padding relayed (`unpaid`): a client that pads
  overruns the daemon's window, as TLC finds at once if `unpaid` is left out of it;
- the padding of a target's frames is paid for by the client, stripped (`298`, `419`) and
  credited by nobody, so that such a client runs out of credit in the end. `ClientNeverShort` and
  `HeldBytesFlow` say "but for the padding stripped";
- "before_entrypoint" blocks go behind the CMD or ENTRYPOINT line (`dockerfile.go:153-189`,
  and its test, `dockerfile_test.go:28-43`) and not before it, as the comment at
  `dockerfile.go:176` and `config-example.toml:96`, `147-148` have it. `EditedAsPlanned` holds of
  either side; which one it is, `EditPlaced` proves;
- "Existing entries with colliding names are replaced" (`tarutil.go:67`): only the first of a
  certificate's name is (`78-81`), and a later one overwrites it when the tar is unpacked.
  `CopySourcesSent` assumes a context with each of these names once (`PlainContext`), which are no
  directories or links, and not the Dockerfile's;
- "Anything else (HTTP/2, upgrades) is tunneled to the Docker socket untouched" (`http.go:116`): of
  what is not HTTP, the bytes `ReadRequest` has consumed are lost, and those it
  has not are peeked, written by `tunnelRaw` and then copied once more from the same reader
  (`142`, `265`, `267`). The pieces of `StartTunnel` include these; no property says that
  what the daemon gets is what the client sent.

While the parts of `LegacyBuild` were written these came to light:

- `ExpandEnvFiles` says it "returns a copy of rules" (`envfile.go:36`) and fills
  the maps of the originals. So a later edit of an env file changes no key that was merged before,
  until the configuration is loaded again; and an expansion after such an edit can add
  keys under a session, where `buildkit.go:20-21` has its behavior never change
  mid-stream. `SnapshotStable` has the condition that no file changes;
- only the first stage of a Dockerfile gets base blocks and certificates;
- a `from` pattern is applied to the whole line with its FROM, so `^ubuntu:`, the README's
  example, matches nothing;
- if no certificate can be read, the legacy form still has its COPY, without a source
  (`CopySourcesSent` holds of it: it copies nothing that is not there);
- a hijacked stream is copied from the connection and not from the reader in front of it, so
  bytes the client sent early are lost (`http.go:345`); the model has clients that wait
  for the 101.

While `GrpcFilter` was written three more disagreements with the comments came to light
that have no run of their own; the properties of `body` name them as conditions:

- a message over `maxGRPCBuffer` sets `done`. It is copied into `out` whole, and what the
  client sends behind it, or is held of a tar, is dropped and the body ended
  (`grpcfilter.go:63-65`, `85-89`), where the comment at `grpcfilter.go:22-25` has larger
  data pass through untouched. `CompleteAtEOF` speaks of what the client sent
  up to such a message, that one included, and says that without one nothing is unread or held
  (`NoneOversize`, also in `TarEditedWhole`);
- in tar mode flags are dropped and messages cut anew even if nothing is edited, so
  `TarEditedWhole` speaks of the bytes and not of the messages;
- when a message over the limit ends early in tar mode, the held tar is emitted behind it.

### Bounds

- *Windows of 2 to 3 bytes, frames of 2, messages of 1 or 2 that an edit lengthens by one.* Frame, message and
  window are then of about the same size, so that frames are split, messages span
  frames, windows run dry and go below zero by a SETTINGS. Two messages are enough
  for one to be buffered while the budget of the one before is still owed.
  `flow` keeps messages no longer than the window: a longer one never completes,
  because `pumpDownstream` withholds the bytes the daemon would have to
  consume. That is a limit of the design and is listed as a hazard. A frame of `one_target`
  may be padded by one byte, once on a stream; in the other three runs of the splice the
  client does not pad, since padding that is stripped starves it for a reason of its own.
- *Two configurations, two addresses, two edits, two signals, one connection.* Two edits
  let a reload be overtaken by a newer content; two signals fill the channel
  behind a reload. One connection is enough to be caught in each place of
  `acceptLoop` during a swap; the proofs cover the others.
- *Two requests, four references, certificate files with two contents.* The
  references are the same image with and without its tag, one whose image trusts
  the certificates already, and one that has the injected prefix already.
- *Three streams, three files, two rule sets, one packet of another kind.* A
  stream for a Dockerfile alone, one for another and its ignore file, and one that is
  not marked though it carries a Dockerfile. One Dockerfile has two bytes, so that
  it may come whole or in parts.

- *Limit of 4 fields, pieces of 3, up to three messages of 0 to 5 fields.* One message
  may be over the limit, two or three may be together; a tar of four is cut into a full
  piece and a rest. An edit makes a field longer, so
  that a message may exceed the limit by being edited. The payloads are a record bare, in a wrapper, beside bytes
  that do not parse, with a name that is no Dockerfile's, and one too large; the tars are whole ones
  and parts that make one together.

- *Two connections, two keys, one file with two contents or none, four rules, one
  certificate, two Dockerfiles, two tars, one change of configuration or file.* The
  rules are an env table with a file, a file alone, and two without either; two requests
  meet in each. The Dockerfiles are two stages, and an ENTRYPOINT before any FROM; the tars have a
  Dockerfile twice and a certificate's name, or neither. `MCBounds` leaves out
  interleavings that say nothing new: the connections are alike, so one may be taken to
  arrive first; requests meet in the maps alone, so data of one request varies for one
  of them only; a request inside `modify`, and a connection that is only forwarded, share no
  variable with the other. The last is what the theorems `BuildsExpand` and
  `BuildsForward` confirm for the general case. Liveness is checked under the same
  constraint: it removes interleavings and never the last step a connection can take.

`CHECK_DEADLOCK FALSE` stands in every configuration because each of these systems may stop:
sessions end, processes exit, requests are answered, inputs are bounded.

### Fairness

- Goroutines are scheduled: weak fairness on the steps of each pump, of main,
  the watcher and the accept loop. `run` waits for the first pump, so `TearDown`
  is fair too.
- `reloadMu` is a Go mutex, which hands over to a waiter that starves: strong
  fairness on `Load` for both callers.
- `flow` assumes of the peers what flow control needs: the daemon returns the
  credit for what it consumed and the client sends the rest of a message it
  has begun, each only while it is there. Strong fairness, because forwarding frames in
  between disables these actions for a moment.
- `lifecycle` assumes handlers return. The code cannot make them: nothing
  closes an idle tunnel, and the shutdown waits for it.
- `body` assumes that the daemon takes what it is sent, so that the transport goes on
  reading, and that the transport gives up a call whose body failed. Nothing is
  assumed of the client: its body may stay open for ever.
- `builds` assumes that while some handler or copy can take a step one of them does, which is less
  than fairness to each goroutine, and enough since each does a bounded amount of
  work; that the daemon answers and takes what it is sent is part of it. Peers of a tunnel need
  not ever send or close.
- No fairness is assumed of edits, signals, new connections, failures or
  crashes.

## 4. Proofs

`Spec => ...` for all values of the constants that satisfy `ConstantAssumption`.

**`SessionSplice_proofs`.** `TypeCorrect` needs `FrameInv`: the frame in hand is cut
from the message in hand, or the length left would not stay natural.
`ConnectionSafe` needs `ConnectionInv`, that `connWin` is at most what the daemon
granted *corrected by the frame under way*: a cut frame is written before it is
deducted, a relayed one deducted before it is written, and its padding never (`ConnectionCredit`
adds `unpaid`). `ReleaseSafe` and
`SpliceImplementsSender` add `StreamInv`, the same for `strmWin`, and assume
`SingleTarget`; run `two_targets` shows that the assumption is needed. The
refinement maps `credit` to the daemon's window less the frame in flight.
`SleepCorrect` follows from the same bookkeeping. `ClientCredit` needs `CreditInv`: for
each stream the client's credit, the bytes held and the padding stripped, *and the frame or
credit that is between the two pumps*, make up what the daemon granted.

What the liveness of a session rests on is proved as well:

- `ClosedWakes` and `TornDownEnds`: nobody sleeps in a closed session, and once the two
  connections are closed every step of `pumpDownstream` lowers `Rank`.
- `CreditIsConserved`: what the daemon granted and what it owes make up its windows
  (`LedgerInv`), for any streams and edits.
- `WaitCanEnd`: a pump that waits is owed what it waits for. The proof needs `ExactInv`,
  which makes equations of `ConnectionInv` and `StreamInv`, and two hypotheses:
  `SingleTarget`, and `WindowsHoldFrame`, that a window holds a frame. The second is the
  hazard at `sessionsplice.go:517`: with windows of 1 and frames of 2 TLC finds the wait
  that nothing ends.
- `MessageCanEnd`: a message that, with the padding stripped before, fits the windows can always
  be sent to its end. It needs the
  client's account of the connection (`ConnCreditInv`), which with one target is that of the
  stream. It assumes `SingleTarget`.

**`Server_proofs`.** `DrainCorrect`: `DrainInv` relates `closed`, the counter of
handlers and the places of main and the accept loop. `ListenerCorrect` and
`ReloadCorrect` rest on `MutexInv` (a caller is inside `reload` exactly when it holds
`reloadMu`), `PhaseInv` (what each line of `reload` may count on), `OpenInv` (which
listeners are open there) and `LoadedInv` (what a caller loaded is what is in the
file, unless an event is still to come). Only `ListenerReachable` assumes
`DistinctSockets`, that two spellings name two paths: which listener is open does not
depend on it, what a client finds at the path does. `NothingStranded` adds that the loop
is in `Accept` of a listener that is the current one or about to be closed, hence about
to return, and that closing a listener resets those who queue there. `TermIsKept` is the
buffer of one signal.

**`ContainerCreate_proofs`.** The proof follows an image around the loop: the
temporary container was made from what was asked (`BaseInv`), so a name with the
injected prefix holds a trusting version of its origin (`ImagesInv`), so the cache
names such an image (`CacheInv`), so does a request that took it from there
(`TargetInv`), so does the answer (`AnswerInv`). Names are proved for all references
(`NameInv`: `TagsKeepNames`, `TagsRefusedOnlyIfMissing`); `CacheCorrect` and
`RefusalCorrect`, which speak of all references, follow under `NoDigests`, and `digest`
shows why. Images need less, `DigestsApart`: the name an image asked for by digest is
committed under (which drops the digest) is no name that a reference means. Without it
TLC finds two references of one repository, by tag and by digest, of which the first gets
what was injected for the second. `DigestsNeverInjected` is what becomes of digests themselves: the injected
image is committed by tag and looked up by digest, so the container is made from the
original or refused.

**`DiffCopy_proofs`.** The properties speak of what the daemon received, which depends
on what the proxy remembered of what the client sent. `ClientInv`: before a Data,
other packets aside, is the Stat of its file or an earlier part of it. `MarkInv`: a
stream is marked before the client hears of it, hence before its first packet.
`ReaderInv`: `stat[s]` is the last Stat read unless Data came after it. `PipeInv`: the
daemon has the images of the packets read, in order. All but `ClientInv` holds whatever the
client interleaves (`AnyOrder`), and so does `EditsByTheLastStat`: what is edited, and that
nothing else is. That the Stat a Data is judged by is that of its own file takes
`ClientInv`, hence `~Interleaves`, in `EditsOnlyDockerfiles`, `RewritesDockerfiles` and
`DiffCopyImplementsPipe`; `entries` shows why.

**`GrpcFilter_proofs`.** `OrderInv`: outside the tar mode what came out are the images
of what came in, by the operator the step uses; `RecordsTyped` shows of that operator
what `PassedInOrder` says. `HeldInv`: nothing is held once the reader is done. `FramesInv`:
messages are whole until the body breaks, edited ones too (`FramedTyped`, of `Framed`);
`PiecesTyped` shows it of the pieces of a tar. `LastOversize`: a message over the limit is the
last one read, on which `EndCorrect` rests.
`TarInv`: until the tar is given up nothing of it has come out, and while the body is open
what came out, followed by what is held, is what came in; `PlainChunks` shows that the pieces
of a tar, joined, are the tar. It takes induction, which is said of a set of numbers
(`Reaches`, from the well-foundedness of `<`), and what `FlattenSeq` makes of a sequence one
longer (`FlattenAppend`). `TarKeepsOthers` follows from it: what the daemon has of the tar differs
only at the entries `RebuildTar` touches. `EndInv`: the reader knows of the end of the body, so
(`BodyRunsDry`) a `Read` always has something to return and what is left shrinks. There is no assumption but those on the constants.

**`EnvFiles_proofs`.** The invariant is per rule and per key: a shared map never loses a
key and never changes one (`LookUpKey` and `WriteKey` of one request enclose writes of others, but
only keys that were absent are written); what a request has still to merge is what it read
less what the map has. `SettlingCorrect` adds that an expanded request that saw the files as they are
has every key of them in the maps of its load. `ExpansionRunsDown` is a variant: rules left,
entries left, and whether a key is in hand. A merge of another request can take work off a
request, never add to it.

**`Forwarding_proofs`.** `CopierInv` remembers why the goroutine closed the connection to
the daemon, which is the only reason for the handler's copy to end early. `HangUpPropagates`
takes from `HeldInv` who holds which connection while the copies run: a copy that cannot move
a piece has a reason to end.

**`LegacyBuild_proofs`.** `BuildsExpand` and `BuildsForward`: every step of the composition is
a step of `EnvFiles`, or leaves its variables alone, and the same of `Forwarding`. They
carry the theorems of the parts over to the whole. `AtInv`, that only requests get past the
first look, is what the first of them needs. What is new in the whole is proved on top:

- `BuildTypeCorrect`. `BuildInv` adds to the types that a tar is kept only with a Dockerfile
  in it (so the `CHOOSE` of `Dockerfile` is never empty: `Greatest`), that every certificate
  has been tried before an edit begins, and that the blocks of a result copy no certificate
  but those that could be read (`OwnPieces`).
- `SourcesCorrect`. `SentInv`: a build that is about to be forwarded with a Dockerfile has
  the tar `RebuildTar` made of the one it came with, and nothing that this was made of has
  changed since. Of the entries with a certificate's name the first is the one that is
  replaced (`Least`), and in a `PlainContext` it is the last as well: `CertUnpacked` and
  `DockerfileUnpacked`.
- `EditPlaced` and `EditCorrect`. `SoFar` is the invariant of the loop: what has been written after each line,
  where, and what each of the three flags stands for, said by the first FROM and the first CMD
  or ENTRYPOINT of the whole text, which the loop has perhaps not seen yet. `LineSoFar` is a
  turn of the loop, `EndPlanned` what follows it, `SeenFromOne` that what others do meanwhile
  (another edit, a merge into the same maps, a crash) changes nothing of it.
- `BuildsRunDown`. `PlaceInv` says for each place of a handler where its expansion, edit, range and
  connection are; that the guards of the next step hold follows (`BuildOpen`), with `Least` for
  the next rule with a file. `BuildsAdvance` is the variant: places are passed in order, and in
  the loops of a place the expansion, the certificates, the lines or the forwarding get on.
  Only a session, when it has edited a message, goes back to wait for the next.

**Only model-checked.** Liveness needs fairness and ENABLED, which the prover does not handle.
What is left to TLC of it is mostly that: the state half, that whoever has to move has a step
to take and that steps get somewhere, is proved.

| liveness | proved of it |
|---|---|
| `SessionEnds` | `ClosedWakes`, `TornDownEnds` |
| `HeldBytesFlow` | `CreditIsConserved`, `WaitCanEnd`, `MessageCanEnd` |
| `QueuedTermEnds` | `TermIsKept` |
| `ConnectionsAnswered` | `NothingStranded` |
| `BodyEnds` | `BodyRunsDry` |
| `TunnelEnds` | `HangUpPropagates`, `TunnelsHearHangUps` |
| `BuildsEnd` | `ExpansionRunsDown`, `BuildsRunDown` |
| `PumpKeepsReading` | nothing: it is that the pump comes back to read, under fairness |

Guards are stated as state predicates in these theorems; that they are the guards of the
actions is read off the modules. Every safety property of a passing run is proved.

## 5. Not modelled

- *Encodings.* HPACK, protobuf, gRPC and HTTP framing are reduced to what they
  carry; decoding errors of header blocks are left out.
- *Establishing a session* (upgrade, prefaces, `initWindows`' read of nothing yet):
  before `Init`.
- *h2c bridge* beyond the rules of a session and `proxyH2CStream`: the multiplexing is that
  of net/http and x/net/http2.
- *Content of instructions*: shell commands, base64 chunks, awk programs, templates of
  env values beyond which context they are rendered in.
- *Commands, configuration parsing, logging*: sequential, or output only.
- *Globs* (`policy.go`): `ContainerCreate` takes the set of references that a
  configuration denies.

## 6. Plan

Done: `SendWindow`, `SessionSplice`, `Server`, `ContainerCreate`, `EditingPipe`,
`DiffCopy`, `GrpcFilter`, then `EnvFiles`, `DockerfileEdit`, `Forwarding` and their composition
`LegacyBuild`, each with its runs and proofs.

Left, with what each would be for:

1. `globMatch` (`policy.go`) as a recursive operator against a reference definition.
2. Certificates that change under the cache: `CertHash` is stored and never compared. The model
   of `ContainerCreate` has the state to say it, but no document promises otherwise.
3. `setup` and `uninstall` as sequences of steps that fail and are run again: whether
   uninstall undoes what an interrupted setup has done.
4. More refinements to prove, as `EditingPipe` and `SendWindow` are: what the body pipe of
   `GrpcFilter` promises its writer and its reader, the service `Server` keeps up across reloads
   and a shutdown, and the environment of `EnvFiles` as a map whose entries are written once.
