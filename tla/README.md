# Verification of quadlet_manager

TLA+ models of quadlet_manager - its server (Go, `internal/` and `cmd/`) and its browser
application (TypeScript, `web/src/`) -, model-checked with TLC, with safety theorems proved
with TLAPS. The models are translated from the source; line numbers below are those of the
source tree under `src/`.

Checking a module: `tlc -config MCHub_safety.cfg MCHub`, `tlapm HubProofs.tla`.
`PROJECT.json` lists the components, the runs, the source lines every definition stands
for, the hazards and the theorems.

## 1. Inventory

quadlet_manager is one Go process that serves a JSON API and a single-page application.
It edits Quadlet files, drives systemd over D-Bus and Podman over its socket, keeps its
accounts in SQLite, and pushes events to browsers over WebSocket.

| Part | State it keeps | Operations | What is hard | What makes it correct |
|---|---|---|---|---|
| WebSocket hub (`internal/ws/hub.go`) | registered clients, four kinds of channel, a connection per client | register, unregister, broadcast, evict, shut down; two pumps per client; the stats broadcaster | goroutines that close and use the same channels, full buffers, lost peers, cancellation | no use of a closed channel; a slow client is cut off and never skipped; order; a browser that hangs does not hold up the others; lost connections are cleaned up |
| Failed-unit alerts (`hub.go:206-255`, source in `main.go:132-143`) | the set of units failed at the last poll | poll, report, swap | a list put together from a directory scan and a later answer of systemd; ticks skipped; failing source | each failure reported once, none from before the start, none that lasts missed |
| Accounts, tokens, settings (`handler/auth_handler.go`, `settings_handler.go`, `auth/`, `store/`) | three tables | init, login, register, change, delete, read and update settings | check-then-act over several statements without a transaction; deletion under other requests | a token means one account; no settings without owner; no lost update |
| Quadlet files and systemd (`service/file_service.go`, `provider/quadletfs_impl.go`, `provider/systemd_dbus.go`, `handler/unit_handler.go`) | files, what systemd has loaded, calls on the bus | write, apply, delete, reload, start... | truncate-then-write, no lock, no rollback, deadlines that do not cancel, crashes | what is started is what was written; no falling back; a file that was given a text keeps one; every request is answered |
| Directory resolution (`resolveFS` in both services) | one cache per service | look up, read, store | late answers stored over newer ones; no invalidation | bounded staleness; nobody works in another user's directory |
| Image pulls (`handler/image_handler.go`) | a goroutine per pull | pull, progress events | outlives its request | an end event per pull |
| Backup (`service/backup_service.go`) | none | export, import | stops half-way; writes under the hands of those who apply | gives back what was backed up (it does not: finding 4); no falling back |
| Orchestrator (`service/orchestrator.go`) | none | start, stop, restart, remove, autostart | inspect-then-act | a managed container is acted upon through its unit |
| Updater (`updater/checker.go`, `handler/system_handler.go`) | the cached release, the executable | check, self-update, exit | two updates at once; stale release | the executable is always a whole verified one |
| Compose (`provider/compose_impl.go`) | a directory per project | import, list, up, down, remove, convert | a project removed while in use | conversion keeps the services |
| Exec terminal (`handler/exec_handler.go`) | a WebSocket and a Podman connection | two copying goroutines | one side ends first | both connections close |
| Browser's session (`store/useAuth.ts`, `api/client.ts`, `AuthGuard.tsx`) | token, user, whether there is an administrator, the page | load, sign in, sign out, ask for the user | answers of an earlier session that come late; a guard that decides again at every change | the user shown is the token's; a page that loses its session ends up at the right form |
| Browser's connection and stores (`useWebSocket.ts`, `App.tsx`, `store/`) | a socket, a timer, lists | connect, reconnect, fetch for every event | timers nobody cancels; lists that come in another order; messages about jobs that systemd has yet to do | one socket that keeps trying; the list is as new as the last message |
| Editing files (`FilesPage.tsx`, `FileEditDialog.tsx`) | the open dialog with its text, its form and its flags | open, type, save, apply, delete, create, deploy | nothing is cancelled, so the answer to one dialog comes to another | a dialog shows its own file; form and text agree; buttons come back |
| Quadlet form (`components/wizard/`) | none | read a text, write a text, one edit of one input | two hand-written conversions that must be inverse | a line that the form has a field for, and a value for, comes back - but of lines that add up only the last, and health options only with a command (section 6) |
| Pages of lists (`VolumesPage.tsx`, `NetworksPage.tsx`, `ImagesPage.tsx`, `ContainersPage.tsx`, `hooks/`) | the cached list, dialogs, calls under way | create, remove, connect, pull, convert..., refresh | a fetch under way when a call succeeds; dialogs closed and opened meanwhile | the list is fetched again before success is said, where the hook promises it |
| Parser, generator, file names (Go) | none | pure functions | | round trips |

Interactions. Handlers call services, which call the providers; handlers and the two
broadcasters hand messages to the hub, which alone hands them to the clients' pumps.
The alert loop is a client of the unit service. The file and unit services ask the
settings table for a directory. The browser calls the API with the token of its store,
re-fetches lists when an event arrives or a call of its own has succeeded, and gives the
token up when a call is refused.
Shared state: the hub's maps and channels, the two directory caches, the database (one
connection: statements are atomic, handlers are not), the Quadlet directory and systemd.

Podman proxies (volumes, networks), stand-in providers, configuration and page rendering
keep no state of their own and are not planned.

## 2. Plan

Order: what every other part relies on comes first.

1. `Feed`, `Hub`, `HubProofs` - the hub and an abstract feed it implements. *Done.*
2. `Alerts`, `AlertsProofs` - the alert loop. *Done.*
3. `Accounts`, `AccountsProofs` - tables and requests, statement by statement. *Done.*
4. `Deploy`, `DeployProofs` - files, calls to systemd, deadlines, crashes. *Done.*
5. `DirCache`, `DirCacheProofs` - the directory of a request. *Done.*
6. `Session`, `SessionProofs` - the browser's token, socket and list of units. *Done.*
7. `Wizard`, `WizardProofs`, `Editor` - the form over a Quadlet file, and the dialog that
   edits one. *Done.*
8. `Pages`, `Browser`, `BrowserProofs` - the pages of lists, and the composition of the
   pages under the router. *Done.*
9. Left: `ImagePull`, `Orchestrator`, `Updater` (against an abstract "the executable is one
   release or another"), `Exec`, `Compose`, and the pure modules `QuadletText`
   (Go parser and generator) and `Filenames`, each against a reference definition.

`Browser` composes `Editor` (which extends `Wizard`) and `Pages`; `Hub` implements `Feed`.
`Session` stands in for the hub with the sequence of messages on their way, in order and
lost when the connection is, which is what `Feed` promises. `MCHub`, `MCAccounts`, `MCDirCache`
and `MCBrowser` hold the values and symmetries of the instances.

## 3. What is modelled

### Hub (`Hub.tla`, `Feed.tla`)

| Model | Code |
|---|---|
| `hub`, `clients`, `todo`, `current` | where `Run` is, `h.clients`, the loop over them, its message |
| `broadcast`, `send[c]`, `closed` | the channels and which `send` channels are closed |
| `handler`, `writer`, `held`, `reader` | `HandleWebSocket`, `writePump` and its message, `readPump` |
| `conn`, `gone` | the server's and the browser's end of the connection |
| `pub[p]` | broadcasters (`Ticker`) and request handlers (`Caller`) inside `Broadcast` |
| `HubRegister` ... `HubStop` | the cases of the `select`; the fan-out is one step per client |

Sending on or closing a closed channel sets `panicked`, after which nothing happens.
Messages are numbers in the order of the broadcast channel; tokens and payloads are
left out. `Feed` is what a connection promises: from the message after its registration
on, every message in order, until it is cut off.

### Alerts (`Alerts.tla`)

`loop` is where the goroutine is, `previous` and `current` its two maps, `scanned` what
the scan of the directory returned before systemd is asked. Units fail and recover, files
come and go, browsers connect and leave between any two steps. The failures of a unit are
numbered, 0 being the one it had at the start. History variables record what was reported
and what the source last answered (`heard`).
The files are those of the default directory, as `main.go` asks for user 0.

### Accounts (`Accounts.tla`)

One action per SQL statement; `req[r].step` is the statement a request executes next.
Foreign keys and `ON DELETE CASCADE` are on (`store/db.go`), ids are AUTOINCREMENT. A
password stands for its hash and a token for its claims; tokens do not expire, so a
property about tokens holds for any expiry. Errors of the database itself (a full disk)
are left out, violated constraints are not. `Restart` drops requests and keeps tables.

### Deploy (`Deploy.tla`)

`disk[f]` is the set of writes whose text is in the file, because two overlapping writes
of different length leave a mixture; `{}` is a file just truncated, one whose text is empty,
or none. The API writes an empty text as any other (`FilesPage.tsx:55` creates files with
one); `ApplyFile` alone refuses it. `last[f]` is how the last write of a file ended. `loaded` is
what systemd's generator saw at the last reload. `bus` holds the calls sent and not yet
taken; `req[r]` the request, `by = Nobody` the call of a request that gave up. `Open` and
`Write` are the halves of `os.WriteFile`; a file deleted between them makes the writer's
inode nameless (`unlinked`). `ApplyFile` is `Open, Write, Reloaded, Started, Enabled` with
its three error returns. Importing a backup is `Open`, `Write`, then `NextEntry` and `Write`
for each further file, until `Imported`: the archive may be any, one with empty entries or one
that `Export` has made among them, may break off, and what was written stays. `Export` archives
the texts that `ScanDir` lists, which are empty; `archived` are the files that had a text then,
and `"lost"` is the text of their entry. `Restart` kills the process; systemd may still take what was sent.
The directory is the one that systemd's generator reads; which directory a request works
in is `DirCache`.

### DirCache (`DirCache.tla`)

`Hit`, `Miss`, `Read`, `ReadErr` and `Store` are the steps of `resolveFS`, `Change` is
`PUT /settings`. Time is counted in ticks; `Delay` bounds how long a request takes from
the answer of the database to `Store`, and is part of the bound that is shown.

### Session (`Session.tla`)

| Model | Code |
|---|---|
| `token`, `user`, `initialized` | the store of `useAuth.ts` (the token is in localStorage too) |
| `path` | the route: a guarded page (`AuthGuard.tsx`), `/login`, `/init` |
| `checks`, `signing`, `me` | calls under way that only read, the sign-in, calls of `fetchMe` by their token |
| `connecting`, `open`, `timers` | sockets by their state, and the timers of `onclose` |
| `fetches`, `asked`, `shown`, `seen` | `fetchUnits`: calls with the token they carry, the list shown |
| `version`, `jobs` | the state of the units, and the jobs that systemd has queued |
| `unitAction`, `JobDone`, `Broadcast` | `StartUnit` returns when the job is queued; systemd does it; the handler announces it: the last two in either order |
| `DaemonReload`, `UnitChanges` | a reload is done when the call returns, and announced; units that change by themselves, or are enabled, are not announced |
| `messages`, `told` | what is on its way, with the state of the units when it was sent; the last one handled |
| `Fails` | `request` of `api/client.ts`: a 401 signs out whoever is signed in |

A token is the number of the login that gave it, 0 is none. Timers and sockets are counted;
of calls that only read it is enough that some are under way. The effects that React runs
because the store has changed are part of the action that changes it (`AuthGuard`, `fetchMe`).
The counts are those of a production build: in a development build `main.tsx`'s StrictMode
mounts `App` twice and leaves two sockets.

### Form and editor (`Wizard.tla`, `Editor.tla`)

A text is the sequence of its lines `[sec, key, val]`. `wizardToQuadlet` and
`quadletToWizard` are the two conversions of `convert.ts`, line by line; names, paths and
commands are atoms, and a value that the code takes apart (ports, volumes, `key=value`,
the scripts of `ExecStartPre`) is the sequence of its parts. The loop of the code over the
lines is said without a loop: `push` to a list is the lines of that key in their order
(`Pick`), an assignment is the last line of that key (`Assigned`). The trimming of keys and
values (`convert.ts:131-132`) is the identity on these atoms: values of blanks only, which the
form writes and then reads as empty, and keys of labels with a `=` in them are outside the
model. `MustKeep` says which lines of a text a conversion there and back ought to keep: those
with a field and a value for it that no later line of the text overrules; `HasRoom` names the
two kinds of them that the form cannot keep, all but the last `After`, `Requires`, `Wants`
or `Network` line and health options without a command. `ConfigWizard(d)` is the set of
forms that one use of one input can leave, panel by panel.

`Editor` is the page of files with its dialog. `calls` holds the calls under way with the
mount of the dialog that made them (`inst`), because `setState` of a component that is gone
does nothing, while a handler of the page acts on whatever is there. `Mount` is a dialog
that appears; `SetEditFile` may instead hand another file name to the open one, which has
no key and so keeps its text, form and flags until the new text comes. A load of the first file
that comes after that is taken for the text of the new one (`FileEditDialog.tsx:52-55` cancels
nothing); `strayed` records that the last load to come was such a one, or an error, and is
reset when a dialog is mounted or handed a file. The server's side
(`ReadFile`, `WriteFile`, `ApplyFile`, `DeleteFile`) takes calls in any order and may refuse
each; what `Deploy` shows of it is not repeated.

### Pages (`Pages.tla`, `Browser.tla`)

The states of the server are numbered and a list is the number of the state it was made
from. `fetch` is the one fetch that counts: `invalidateQueries` and `refetch` drop the fetch
under way, except the first (`Refetching`). `muts` are the calls: `asked`, `served`,
`refetching` (`onSuccess` returns the promise of the new fetch, and the hook waits for it),
`settled`. A page's handlers and dialogs are operators named for them; `Calls` says which
dialog each handler closes. `Announced` are the calls of which success is said after their hook
has had the list fetched; the dialogs that apply files, compose, the import, the conversion and
autostart do not wait for a fetch of the list, and `DoneIsShown` does not speak of them (section 6).
`stale` marks a call whose fetch failed or was a first one. `Browser` puts a page under the router; its `Fairness` is that
the server answers and answers are handled.

## 4. What the runs check

| Run | Question | Answer |
|---|---|---|
| `hub_safety` | closed channels, skipped clients, order, orphaned writers, with evictions and cancellation anywhere; does `Hub` implement `Feed`? | hold; yes |
| `hub_live` | with one client scheduled fairly and one that may never read: the hub always takes the next message; a lost connection is forgotten; every message reaches a client or closes it | hold |
| `alerts_polls` | once per failure, none from before the start (the source answers during the warm-up), and a failure that lasts while somebody listens is reported | hold |
| `accounts_safety` | tokens, owners and types under deletion and re-registration; no acknowledged change of the settings is lost | hold |
| `accounts_init` | one first administrator | **violated**: check and insert are two statements (`auth_handler.go:26`) |
| `deploy` | `ApplyFile` starts what it wrote or newer; no falling back; a file written with a text has one, unless a write of it was cut off or the text was empty; every request is answered though systemd hangs | hold |
| `backup` | importing a backup gives the files their texts back | **violated**: an export archives empty texts (`quadletfs_impl.go:46`) |
| `dircache` | age and owner of the directory a request works in | hold |
| `pages` | form and text agree, and keep of one another what the form has room for; a dialog shows its own file; a list shows what its hooks have fetched; buttons come back | hold |
| `wizard_waits` | the paths a service waits for are read back as they were written | **violated**: a mount point comes back with a `;` (`convert.ts:207`) |
| `session` | one socket that keeps trying, the token's own user, a list as new as the last message, with late answers, refusals, reloads and lost connections | hold |
| `session_live` | who signs in gets a live connection | **violated**: nothing connects after a login (`useWebSocket.ts:13`) |

`IInv`, the inductive invariant of the proofs, of which the types are a part, is checked in
the passing runs as well.

Some properties say when they do not apply, and each of these cases is one the code really
has, listed as a hazard or in section 6:

- `EmptyIsExplained`: a write that was cut off, or was of an empty text.
- `NameIsOwn`: after an answer to an earlier session (`late`), so it is about logging in and out.
- `OwnText`: when the last load that the dialog took since it was handed its file was of another
  file, or failed (`strayed`).
- `DoneIsShown`: when the first list was still under way or the new one failed (`stale`), and for
  the calls of which success is said without waiting for a fetch (`Announced`).
- `EventShown`: says that the list of the last fetch is as new as the message, not that the
  message was true (a job may only be queued), nor that no earlier fetch is shown over it.
- `FormIsStable`, `FormKeepsText`: not for the values that the conversions replace (`PutBack`,
  `Expressible`: empty health fields, an `ro,Z` volume, a port with an address, a wait for a mount
  point), and the latter not for the lines that the form has no room for (`HasRoom`).

Bounds. Two clients, one publisher, channels of one element and three messages fill both
channels and evict a client while another is served (`hub_safety` has the broadcaster for
a publisher; `hub_live` a request handler, and does with two messages). Two units, each with the failure of the
start and one more, and one deletion cover a unit that fails again while another is being
reported. Two accounts and two requests cover every pair of statements, and an id or a
name that comes back. Deploy has one file, two requests, each used again and again, and
two writes; a request with a call to send arrives when no call is left (`MaxBus`), but each of the
two may give up and leave its call on the bus beside the other's, and deletions, writes and
imports go on meanwhile, so that two writers, a late reload and a deletion meet;
`backup` does with one request;
files do not interact but through systemd's reload,
which treats them alike (an archive then holds one file several times, so that an import
meets its own earlier half; the proofs are for any files). DirCache has two requests, so that one stores late over the
other, one user who changes the setting and one who never did (constraint `Chosen`), and
a clock long enough for an entry to be stored, run out and be stored again. In `pages` one
file has a line for every key of the form, with the odd values among them, and another text
of overridden and unreadable lines can be typed; a budget of one click and three edits goes
through every input and back, two clicks and one edit or three clicks go through every race
of two dialogs and two calls. A page of lists has one object, two calls at once and two
clicks, so that a call overlaps a fetch, another call and a dialog that is opened anew;
others change the images while a call is under way. `session` has two logins, so that one
is late for the other, and three events (loads, logouts, lost connections, changes of
units, actions on them, refusals); `session_live` does with one login and two events. The proofs
remove all of these bounds for the safety properties (but `MaxMsg`, `MaxId`, `MaxWrites`,
`MaxFailures`, `MaxTime` remain parameters, any number). Symmetry sets are used in safety
runs only. `CHECK_DEADLOCK FALSE` is given for the hub,
which stops when its context is cancelled, when it panics or when the messages of the
instance are used up, and for the browser, where nothing happens once the user has used up
the clicks or events of the instance and every answer has come.

Fairness, each item with its reason:

- Hub: Go's `select` picks a ready case at random, so a case ready again and again is
  taken (SF on the cases); the body of a case runs on (WF). `HubNeverStalls` needs no more.
- Pumps of the `Responsive` clients only: goroutines are scheduled; a write to a socket
  ends since the peer reads or is gone and the kernel reports it (WF). Connecting,
  publishing and leaving are never forced. Nothing is assumed of the other clients.
- Alerts: the ticker ticks and is listened to again and again, and the source does not
  fail for ever (SF on `Tick`, `PollScan`, `PollOk`); the rest of the loop runs on (WF).
- Deploy: a write and an archive end, an answer is taken, the five seconds pass (WF). Nothing is assumed
  of systemd.
- Browser: the server answers each call and the event loop runs each handler (WF). The
  answer to a fetch is dropped when the fetch starts anew, so it is SF that one comes
  through in the end: the timer and the clicks that restart a fetch are rarer than answers.
- Session: timers fire and attempts to connect end (WF); a server that accepts the token
  does not fail to answer for ever (SF on `Opened`).

## 5. What is proved

For every value of the constants (under the `ASSUME` of each module: bounds are numbers, names
do not clash, and the texts and commands that come from outside have the shape of section 3):

| Module | Theorems |
|---|---|
| `HubProofs` | `TypeCorrect`, `ChannelSafety`, `SlowClientSafety`, `DeliveryOrder`, `NoOrphanWriter`, `Refinement` (Spec implements `Feed`) |
| `AlertsProofs` | `TypeCorrect`, `ReportedOnce`; `StartupIsSilent`, assuming `WarmupMayFail = FALSE` |
| `AccountsProofs` | `TypeCorrect`, `TokensStayTrue`, `NoOrphanSettings`, `NoLostUpdate` |
| `DeployProofs` | `TypeCorrect`, `NoStaleStart`, `NoFallBack`, `NoUnexplainedEmptyFile` |
| `DirCacheProofs` | `BoundedStaleness` |
| `WizardProofs` | `FormsAreStable`, `TextsAreKept` (of every form and every text, reached or not) |
| `BrowserProofs` | `FormAgrees`, `TextIsOwn`, `ButtonsFollowCalls`, `FormStaysStable`, `TextStaysWhole`, `SavedFormComesBack`, `ShapesStay`, `ListFollowsCalls` |
| `SessionProofs` | `OneSocket`, `OwnName`, `ShowsEvents` |

Each follows from `Invariance`, that `IInv` of the module is inductive; one lemma per
action shows that the action keeps it. Why the properties alone are not inductive:

- Hub: `NothingSkipped` needs that an evicted or unregistered client is not in `todo`
  any more, that only registered clients are, and that a channel is closed exactly when
  its client was registered and is not any longer; the refinement needs that history
  variables of unregistered connections are frozen.
- Alerts: `NoDuplicateAlert` needs that a failure that was handled and still lasts is in
  the memory that the next poll will use (`MemoryInv`), also while the poll is between
  the scan and the answer of systemd, and that what is about to be reported was not
  handled (`FreshInv`). It fails without the condition on `missed`. A warm-up that fails leaves an
  empty memory, and nothing that was handled.
- Accounts: `TokenDenotesOne` rests on ids that are given out in order (`IdInv`);
  `PutIsKept` on a row that exists when a request is about to update it (`RequestInv`).
- Deploy: `StartsWhatItWrote` needs the text on disk to be at least the one `ApplyFile`
  wrote as soon as it has written (`TextInv`), and that an answer reaches the request that
  sent the call and nobody else (`BusInv`); both need that `ApplyFile` never writes an empty text
  (`OpInv`), which its handler refuses.
- DirCache: what is cached runs out before it is too old (`CacheInv`), and what is about
  to be stored was read recently (`StoreInv`).
- Browser: `FormMatchesText` is inductive with the types: every step that changes one of
  form and text makes it from the other, whatever the two conversions do. `OwnText`,
  that a dialog whose text is not its file's has strayed or has a load of its own under way
  (`OwnLoad`), needs that no call is of a mount that is still to come (`LoadInv`): else an old
  call could answer a new dialog. `SavingInv` - the buttons are
  disabled exactly while a call of this mount is under way, and there is one at most - is
  why they come back. `DoneIsShown` needs that a fetch which counts is never older than the
  list, and that the fetch a call waits for began after the call was done (`ListInv`,
  `RefetchInv`).
- Session: `EventShown` rests on `ListInv` - nothing is newer than the server, and the last
  fetch asked for, once the server has answered it, brings at least what the browser was
  told of; `KeepsTrying` on `TokenInv`, that a page which is to keep its token has one.
  `NameIsOwn` is inductive: signing in and out reset the name with the token, and an answer
  for another token than the present one sets `late`.

- Form: the two conversions are about texts and lists of any length, and induction over data
  is beyond the prover. They are therefore defined without recursion: a list in the form is
  the lines of the text at some `Places`, picked in their order (`Pick`), and a key that is
  assigned has the value of the greatest of its places (`Assigned`). About these it is enough
  to know that the places up to the n-th are n (`Ranks`, `PickFacts`) and that a text put
  together of pieces has its places where the pieces have them. `FormsAreStable` then goes
  through the form part by part (`PortsRead`, `LabelRead`, `HealthRead`, ...): what is written
  of a part is read back to a part that is written the same. `TextsAreKept` goes through the
  lines by section and key (`KeepsPort`, `KeepsLabel`, ...): the field such a line is read into
  is written as that line. Both assume only the shape of what they are given, `FormOK` and
  `TextOK`. That every text and form of the browser has that shape is `ShapeInv`, a part of
  `IInv`: `ReadIsForm` (a text is read into a form), `WrittenIsText` (a form is written to a
  text) and `EditIsForm` (every use of every panel leaves a form) make it inductive, with the
  calls: only those that were answered with success, or that write, carry a text (`Carries`).
  `FormStaysStable` and `TextStaysWhole` follow. With `FormMatchesText` they give
  `SavedFormComesBack`: what Save and Apply send while the form is shown opens again as a form
  that writes the same.

Only model-checked: the liveness properties (`HubNeverStalls`, `GoneIsForgotten`,
`ShownOrClosed`, `LastingFailureReported`, `RequestsEnd`, `ButtonsComeBack`, `Reconnects`),
since proofs under fairness and about ENABLED are beyond the prover, and the four
counterexamples. Every invariant of a passing run is proved.

## 6. Findings

Shown by a run:

1. `auth_handler.go:26` (`accounts_init`): two first requests both create an administrator
   (`docs/API.md:31`, `auth_handler_test.go:145`).
2. `convert.ts:207` (`wizard_waits`): the path of a mount point is read back with the `;`
   that follows it, so a file that has gone through the form contains
   `until mountpoint -q /data;; do`, which no shell accepts
   (`docs/superpowers/specs/2026-05-19-config-wizard-phase2-design.md:77` and `:93`).
3. `useWebSocket.ts:13` (`session_live`): who signs in on a page loaded without a token has
   no socket until the page is reloaded (`docs/ARCHITECTURE.md:239`, `README.md:26`).
4. `quadletfs_impl.go:46` (`backup`): a backup holds the names of the files and no texts, because
   `ScanDir` does not read them; importing it empties every file (`backup_service.go:25`,
   `BackupPage.tsx:70`).

Seen in the models, without a run of their own:

- `hub.go:214`: the warm-up ignores an error, and units that had failed before the start are then
  reported, which the comment at line 212 sets out to avoid: with `WarmupMayFail` TLC refutes
  `NoStartupAlert`, which is why `StartupIsSilent` assumes that the warm-up does not fail.
- `convert.ts:137-139`, `:186`: of several `After`, `Requires`, `Wants` or `Network` lines, which
  add up in systemd and Quadlet, a file that has gone through the form has the last one left;
  options of a health check without a command go as well (`convert.ts:57`).
  `docs/ARCHITECTURE.md:268` calls form and text synchronised both ways. `FormKeepsText` is
  violated without `HasRoom`.
- `unit_handler.go:50`: a unit is announced as active when its job is queued, and the list fetched
  then may show it as before until another event comes; the end of a job is not announced
  (`README.md:26`, `docs/CHANGELOG.md:108`).
- `useUnits.ts:25`: of two fetches under way the one that comes last is shown, be it the older one
  (`docs/CHANGELOG.md:108`).
- `hub.go:144`: after `Run` has returned, a `readPump` blocks for ever and its connection
  stays open; `docs/CHANGELOG.md:54` says that the shutdown leaves no goroutine behind. In
  the program the context is cancelled only when `main` returns.
- `settings_store.go:27`: of two first reads of an account's settings at once one fails,
  since both insert the row (`docs/ARCHITECTURE.md:151`).
- `FileEditDialog.tsx:68`: an empty text leaves the form as it was, so the two disagree;
  `docs/ARCHITECTURE.md:268` calls them synchronised both ways.
- `client.ts:93-112`: exporting and importing a volume, like the pages of users and of
  backups, do not sign out on a 401; `docs/ARCHITECTURE.md:215` says that the client does.
- `useAuth.ts:99`: a network error in `/auth/me` signs out; `useAuth.ts:35`: one in
  `/auth/init` shows the form for the first administrator.
- `FileEditDialog.tsx:52-55`: a load of the file that the dialog showed before comes after that of
  the one it shows now: the dialog holds the old file's text, and Save writes it under the new name.
- `CreateContainerDialog.tsx:37-41`, `ConvertPreviewDialog.tsx:38-40`: success is said before the
  list is fetched again, which nobody waits for.
- `useAuth.ts:98`: the answer of `/auth/me` for an earlier session sets the name of the present one.
- `convert.ts:131-132`: blanks around a value are trimmed, so a value of blanks only is lost.
- `convert.ts:106-113`: `v:c:Z` or `v:c:ro,Z` comes back as `v:c:rw`; `convert.ts:93-104`: a
  port with an address loses its container port.

## 7. Not modelled

Image pulls, the orchestrator, the updater, compose projects, the terminal, and the
Go parser and generator are what the plan has left; their hazards are listed. The settings,
users, dashboard and backup pages keep their fields and a flag each. For good are left out:
the contents of messages and files beyond what a property tells apart, HTTP and JSON, Podman
and systemd beyond what the code in `src/` relies on, rendering, translations, logging and
configuration. The Validate button of the edit dialog sets a badge that nothing resets when
the text changes; it is left out, as are the buttons of a file's unit.
