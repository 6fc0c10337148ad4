# cal-gateway: a TLA+ verification project

cal-gateway is a CalDAV server in front of a Proton calendar account. Apple and
other CalDAV clients read and write through it; it mirrors Proton's end-to-end
encrypted calendars into a local store, writes through to Proton's API, sends
invitations by e-mail (iMIP), and runs unattended under systemd with a watchdog.
This directory holds models of its five stateful parts and of the conversions an
event goes through, the TLC runs that check them, and TLAPS proofs: that the cache
implements the mirror it promises to be; that no row is duplicated and a PUT answered
2xx stored what it carried; that guests learn of what is written and the organizer
of an invitation learns the answer and keeps the event; that the session survives;
that cards stay readable.

## 1. Inventory

| Component (source) | State | Operations | Module |
|---|---|---|---|
| Shadow store (`internal/store`) | calendars, rows, generation and cursor per calendar, aliases, `Synced`; the same as one sealed file | the mutators, each followed by `persistLocked` | `ShadowStore` |
| Write-through (`sync/cachedsource.go`) | `writeMu` | create (with re-check), update, RSVP, delete; re-read or synthesize; store update | `GatewaySync` |
| Poller (`sync/poller.go`, `proton/delta.go`, `ListEvents`) | cursor read, generation read, `lastFull`, `LastOK` | one cycle: list, then delta or snapshot per calendar | `GatewaySync` |
| CalDAV backend (`caldav/backend.go`) | none of its own: rows read at the start of a request | GET/REPORT folding and ETags, PUT routing, preconditions, row-by-row reconciliation, DELETE | `SeriesWrite` |
| Invitation policy (`caldav/backend.go`, `invitation.go`, `proton/update.go`) | the daily mail quota | policy, plan, patch of the row, RSVP, cancel, send | `Invitations` |
| Proton session and daemon (`cmd/cal-gateway`, `proton/account.go`, `session.go`, `server/health.go`, `deploy/`) | tokens in memory and in `session.json`, lock, port, readiness, `/healthz`, backoff | restore loop, refresh and save, serve, cycle, exit codes, watchdog, login | `Serve` |
| At-rest encryption (`internal/atrest`, `proton/session.go`) | `.atrest.key`, `session.json` and their temporary files; the cached key | load or draw the key, seal, open, re-seal what is in clear, save | `AtRest` |
| Conversions of an event (`proton/crypto.go`, `write.go`, `update.go`, `attendees.go`, `caldav/ics.go`) | Proton's row: signed, encrypted and attendees cards, key packets, columns | decrypt and merge, serve, parse, diff, patch, re-seal | `EventCards` |
| Alarms (`proton/notifications.go`) | none | VALARM to reminder and back, normalisation, the column | `Alarms` |
| VTIMEZONE and iCalendar syntax, configuration, HTTP interceptors, SMTP | none, or read once | conversions and fixed answers | not modelled (see 8) |

How they interact:

- CalDAV reads use the store's memory and nothing else.
- A PUT is *several* calls into `CachedSource`. `writeMu` is held during one call
  only, so calls of different requests alternate (`SeriesWrite`, `Invitations`).
- A call is: Proton, re-read, store. It takes no lock the poller knows; the two
  meet in the store, where the generation of a calendar (bumped by each
  write-through) makes a poller's result stale (`GatewaySync`).
- Proton's own clients and organizers change rows at any time; the gateway learns
  it from the next cycle.
- An update is: fetch the row, decrypt, diff against what the client sent, patch,
  seal, put. The client sent its change of what it was *served*, which may be
  older than the row fetched (`EventCards`).
- `LoadSession` runs at boot and again in every authenticated call, in parallel with
  the auth handler's `SaveSession`, and `cal-gateway status` beside them without a
  lock (`AtRest`).
- `Synced` decides whether a booting daemon serves at once; `LastOK` decides what
  `/healthz` says; the watchdog restarts on anything but a 2xx (`Serve`).

What is hard here: interleavings of calls with fetches that last seconds; the
order of cursor, snapshot and write-through; a process that dies between memory
and file; a PUT that fails half-way and is sent again; an answer that is lost
after the write; decisions taken on rows that have changed since; mails that
cross; token rotation; files replaced by several threads and processes; cards that
nobody can open any more once sealed with a wrong key; round trips through formats
that differ; three clocks (backoff, watchdog, staleness). `PROJECT.json`
lists each of these hazards with the line where it bites and the properties that
cover it.

## 2. Modules

| Module | What it is |
|---|---|
| `ShadowStore` | A store state as a record and every mutator as an operator on it. No variables; shared by the specification and the proofs. |
| `GatewaySync` | The coherence protocol: store + write-through + poller + Proton + crash and restart. |
| `SeriesWrite` | PUT/GET/DELETE of one recurring series, call by call, for several clients. |
| `Invitations` | PUT and DELETE of one event with invitees, up to what invitees and organizer end up believing. |
| `Serve` | The daemon's life: session, boot, health, watchdog, systemd. |
| `Mirror`, `GatewayMirror` | What the cache promises, without its mechanism; and the refinement mapping under which `GatewaySync` implements it. |
| `AtRest` | The session file and its key, system call by system call. |
| `EventCards` | One event from the cards of its row to the served resource and back. |
| `Alarms` | The operators on durations and reminders `EventCards` is built from, and the reference they are checked against. |
| `MCGatewaySync`, `MCSeriesWrite`, `MCInvitations`, `MCServe`, `MCAtRest`, `MCEventCards` | Constants, payload sets and symmetry for TLC. |
| `GatewaySyncProofs`, `GatewayMirrorProofs` | Theorems about `GatewaySync`, the second on top of the first, with the refinement. |
| `SeriesWriteProofs`, `InvitationsProofs`, `ServeProofs`, `AtRestProofs`, `EventCardsProofs` | Theorems about the module each is named after. |
| `EventCardsFaithProofs` | On top of `EventCardsProofs`: the theorem that changes arrive whole. |

### GatewaySync

`mem` and `disk` are store records. A write moves through `w.pc`
(`recheck`, `send`, `reread`, `store`), each value a point where the code waits
for Proton; the poller through `pc` (`next`, `delta`, `get`, `apply`, `baseline`,
`list`, `replace`, `setcursor`). A calendar's change log is reduced to the
position of each row's last entry (`touched`) and of the log's end (`clock`): a
delta from cursor *k* lists the rows with `touched > k`, because
`CalendarEventChanges` keeps the last action of an ID. An event is reduced to the
entry that wrote it, the slice of `ListEvents` its dates fall in, and whether the
gateway synthesized it. `Persist` moves memory always and the file or not. A
restart loads the file, or starts empty when the file cannot be read. The keys of
a calendar in `Broken` do not unlock: its fetches and writes all fail, its cycles
count an error, and the other calendars go on; no cycle is complete then, so the
watchdog restarts such an installation for ever (`health.go` means it to).

Histories are never read by an action. Two are kept with the store: `acked` (the
version a write-through stored, which a restart takes back with the rows) and `drift`
(rows a write-through left different from Proton with nothing ahead of the cursor to
correct them). Two are kept outside of it and survive every restart: `answered`, the
last version a client was told is stored, and `lapsed`, the rows of which that answer
does not bind the gateway any more. There are two ways to lapse, both findings: an RSVP
that could not be read back (`RsvpUnread`: a success without a store update), and a write
whose persist failed, and which no later persist saved either, when the process died.
`NeverOlderThanAcked` is about `answered`, of the other rows.

### Mirror and GatewayMirror

`Mirror` knows no poller, cursor, generation or file. It has what Proton holds
(`truth`), what is served (`seen`), what clients were told (`acked`), which rows
the mirror is still going to hear of (`told`) and what a restart comes back to
(`saved`). Its steps say what may happen to the view: catching up (`Refresh`) never
takes a row to an older version than it serves or acknowledged, and never leaves
a row *owed* (wrong, and not going to be heard of) that was not owed before; only
a client's own write may do that. The mapping reads `told` off the cursors: a change
is still to be heard of when its log entry lies ahead of the cursor the calendar
has reached. Between `ReplaceCalendarEvents` and `SetCursor` that is the baseline.
`Restart` of `Mirror` comes back to `saved`, and takes `acked` back with the view: the
refinement does not say that an acknowledged write survives a failed persist.

### SeriesWrite

A resource is: master or not, excluded occurrences, occurrences with an override.
A request keeps what the handler read once (`master`, `exc`, `past`) and the
calls it still has to make (`head`, `kids`, `dels`); `pc = "locked"` is a create
between its re-check and its send, with `mu` held. A client whose PUT was refused
or failed reads again and sends the same resource again. The poller is reduced to
what `GatewaySync` shows of it: served rows follow Proton one by one (`Poll`), rows
in `drift` at a `Snapshot` only.

### Invitations

One UID of one calendar: the row in Proton, the served row, what each guest's
calendar shows (`agenda`), what the organizer of a received invitation knows
(`heard`). `decideInvitePolicy` is `PutStart`, on the row read then; `Plan` is
`planInviteLifecycle` with `refreshSignificance`; `Patched` is `UpdateEvent` on
the row *as it is when the call runs*. Messages are sent one by one (`Send`),
through the quota, and each may fail. `when` stands for bounds and rule, `text`
for title and description. An exception row is a Boolean: an event with invitees
may have one only under somebody else's organizer.

Assumed: `[invite]` is configured; the account has one address; addresses are
canonical; a calendar applies a message by SEQUENCE, then DTSTAMP (RFC 5546); a
message that is not lost arrives at once; a client puts the resource
it was served with one change to the event and one to the invitees, and does not
put a UID again that was deleted. The DTSTAMP of a write's messages is the second
in which `now()` is called after the write returned and `writeMu` was released
(`Dtstamp`): usually its own, but it may still be that of the write before or already
that of the next one. `crossed` remembers that it was; then a guest may be left with
the earlier of two messages (a finding, `DtstampIsEnough`).

### Serve

A process is `off`, `restore`, `backoff` or `running`. `mem[i]`, `disk` and
`token` are the refresh tokens in a process, in `session.json` and at Proton;
`saving` is the point between the rotation and the file; `delay` is what the next
failure will wait for (`retryDelay`, doubled up to a cap). Ticks are the one unit of
backoff, cycle, poll interval, freshness and watchdog; no tick passes over a step
that is due, as a process that is due to run does run within a tick.

### AtRest

A file is the key it holds or is sealed with, and the token in it; `fd` is the name
under which what a thread writes can be found, as an open file follows a rename.
A thread's `pc` is the next system call: `key` (`atrest.Load`, which holds `cacheMu`
while it draws a key: `newkey`, `placekey`), then `save`, `write`, `rename` of
`SaveSession`. `LoadSession` reads `session.json` *before* the key; what it read may
be replaced meanwhile. Threads of the daemon share one cached key. A kill ends a
process between any two calls; a failed call is an error, except in the re-seal of
`LoadSession`, which is best effort. At boot a session that is sealed and does not open
ends the daemon (`SessionInvalid`, `ErrSessionInvalid`); after any other error it loads
the session again in the same process, with the key it has cached.

Assumed: a login runs while the daemon is off (the operator's order: serve left with
78, or has not been installed); only one refresh is under way at a time
(go-proton-api holds a lock).

Two histories excuse what the code does not manage (both are findings): `stray` has
`"processes"` when two processes have a session *in clear* in hand, `"threads"` when
a thread of a daemon that serves has.

### EventCards and Alarms

A card is the set of lines it has of each property, `X` the lines no CalDAV client
sees; the value of a date line is its instant and the form it is written in.
`decryptEvent`, `eventToVEvent`, `veventToInput`, `diffPatches` (here `SignedPatch`,
`TextPatch`), `patchCard` and `resealParts` are the operators of the same name. A
client makes a `Change` to the resource it was served from `mirror` and sends all of
it; `Fetches` keeps the row in `w`, `Puts` builds the body from *that* row and puts
it in place of whatever is there. Proton's clients and invitees act between any two
of these.

What is right is said by operators that are written without the code: `View` is an
event as all see it, `Apply` what a change makes of it, `Rings` the minute at which a
client's alarm ought to ring. `ideal` accumulates the changes with `Apply`, and
`Faithful` compares it with `View(row)`.

Dates are compared as the code compares them, by instant: a DATE is midnight UTC, so of
an occurrence that is at midnight UTC (`Midnights`) the exclusion by its day and the one
at its time are one (`Instant`). Where such a series becomes one of whole days, or is one no
longer, DTSTART is rewritten and EXDATE is not: a row may have EXDATEs of the other value
type, and `Legible` asks for the right instant only (a finding, `ExdatesFollow`).

The titles `""` and "(no title)" are one event to `View`, because an untitled event
gets the latter with the first PUT (a finding). TENTATIVE is stripped, as the
code says; the end of an event moves with its start.

## 3. Runs

Passing runs:

| Run | Question | Bounds |
|---|---|---|
| `SyncSeries` | Is a series served right, and what a restart would load wrong ahead of its cursor, in any interleaving of a write, the poller, Proton, a failed call, a failed persist or a restart? `NeverOlderThanAcked`, `DiskSound` | 1 calendar, master + exception, 3 log entries, 1 write-through, 1 fault (about 2 min) |
| `SyncSlices` | The same for a snapshot assembled in parallel slices, with two write-throughs and an alias; does a cycle ever put an older version in place of a newer one; and does all this implement `Mirror`? (For several rows at once, a series deleted as a group, `Refinement` proves it.) `TypeOK`, `NeverOlderThanAcked`, `ReadYourWrites`, `MemorySound`, `PollerNeverRegresses`, `ImplementsMirror` | 1 row, 2 slices, 3 entries, 2 write-throughs, 1 fault (about 3 min) |
| `SyncLive` | Is every drift repaired once things fall quiet, beside a calendar that fails in every cycle? And is what was acknowledged still served after a failed persist *and* a restart, where the file had it? `EventuallyMirrors`, `NeverOlderThanAcked` | 2 calendars, one of them broken, 1 row in the other, 2 entries, 1 write-through, 2 faults (about 90 s) |
| `SeriesPut` | Do racing, failing and replayed PUTs and DELETEs duplicate a row, or answer 2xx to something else than was stored? `TypeOK`, `NoDuplicate`, `PutStored` | 2 clients, 2 occurrences (one past, and out of the window), every resource, 4 row IDs, 2 requests plus replays, 1 fault |
| `SeriesLive` | Does a client that re-reads and replays get through in the end? `PutSucceeds` | 1 client, 1 occurrence, 1 edit from Proton, 2 seconds, 1 fault |
| `Invites` | Do guests and organizer end with the event as Proton has it, with Proton's clients interfering? (As long as DTSTAMPs come in the order of the writes.) Is somebody else's event left alone? `TypeOK`, `InviteesInformed`, `OrganizerKnows`, `CarriesWrittenSequence`, `ForeignKept` | 1 client, 2 guests, 1 answer (accepted), 2 requests, 1 outside change, 1 fault (about 3 min) |
| `InviteClients` | The same with two requests interleaved message by message over the end of a quota window. `InviteesInformed`, `OrganizerKnows`, `QuotaBound` | 2 clients, 2 guests, 2 answers, 2 requests, 1 fault, quota 3, 2 ticks (about 3 min) |
| `AtRest` | However threads and processes interleave and die between two system calls, is the session readable, is the newest token kept, does a session in clear end up sealed? `TypeOK`, `SessionReadable`, `TokenKept`, `SealedInTheEnd` | 2 calls, auth handler, 1 command, 2 tokens, 1 kill or failed write (about a minute) |
| `Cards` | Is a client's change in Proton's row and nothing else changed, can the cards be opened, does SEQUENCE tell schedules apart? `TypeOK`, `Faithful`, `CardsOpen`, `SequenceTells` | 2 occurrences (one at midnight UTC), 6 initial rows (none, series in a zone, with a guest in an unknown zone, split attendees card, received invitation, key lost), two series clients create (one all-day), 4 sets of alarms, 2 changes, 1 change from Proton's side, 1 fault (about 3 min) |
| `Serve` | Is the session kept whatever restarts, is a waiting daemon left alone, and does the service come back? `TypeOK`, `SessionKept`, `ReloginOnlyIfDead`, `WaitsUndisturbed`, `Recovers` | unit + one process by hand, 3 tokens, 3 faults, backoff cap 3 ticks |

Why the bounds are enough. In `GatewaySync` a violation needs at most a fetch that
overlaps one write and one outside change: three log entries give each a version,
and the second write-through is for a fetch that spans two. One fault is one
failed call, persist, blip *or* restart; `SyncLive` has two, a persist that fails and
a restart that meets the older file; the proofs (section 5) hold for any
number. In `SeriesWrite` two requests with one failed call include every
"half-way, then replayed over the other". `Invitations` has both orders of two
writes and their mails. In `Serve` three faults give a crash between rotation and
save after a failed restart. In `AtRest` one fault is a kill or a failed write at any
call of any thread, with two rotations so that an older token can come back. In
`Cards` two changes of the client, one of Proton's and a failure give an update
computed from a mirror that is behind, a replay on top of the change it made, and a
change undone by the next (for any number of failures `EventsFaithful` is proved); the
rows and alarm sets pick one of each kind the operators tell apart. `CHECK_DEADLOCK FALSE` stands where the bounds on
requests, edits and time leave nothing to do.

Runs that refute a statement of the repository (each checks one property):

| Run | Property | Statement |
|---|---|---|
| `SyncMasterDelete` | `MasterDeletePurgesGroup` | "A master DELETE purges the whole same-UID GROUP from the store" — not when the mirror does not know the master yet. |
| `InviteDropped` | `InviteesStored` | "NO MORE no-op 2xx" — an exclusion together with an invitee change loses the latter. |

The modules also state properties that no run of the list checks, because TLC
refutes them too and the finding is of less weight:

- `GatewaySync`: `AnswerServedAtOnce` ("the PARTSTAT served to the client reflects the
  new status immediately": not when the re-read fails), `ApproximationFixedNextCycle`,
  `SyncedMeansLoaded`, `AliasPurgedOnlyWhenGone`;
- `SeriesWrite`: `EchoHonoured`, `NoOrphanCreated`, `ReadBack`;
- `Invitations`: `DtstampIsEnough` (of an update that moves only the place, "the more
  recent DTSTAMP is enough for clients": not when both are stamped in one second),
  `CancelledNeverAnswered`, `ForeignNeverRewritten`;
- `Serve`: `StartupUndisturbed`, `ValidInMemory`;
- `AtRest`: `OneKey`, `NeverTruncated`;
- `EventCards`: `ExdatesFollow` ("EXDATE follows the same zone as the written DTSTART
  (RFC 5545 §3.8.5.1)": not where the exclusions are at midnight UTC and the event
  becomes one of whole days).

Put one under `PROPERTIES` (`AnswerServedAtOnce`, `ApproximationFixedNextCycle`,
`DtstampIsEnough`, `CancelledNeverAnswered`, `ExdatesFollow` and those of `AtRest` under
`INVARIANTS`) of a cfg of its module to see the counterexample; `EchoHonoured` needs two
clients that create the same UID (payloads `CancelOrEdit`, three row IDs, one fault).
`Faithful` itself fails with `ZoneChanges = TRUE` and two zones: a change of zone alone
is not written. `findings` in `PROJECT.json` quotes the line each one is from.

## 4. Liveness and the fairness assumed

- `EventuallyMirrors`: weak fairness of the poller goroutine (`Poller.Run` loops on
  a ticker), of a write that has begun (it holds `writeMu` and returns), and of the
  passing of `defaultFullResyncEvery`. Nothing is assumed of new requests, of
  Proton's clients or of restarts; faults are bounded, i.e. transient. Without
  `FullDeadline` it is false: a drift has no log entry ahead.
- `PutSucceeds`: the client re-reads and replays (what Apple's daemon does on a
  412 or a 5xx), the handler runs on, the poller's deltas come. No fairness for
  `Snapshot`: the point is that a client is not refused until one.
- `Recovers`: the processes, systemd, the timer and the clock go on; Proton comes
  back; somebody who starts `serve` by hand stops it; strong fairness of `Login`,
  as the operator's chance to log in comes and goes with outages.
- `SealedInTheEnd`: threads run on, systemd starts the daemon, its poller makes
  authenticated calls (each reads the session again, which is what retries a re-seal
  that failed). None of the command or of a refresh.

## 5. What is proved

Each theorem is `Spec => []P` for an invariant, `Spec => P` for an action property or
the refinement, for every value of the constants that the assumptions allow;
`EventsFaithful` alone has a hypothesis of its own, `Ordinary`.
Every safety invariant and action property of the passing runs is stated by one of them.

| Theorem | Module | Property |
|---|---|---|
| `TypeCorrect` | `GatewaySyncProofs` | `TypeOK` |
| `NeverOlder` | `GatewaySyncProofs` | `NeverOlderThanAcked` |
| `MemoryMirrors`, `DiskMirrors` | `GatewaySyncProofs` | `MemorySound`, `DiskSound` |
| `ClientsReadTheirWrites` | `GatewayMirrorProofs` | `ReadYourWrites` |
| `NoRegress` | `GatewayMirrorProofs` | `PollerNeverRegresses` |
| `Refinement` | `GatewayMirrorProofs` | `ImplementsMirror` |
| `SeriesTypes`, `NoSecondRow`, `PutsStored` | `SeriesWriteProofs` | `TypeOK`, `NoDuplicate`, `PutStored` |
| `InviteTypes`, `GuestsKnow`, `TheOrganizerKnows` | `InvitationsProofs` | `TypeOK`, `InviteesInformed`, `OrganizerKnows` |
| `UpdatesAnnounceWhatTheyWrite`, `NeverRewritten` | `InvitationsProofs` | `CarriesWrittenSequence`, `ForeignKept` |
| `TwiceAtMost` | `InvitationsProofs` | `QuotaBound` |
| `ServeTypes`, `SessionSurvives` | `ServeProofs` | `TypeOK`, `SessionKept` |
| `ReloginJustified`, `WaitingLeftAlone` | `ServeProofs` | `ReloginOnlyIfDead`, `WaitsUndisturbed` |
| `AtRestTypes`, `SessionStaysReadable`, `NewestTokenKept` | `AtRestProofs` | `TypeOK`, `SessionReadable`, `TokenKept` |
| `EventTypes`, `RowsStayOpen`, `SchedulesTold` | `EventCardsProofs` | `TypeOK`, `CardsOpen`, `SequenceTells` |
| `EventsFaithful` (under `Ordinary`) | `EventCardsFaithProofs` | `Faithful` |

Assumed of the constants, beside bounds that are naturals: in `GatewaySync` each row
has one calendar and one RecurrenceID, `NoRow` is no row, and there is a slice; in
`SeriesWrite` payloads have the form of a resource; in `Invitations` the owner, the stranger
who organizes, nobody and the guests are different, there is at least one value of each
kind a draft takes, and the daily quota is not zero (200 in the code: the first message of a
window is always within it); in `Serve` the watchdog's
period is positive and the cap of the delays not below their base; in `EventCards` the names of the special forms are no zones, no
text is empty, and the first rows are rows Proton can read whose cards were sealed
with the session key of their packet (`RowsAssumption`), clients send resources of
the right type (`ClientsAssumption`). TLC evaluates all of them in every run, and
`Ordinary` in `Cards` (`OrdinaryAssumption` of `MCEventCards`).

### The cache

*NeverOlder* (`AckInv`, `ToldInv`). `AckInv` is about what the store remembers (`acked`). The property alone is not inductive: the poller holds rows
it fetched before the acknowledged write. The invariant adds that a live row
carries the position of its last entry and none is ahead of the log (`LogOK`); that
neither store serves a row from the future, nor acknowledges one (`AckedOK`, of
memory and disk alike, as a restart swaps them); the same of the write in flight
(`WriterAcked`); and the core of it, `FetchAcked`: the generation read before the
fetch is never above the store's, and *while they are equal* whatever was fetched is
at least as new as the acknowledged version. A write-through is what raises the
acknowledged version, and it is also what breaks that premise. `ToldInv` relates that to
what clients were told: a row is `lapsed`, or the memory remembers the last answer
(`ToldOK`); only a restart can make it forget one, and then the file did not have it.

*MemoryMirrors, DiskMirrors* (`MirrorInv`). A fetch may move the cursor, so the same
must hold of it: what it holds of a row is Proton's copy, or the row has an entry
after the position the fetch will lay (`DeltaOK`, and `ListOK` slice by slice). That
is the order of the calls: the cursor is read before the rows, in the delta as in
the snapshot. Between `ReplaceCalendarEvents` and `SetCursor` the baseline stands
for the cursor (`Reached`); it is never behind it (`BaseOK`), so the memory is sound
before and after. The disk is right against its own, older cursor (`DiskRight`).

*ClientsReadTheirWrites, NoRegress* (`KeepInv`). Neither follows from the two above: a
snapshot that misses a row is not older than anything, and the row may lie ahead of
the cursor. `FetchNewer` says that while the generations agree nothing fetched is
older than what is served; `FetchKept` that the rows carrying a client's last word
are among those fetched. It takes that a row being deleted is gone for good
(`WriterGone`) and that what a write is going to store is newer than what was
acknowledged (`WriterNewer`).

*Refinement.* The first state maps to a first state of `Mirror`; each step of a write,
the poller, Proton or a restart maps to a step of `Mirror` or to a stutter, from
`KeepInv` and that a served row that equals Proton's is right now (`SamesRight`).

### Series

*NoSecondRow* (`SeriesInv`). Re-check and create are two steps. The invariant needs that
who is between them holds `writeMu` (`Locking`), that no row of that occurrence was
made meanwhile (`Rechecked`), and that a row ID a request holds stands for one
occurrence for ever (`Routing`), lest an update turn a row into a second one of
another occurrence. The lemma `Extremes` (a set of naturals below a bound has a least
and a greatest element, by well-foundedness of inclusion) is what `MasterOf` and
`ExceptionOf` rest on.

*PutsStored* (`PutInv`). The premises (no duplicates when the rows were read, nobody else
wrote since) hold at every step of the request or are lost for good, so the invariant
is stated under them (`Alone`). Before the preconditions are decided, what was read is
what Proton has (`Current`); from then on the request is *half-way* (`Halfway`): an
occurrence still to be written has the row, or the absence, that was read of it
(`Unwritten`), one that has been written is there as the resource says (`Written`), and
a row of any other occurrence is exactly one still to be deleted. Each call moves one
occurrence from the second group to the third; when nothing is left, what Proton has is
the resource. Rows that a request which failed half-way had left are no exception: they
are among what the next one reads.

### Invitations

*InviteTypes* (`InviteInv`). Types do not stand alone. SEQUENCEs and DTSTAMPs are bounded
because each takes one change that somebody began and that is not pending any more
(`CountInv`, which counts requests still to write as a finite set). That `Patched`,
`Merged` or `Created` make a row needs what the policy let through (`Admitted`: who has
a payload and a row, that a foreign event is only answered, dropped or deprived of
occurrences), and that needs that the UID stays an event of the account's own or
somebody else's (`Ours`, `Theirs`).

*UpdatesAnnounceWhatTheyWrite, NeverRewritten*. Both compare what was decided on the row
read with what is written on the row met. For SEQUENCE, `SameBump`: if both rows announce
the same, the plan's condition on the merged exclusions and the patch's condition on the
fetched row are the same condition. For a foreign event, an update that got through
differs in exclusions only (`AmendedIs`), which `Merged` can only add to.

*TheOrganizerKnows* (`OrganizerInv`). The property speaks of a time when no request is in
progress; its invariant of any time: of the answers the organizer has or is going to get,
the one with the latest DTSTAMP is the owner's answer in Proton, unless a later one was
lost, or DTSTAMPs did not come in the order of the writes (`crossed`, which once true stays
so: `CrossedStays`). A write of an answer makes a new latest one, at once with the row; sending moves it
or loses it; what Proton's own client tells counts as heard. A message that is overtaken
is not the latest, so its loss or late arrival changes nothing.

*GuestsKnow* (`GuestInv`). A calendar goes by SEQUENCE first, and three kinds of message
come from three writers, so "the latest is right" is not enough: the messages a guest has
or is going to get of the account's own event must be in one order by DTSTAMP as by
SEQUENCE, with none above the row's (`Orderly`). Then what he takes is the later one
(`TakenIsLater`), whatever overtook it. Each write adds one message above all others,
which says what the row now says, or says nothing to him because nothing of his has
changed: for an update that is why a move of the place is announced although it takes no
SEQUENCE; for a delete, why its SEQUENCE must be counted from a row no older than Proton's
(else the write is `raced`); and the message is the latest only if its DTSTAMP is (else
`crossed`). Of a received event the gateway tells guests at most that it
is off (`Silent`).

*TwiceAtMost* (`QuotaInv`). The limiter counts by windows, the property by any 24 hours,
so the invariant speaks of prefix sums (`Before`: what was sent before each tick): the
window counts all that was sent since it opened, nothing is sent once a day of it is
over, and the day *before* it opened fits into one quota. A day that a message is added
to then lies in the window, or consists of a part before it and the window. That
`FoldSet` adds up is proved from its definition (`SumAtSet`, `SumOut`, `SumBetween`), each
time by a smallest counterexample (`Least`), as the library's induction theorems take an
operator as a parameter.

### Session

*SessionSurvives* (`SessionInv`). The lock is the heart: a process that is not off has it
(`Locked`), so a single one calls Proton (`CallsRun`), saves (`SavesNewest`), listens
(`PortHeld`) or has the newest token in memory (`HoldsNewest`). `ReloginJustified`
and `WaitingLeftAlone` come from the same invariant.

*SessionStaysReadable, NewestTokenKept* (`AtRestInv`). Unconditionally, what is sealed is
a whole session, a thread that saves has one, and the threads of a process draw one
key while none is cached (`ThreadInv`). As long as `stray` is empty: who has the
session in clear in hand is alone with it (`ClearAlone`); a login in progress has a
token nobody else has heard of (`SavesNewest`); the key on file is the one everybody
has cached (`OneKeyFor`); a temporary file holds what its only writer put there
(`TmpOwned`). The two properties are conjuncts of it, as each save relies on what
is in the file, and each load on who may save.

### Cards

*RowsStayOpen, SchedulesTold, EventTypes* (`EventInv`). What an update has in hand was
opened when it was fetched (`InHand`), so sealing with the key of its packet leaves
both cards to be opened, whatever happened to the row since. For `SEQUENCE` the
invariant orders all that was told: every schedule ever told has a lower SEQUENCE
than the row, or is the row's own (`ToldInOrder`); an update either leaves SEQUENCE
and schedule alone or goes one up (`UpdatedTells`, of `diffPatches` line by line).
Types rest on `DecryptType`, `ResourceType`, `SentType`, `TakenType` (each conversion
takes what it should into what it should) and `UpdatedWhole`, `CreatedWhole` (a body
is a row that can be read: one SEQUENCE, no orphaned EXDATE, none at another instant than
the occurrence it leaves out).
`FoldKeepsMinutes` is about alarms: folding several units into one keeps the length to the
minute, whatever the duration.

*EventsFaithful* (`FaithInv`). The property compares the row with the event the changes
describe, so the proof needs a contract between the two halves of the gateway,
`Describes(r, in, c)`: input `in` says, field by field, what change `c` makes of row `r`.
An update keeps it: patched with such an input the row shows exactly `Changed`, whatever
else is on its cards (`UpdatedRight`). And what a client sends that was served the same row
meets it, through `eventToVEvent` and `veventToInput` (`InputDescribes`). The invariant
carries the contract over the steps between: as long as nobody else's change is missing
from it the mirror shows what the row shows (`MirrorFresh`); what is in hand describes the
change of the row that was fetched (`HandDescribes`); and for the retry after a lost
answer, the same change of the row as it has become (`AgainDescribes`, by
`UpdatedDescribes`: an update applied twice is applied once). Reminders are compared by when
they ring, so the lemmas on `Alarms` show that a reminder that fits comes back as the same
minutes, from whatever units, all-day or not, and that two lists the code takes for equal
ring alike.

Its hypothesis `Ordinary` says what is needed of the constants:
- no change of the zone alone: the code does not write it (a finding);
- first rows as Proton and the gateway write them (`Sound`): an organizer if and only
  if there are invitees, no TENTATIVE row (the server rejects it, `ics.go:452`), a column
  of reminders with a form of Proton's;
- reminders of clients that Proton has a form for, in any units (`Fits`), or beyond
  all its bounds (`TooLong`). Of the alarms between, whose folding may leave the bounds or
  come back into them, nothing is claimed.

The proof found a flaw of the model: `Retry`, the replay after a lost answer, had
forgotten whether its update was computed from a mirror that was behind, which a second
fault shows. `Cards` is checked with two faults since.

The proofs have one step per action, and lemmas about the operators that are stated
once.

### Only model-checked

- Liveness (`EventuallyMirrors`, `PutSucceeds`, `Recovers`, `SealedInTheEnd`): out of the
  prover's reach.
- `Faithful` outside `Ordinary`: alarms between `Fits` and `TooLong`, rows that are
  TENTATIVE or have invitees without an organizer. With a change of zone alone it is false.

## 6. Reading a property

Every property is preceded by what it says and of which code. Three to start with:
`NeverOlderThanAcked` (why a client never sees its own write undone),
`MemorySound` (why a delta poller is enough), `InviteesInformed` (why mails sent
after the fact, by two requests, leave nobody with the wrong event).
`InviteesInformed` excuses the people a message to was lost, writes decided on
a row that had changed in between (`raced`): there the code plans from one row and
patches another, and makes no promise; and DTSTAMPs out of order (`crossed`), which are
a finding.

## 7. What is external

Proton, CalDAV clients, invitees' calendars, organizers, systemd and the operator
are modelled from how `src/` uses them, marked external in the map: Proton gives
each change one log position, never reuses a row ID, applies a call or not (its
answer may be lost either way), and rotates the refresh token at each refresh.

## 8. Not modelled

- OpenPGP and AES themselves (a key opens or does not), signatures, unlocking of
  the key rings, the syntax of cards and of iCalendar, folding, escaping.
- VTIMEZONE components and the offsets of zones; the end of an event and its zone
  (bounds move together); LOCATION and TRANSP (handled as DESCRIPTION and STATUS
  are); several cards of a kind; RRULE limits and the text of a rule.
- The syntax of durations, triggers with a date, more than ten alarms.
- The exception guard of `UpdateEvent`: every PUT sets `SeriesManaged`.
- HTTP interceptors (PROPPATCH, PROPFIND on root and principal, scheduling
  collections, PUT guard) and Basic auth: answers from the request alone.
- Configuration, logging, SMTP/MIME, the SRP/TOTP dialogue.
- In `GatewaySync`, `SeriesWrite` and `Invitations` the fetch and the put of
  `UpdateEvent` are one step; in `EventCards` they are two.
- The fallback of `ListEvents` and `GetEvent` to go-proton-api when the raw request fails,
  which loses the columns that client does not map (a finding): a fetch fails or returns
  the row.
- Time inside `GatewaySync`: the service window is a slice (`Outside`), it does not
  move by itself.

## 9. Plan

Done: the modules above and their runs; the proofs of section 5, with the refinement
of `Mirror`.

Next: the alarms between `Fits` and `TooLong`; the calls of `UpdateEvent` in two steps
in `Invitations` too; the interceptors of the HTTP surface.
