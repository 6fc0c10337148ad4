---------------------------- MODULE GatewaySync ----------------------------
(***************************************************************************)
(* The gateway's cache coherence protocol: internal/sync over              *)
(* internal/store, in front of the Proton calendar API.                    *)
(*                                                                         *)
(*   - CalDAV reads are answered from the store's memory alone (mem);      *)
(*   - CalDAV writes go through CachedSource, one at a time (writeMu): a   *)
(*     call to Proton, an authoritative re-read, then the write-through;   *)
(*   - one poller goroutine refreshes the store in cycles, calendar by     *)
(*     calendar, by delta from a cursor or by full snapshot;               *)
(*   - other Proton clients (the app, invitations) change rows meanwhile;  *)
(*   - the process may be killed at any point and restarts from the disk.  *)
(*                                                                         *)
(* Proton is outside src/: it is modelled from how internal/proton uses    *)
(* it, as rows and, per calendar, a change log of which only the position  *)
(* of the last entry of every row matters (the delta keeps the last action *)
(* of an ID).  Two history fields ride in the store record, acked and      *)
(* drift, and two history variables stand outside it, answered and lapsed: *)
(* the code's own state never depends on them.                             *)
(***************************************************************************)
EXTENDS ShadowStore

CONSTANTS
  Broken,     \* calendars whose keys do not unlock: every fetch fails
  MaxClock,   \* bound: changes a calendar's log can take
  MaxGen,     \* bound: write-throughs of a calendar
  MaxFaults   \* bound: failed calls, failed persists and restarts

ASSUME BrokenAssumption == Broken \subseteq Cals
ASSUME BoundsAssumption ==
  MaxClock \in Nat /\ MaxGen \in Nat /\ MaxFaults \in Nat

VARIABLES
  proton,     \* the rows Proton holds
  touched,    \* per row, position of its last entry in the change log
  clock,      \* per calendar, position of the last entry of its log
  mem,        \* the store as the process sees it
  disk,       \* the store as the last successful persist left it
  ready,      \* the readiness gate: clients are answered 503 until TRUE
  fresh,      \* calendars whose last full snapshot is recent (lastFull)
  w,          \* the write that holds writeMu
  recording,  \* rows created for a client whose RecordAlias is still to come
  pc,         \* where the poller is in SyncOnce / syncCalendarEvents
  todo,       \* calendars of the cycle still to refresh
  failed,     \* a calendar of this cycle returned an error
  cal,        \* the calendar being refreshed
  gen,        \* its generation, read before the fetch
  base,       \* the cursor the fetch will lay: baseline or NewCursor
  changed,    \* rows the delta lists
  need,       \* rows of the delta still to be re-read
  slices,     \* slices of the snapshot still to be fetched
  got,        \* rows fetched so far
  faults,     \* faults so far
  answered,   \* history: per row, the last version a client was told it wrote
  lapsed      \* history: rows whose last answer the store has not got (any more)

external == <<proton, touched, clock>>
fetch == <<cal, gen, base, changed, need, slices, got>>
poller == <<pc, todo, failed, fetch>>
vars == <<external, mem, disk, ready, fresh, w, recording, poller, faults,
          answered, lapsed>>

\* History fields: acked[r] is the log position of the last write to r that was
\* written through and that a client was told of, as far as this store
\* remembers it: a restart from an older file takes it back with the rows (what
\* the client knows is answered).  drift is the set of rows a write-through left
\* different from Proton with no entry ahead of the cursor to correct them.
HStoreType ==
  [listed : SUBSET Cals,
   synced : BOOLEAN,
   events : [Rows -> Event],
   gen    : [Cals -> Nat],
   cursor : [Cals -> Nat \cup {NoCursor}],
   alias  : [Names -> Rows \cup {NoRow}],
   acked  : [Rows -> Nat],
   drift  : SUBSET Rows]

NewStore ==
  [listed |-> EmptyStore.listed, synced |-> EmptyStore.synced,
   events |-> EmptyStore.events, gen |-> EmptyStore.gen,
   cursor |-> EmptyStore.cursor, alias |-> EmptyStore.alias,
   acked  |-> [r \in Rows |-> 0], drift |-> {}]

Ops == {"none", "create", "update", "rsvp", "delete"}

IdleWrite ==
  [pc |-> "idle", op |-> "none", row |-> NoRow, group |-> FALSE,
   value |-> NoEvent, gone |-> {}]

WriteType ==
  [pc : {"idle", "recheck", "send", "reread", "store"}, op : Ops,
   row : Rows \cup {NoRow}, group : BOOLEAN, value : Event, gone : SUBSET Rows]

NoRows == [r \in Rows |-> NoEvent]

Fault == faults < MaxFaults /\ faults' = faults + 1
NoFault == UNCHANGED faults

\* calendarKeyRing unlocks the keys of calendar c, or every call that needs
\* them fails.
Unlocks(c) == c \notin Broken

\* Mutant: cursors kept in a file of their own, written before the events.
PersistCursorFirst(st) ==
  /\ mem' = st
  /\ \/ disk' = st /\ NoFault
     \/ disk' = [disk EXCEPT !.cursor = st.cursor] /\ Fault

\* Mutant: a failed persist takes the memory back to what the file holds.
PersistOrRollBack(st) ==
  \/ mem' = st /\ disk' = st /\ NoFault
  \/ mem' = disk /\ UNCHANGED disk /\ Fault

\* persistLocked: the blob is written aside and renamed, or an error is
\* logged and memory alone has moved.
Persist(st) ==
  /\ mem' = st
  /\ \/ disk' = st /\ NoFault
     \/ UNCHANGED disk /\ Fault

NoPersist == UNCHANGED <<mem, disk>> /\ NoFault

-----------------------------------------------------------------------------
(* Proton, changed by its other clients. *)

Live(r) == proton[r].ver # 0
Born(r) == touched[r] # 0

\* The rows in R now carry the position of one new entry of c's log.
Logged(c, R) ==
  /\ clock' = [clock EXCEPT ![c] = clock[c] + 1]
  /\ touched' = [r \in Rows |-> IF r \in R THEN clock[c] + 1 ELSE touched[r]]

Written(r, s) == [ver |-> clock[Cal[r]] + 1, slice |-> s, synth |-> FALSE]

PutRow(r, s) ==
  /\ clock[Cal[r]] < MaxClock
  /\ Logged(Cal[r], {r})
  /\ proton' = [proton EXCEPT ![r] = Written(r, s)]

DropRows(c, R) ==
  /\ clock[c] < MaxClock
  /\ Logged(c, R)
  /\ proton' = [r \in Rows |-> IF r \in R THEN NoEvent ELSE proton[r]]

internal == <<mem, disk, ready, fresh, w, recording, poller, faults, answered, lapsed>>

ProtonPut(r) ==
  /\ Live(r) \/ ~Born(r)
  /\ \E s \in 0..NSlices : PutRow(r, s)
  /\ UNCHANGED internal

ProtonDelete(r) ==
  /\ Live(r)
  /\ DropRows(Cal[r], {r})
  /\ UNCHANGED internal

\* An entry that names no event row (a kind of change the delta ignores).
ProtonOther(c) ==
  /\ clock[c] < MaxClock
  /\ Logged(c, {})
  /\ UNCHANGED <<proton, internal>>

-----------------------------------------------------------------------------
(* What the history fields record, and what "stale" means. *)

Same(ev, row) ==
  \/ ev = row
  \/ ev.ver = 0 /\ row.slice = Outside

Stale(st, r) == ~Same(st.events[r], proton[r])

\* An entry about r lies ahead of the cursor k: a delta from k re-reads r.
Ahead(r, k) == touched[r] > k

\* Between ReplaceCalendarEvents and SetCursor the cursor of the calendar is as
\* good as the baseline about to be laid.
Reached(st, c) ==
  IF pc = "setcursor" /\ cal = c /\ base # NoCursor THEN base ELSE st.cursor[c]

WithDrift(st, R) ==
  [st EXCEPT !.drift =
     {r \in Rows : IF r \in R
                   THEN Stale(st, r) /\ ~Ahead(r, Reached(st, Cal[r]))
                   ELSE r \in st.drift}]

\* The rows of R carry the client's last word; the client gave up those of V.
Claimed(acks, R, V) ==
  [r \in Rows |-> IF r \in R THEN touched[r] ELSE IF r \in V THEN 0 ELSE acks[r]]

WithAck(st, R, V) == [st EXCEPT !.acked = Claimed(st.acked, R, V)]

-----------------------------------------------------------------------------
(* CachedSource: the write paths, under writeMu from Begin to the return. *)

unpolled == <<ready, fresh, poller>>
local == <<external, mem, disk, faults, unpolled, answered, lapsed>>

MayBegin(r) ==
  /\ ready
  /\ w.pc = "idle"
  /\ mem.gen[Cal[r]] < MaxGen

Begin(op, r, first, group) ==
  w' = [IdleWrite EXCEPT !.op = op, !.row = r, !.pc = first, !.group = group]

BeginCreate(r) ==
  /\ MayBegin(r) /\ ~Born(r)
  /\ Begin("create", r, "recheck", FALSE)
  /\ UNCHANGED <<recording, local>>

BeginUpdate(r) ==
  /\ MayBegin(r) /\ Born(r)
  /\ \E op \in {"update", "rsvp"} : Begin(op, r, "send", FALSE)
  /\ UNCHANGED <<recording, local>>

\* The UID and the role are read in the mirror before the deletion.
BeginDelete(r) ==
  /\ MayBegin(r) /\ Born(r)
  /\ Begin("delete", r, "send", Known(mem, r) /\ IsMaster(r))
  /\ UNCHANGED <<recording, local>>

\* Rows that would be the same event as r: same UID, same RecurrenceID.
Twins(r) == {s \in Siblings(r) : Rid[s] = Rid[r]}

\* CreateEvent's anti-duplicate re-check finds the event: its row ID is the
\* answer and nothing is written.  The backend records the alias afterwards.
RecheckFound ==
  /\ w.pc = "recheck" /\ Unlocks(Cal[w.row])
  /\ \E s \in Twins(w.row) :
       /\ Live(s)
       /\ recording' = IF IsMaster(s) THEN recording \cup {s} ELSE recording
  /\ w' = IdleWrite
  /\ UNCHANGED local

\* Nothing found, or the re-check failed and the create is attempted anyway.
RecheckPassed ==
  /\ w.pc = "recheck"
  /\ \/ (\A s \in Twins(w.row) : ~Live(s)) /\ NoFault
     \/ ~Unlocks(Cal[w.row]) /\ NoFault
     \/ Fault
  /\ w' = [w EXCEPT !.pc = "send"]
  /\ UNCHANGED <<external, mem, disk, unpolled, recording, answered, lapsed>>

\* Proton applied the call; the answer may still be lost, and CachedSource
\* then returns the error without touching the store.
Answered(next) == w' \in {next, IdleWrite}

SendFails ==
  /\ w.pc = "send"
  /\ w' = IdleWrite
  /\ UNCHANGED <<recording, local>>

\* The synthesized event (from the client's input) is what the write-through
\* falls back to.
Synth(r, s) == [ver |-> clock[Cal[r]] + 1, slice |-> s, synth |-> TRUE]

SendCreate(r) ==
  /\ w.pc = "send" /\ w.op = "create" /\ Unlocks(Cal[w.row])
  /\ r \in Twins(w.row) /\ ~Born(r)
  /\ \E s \in 0..NSlices :
       /\ PutRow(r, s)
       /\ Answered([w EXCEPT !.pc = "reread", !.row = r, !.value = Synth(r, s)])
  /\ UNCHANGED <<mem, disk, unpolled, recording, faults, answered, lapsed>>

SendUpdate ==
  /\ w.pc = "send" /\ w.op \in {"update", "rsvp"}
  /\ w.op = "rsvp" \/ Unlocks(Cal[w.row])
  /\ Live(w.row)
  /\ \E s \in IF w.op = "rsvp" THEN {proton[w.row].slice} ELSE 0..NSlices :
       /\ PutRow(w.row, s)
       /\ Answered([w EXCEPT !.pc = "reread", !.value = Synth(w.row, s)])
  /\ UNCHANGED <<mem, disk, unpolled, recording, faults, answered, lapsed>>

\* proton.DeleteEvent: a master takes its UID's other rows along in one sync
\* call when the (best-effort) enumeration succeeds.
SendDelete ==
  /\ w.pc = "send" /\ w.op = "delete" /\ Unlocks(Cal[w.row])
  /\ Live(w.row)
  /\ \E targets \in {{w.row}} \cup
         (IF IsMaster(w.row) THEN {{s \in Siblings(w.row) : Live(s)}} ELSE {}) :
       /\ DropRows(Cal[w.row], targets)
       /\ Answered([w EXCEPT !.pc = "store", !.gone = targets])
  /\ UNCHANGED <<mem, disk, unpolled, recording, faults, answered, lapsed>>

\* ErrEventNotFound: the row was already gone; the cache is purged all the same.
SendDeleteNotFound ==
  /\ w.pc = "send" /\ w.op = "delete" /\ Unlocks(Cal[w.row])
  /\ ~Live(w.row)
  /\ w' = [w EXCEPT !.pc = "store", !.gone = {w.row}]
  /\ UNCHANGED <<recording, local>>

\* writeThrough's authoritative re-read.
Reread ==
  /\ w.pc = "reread"
  /\ Live(w.row) /\ Unlocks(Cal[w.row])
  /\ w' = [w EXCEPT !.pc = "store", !.value = proton[w.row]]
  /\ UNCHANGED <<recording, local>>

\* The re-read fails (the API, or the row is gone): the synthesized event is
\* kept.
RereadFails ==
  /\ w.pc = "reread" /\ w.op # "rsvp"
  /\ w' = [w EXCEPT !.pc = "store"]
  /\ UNCHANGED <<recording, local>>

\* UpdateAttendeeStatus returns a success without refreshing the store when its
\* re-read fails: the client has its answer, the store the row before it.
RsvpUnread ==
  /\ w.pc = "reread" /\ w.op = "rsvp"
  /\ w' = IdleWrite
  /\ answered' = [answered EXCEPT ![w.row] = w.value.ver]
  /\ lapsed' = lapsed \cup {w.row}
  /\ UNCHANGED <<external, mem, disk, unpolled, recording, faults>>

\* UpsertEvent, then the return to the client.
WriteThrough ==
  /\ w.pc = "store" /\ w.op # "delete"
  /\ LET stored == UpsertEvent(mem, w.row, w.value)
     IN  Persist([WithDrift(stored, {w.row}) EXCEPT
                    !.acked = [mem.acked EXCEPT ![w.row] = w.value.ver]])
  /\ answered' = [answered EXCEPT ![w.row] = w.value.ver]
  /\ lapsed' = lapsed \ {w.row}
  /\ recording' = IF w.op = "create" /\ IsMaster(w.row)
                  THEN recording \cup {w.row} ELSE recording
  /\ w' = IdleWrite
  /\ UNCHANGED <<external, unpolled>>

\* DeleteEventsByUID or DeleteEvent, then the return to the client.  The client
\* asked for one row; the rest of a series is acknowledged with its group (a row
\* of the group that the sync call did not delete is no longer the client's).
WriteThroughDelete ==
  /\ w.pc = "store" /\ w.op = "delete"
  /\ LET purged == IF w.group THEN DeleteEventsByUID(mem, w.row)
                              ELSE DeleteEvent(mem, w.row)
         told == IF w.group THEN w.gone ELSE {w.row}
         dropped == IF w.group THEN Siblings(w.row) ELSE {}
     IN  /\ Persist(WithAck(WithDrift(purged, Siblings(w.row)), told, dropped))
         /\ answered' = Claimed(answered, told, dropped)
         /\ lapsed' = lapsed \ (told \cup dropped)
  /\ w' = IdleWrite
  /\ UNCHANGED <<external, unpolled, recording>>

\* The backend's RecordAlias after the create returned, outside writeMu; a
\* no-op when the client's name is the row ID.
RecordAlias(r) ==
  /\ r \in recording
  /\ recording' = recording \ {r}
  /\ \/ \E n \in Names : Persist(SetAlias(mem, n, r))
     \/ NoPersist
  /\ UNCHANGED <<external, unpolled, w, answered, lapsed>>

-----------------------------------------------------------------------------
(* The poller: SyncOnce, once per interval, and syncCalendarEvents. *)

unwritten == <<external, w, recording, answered, lapsed>>

EndCycle == pc' = "idle" /\ ready' = TRUE /\ failed' = FALSE

\* ListCalendars fails, or answers an empty list while the store has
\* calendars: the cycle ends and nothing is purged.
CycleAborts ==
  /\ pc = "idle"
  /\ Fault
  /\ EndCycle
  /\ UNCHANGED <<unwritten, mem, disk, fresh, todo, fetch>>

\* The active calendars are listed: ReplaceCalendars, a no-op on the same list.
CycleStarts ==
  /\ pc = "idle"
  /\ IF mem.listed = Cals THEN NoPersist ELSE Persist(ReplaceCalendars(mem, Cals))
  /\ todo' = Cals
  /\ pc' = "next"
  /\ UNCHANGED <<unwritten, ready, fresh, failed, fetch>>

\* A blip omits calendars of the list (all of them only if the store has none):
\* they are no longer listed, and their content is kept.
CycleStartsOnBlip(cs) ==
  /\ pc = "idle"
  /\ cs # Cals
  /\ cs = {} => mem.listed = {}
  /\ Fault
  /\ IF cs = mem.listed THEN UNCHANGED <<mem, disk>>
     ELSE mem' = ReplaceCalendars(mem, cs) /\ disk' = mem'
  /\ todo' = cs
  /\ pc' = "next"
  /\ UNCHANGED <<unwritten, ready, fresh, failed, fetch>>

\* Mutant: the periodic full snapshot is forgotten once there is a cursor.
NextCalendarNeverFull(c) ==
  /\ pc = "next" /\ c \in todo
  /\ todo' = todo \ {c}
  /\ cal' = c
  /\ gen' = mem.gen[c]
  /\ pc' = IF mem.cursor[c] # NoCursor THEN "delta" ELSE "baseline"
  /\ base' = NoCursor /\ changed' = {} /\ need' = {} /\ slices' = {} /\ got' = NoRows
  /\ NoPersist
  /\ UNCHANGED <<unwritten, ready, fresh, failed>>

\* A calendar's turn: the generation, then the cursor, are read before any
\* fetch; no cursor or a full snapshot due means a full snapshot.
NextCalendar(c) ==
  /\ pc = "next" /\ c \in todo
  /\ todo' = todo \ {c}
  /\ cal' = c
  /\ gen' = mem.gen[c]
  /\ pc' = IF mem.cursor[c] # NoCursor /\ c \in fresh THEN "delta" ELSE "baseline"
  /\ base' = NoCursor /\ changed' = {} /\ need' = {} /\ slices' = {} /\ got' = NoRows
  /\ NoPersist
  /\ UNCHANGED <<unwritten, ready, fresh, failed>>

\* Forget the fetch: the calendar is done with, whatever became of it.
CalendarDone ==
  /\ pc' = "next"
  /\ gen' = 0 /\ base' = NoCursor
  /\ changed' = {} /\ need' = {} /\ slices' = {} /\ got' = NoRows
  /\ UNCHANGED <<todo, cal>>

\* Mutant: the error of one calendar ends the cycle.
FetchFailsForAll ==
  /\ pc \in {"delta", "get", "list"}
  /\ IF Unlocks(cal) THEN Fault ELSE NoFault
  /\ EndCycle /\ todo' = {}
  /\ gen' = 0 /\ base' = NoCursor
  /\ changed' = {} /\ need' = {} /\ slices' = {} /\ got' = NoRows
  /\ UNCHANGED <<unwritten, mem, disk, fresh, cal>>

\* CalendarEventChanges, LatestCalendarCursor aside: any call of the fetch
\* fails, the calendar keeps its content, the cycle counts an error and goes on.
FetchFails ==
  /\ pc \in {"delta", "get", "list"}
  /\ IF Unlocks(cal) THEN Fault ELSE NoFault
  /\ failed' = TRUE
  /\ CalendarDone
  /\ UNCHANGED <<unwritten, mem, disk, ready, fresh>>

\* The pages of the log after the cursor: rows whose last entry is a deletion
\* are resolved at once, the others are re-read one by one.
DeltaPages ==
  /\ pc = "delta" /\ Unlocks(cal)
  /\ base' = clock[cal]
  /\ changed' = {r \in RowsOf(cal) : Ahead(r, mem.cursor[cal])}
  /\ need' = {r \in changed' : Live(r)}
  /\ pc' = IF need' = {} THEN "apply" ELSE "get"
  /\ NoPersist
  /\ UNCHANGED <<unwritten, ready, fresh, todo, failed, cal, gen, slices, got>>

\* The server no longer knows the cursor (Refresh), or the log is too long.
DeltaRefresh ==
  /\ pc = "delta" /\ Unlocks(cal)
  /\ Fault
  /\ pc' = "baseline"
  /\ UNCHANGED <<unwritten, mem, disk, ready, fresh, todo, failed, fetch>>

\* One row re-read; a row gone by then is a deletion.
DeltaGet(r) ==
  /\ pc = "get" /\ r \in need
  /\ got' = [got EXCEPT ![r] = proton[r]]
  /\ need' = need \ {r}
  /\ pc' = IF need' = {} THEN "apply" ELSE "get"
  /\ NoPersist
  /\ UNCHANGED <<unwritten, ready, fresh, todo, failed, cal, gen, base, changed, slices>>

WithoutDrift(st, R) == [st EXCEPT !.drift = st.drift \ R]

\* Mutant: a refused delta still moves the cursor.
DeltaApplyCursorAnyway ==
  /\ pc = "apply"
  /\ IF GenHeld(mem, cal, gen) /\ base # mem.cursor[cal]
     THEN Persist(WithoutDrift(ApplyCalendarDelta(mem, cal, changed, got, base),
                               changed))
     ELSE Persist(SetCursor(mem, cal, base))
  /\ CalendarDone
  /\ UNCHANGED <<unwritten, ready, fresh, failed>>

\* ApplyCalendarDelta under the generation guard; nothing is written when no
\* row changed and the cursor did not move.
DeltaApply ==
  /\ pc = "apply"
  /\ IF GenHeld(mem, cal, gen) /\ base # mem.cursor[cal]
     THEN Persist(WithoutDrift(ApplyCalendarDelta(mem, cal, changed, got, base),
                               changed))
     ELSE NoPersist
  /\ CalendarDone
  /\ UNCHANGED <<unwritten, ready, fresh, failed>>

\* The baseline cursor, read before the snapshot; on an error there is none.
Baseline ==
  /\ pc = "baseline"
  /\ \/ base' = clock[cal] /\ NoFault
     \/ base' = NoCursor /\ Fault
  /\ slices' = 1..NSlices
  /\ pc' = "list"
  /\ UNCHANGED <<unwritten, mem, disk, ready, fresh, todo, failed, cal, gen,
                 changed, need, got>>

\* ListEvents fetches its slices in parallel and keeps, of an ID that two
\* slices returned, the copy of the earlier slice.
ListSlice(s) ==
  /\ pc = "list" /\ s \in slices /\ Unlocks(cal)
  /\ got' = [r \in Rows |->
               IF r \in RowsOf(cal) /\ Live(r) /\ proton[r].slice = s
                    /\ (got[r].ver = 0 \/ s < got[r].slice)
               THEN proton[r] ELSE got[r]]
  /\ slices' = slices \ {s}
  /\ pc' = IF slices' = {} THEN "replace" ELSE "list"
  /\ NoPersist
  /\ UNCHANGED <<unwritten, ready, fresh, todo, failed, cal, gen, base, changed, need>>

\* A refused snapshot is dropped, without an error.
SnapshotRefused ==
  /\ pc = "replace"
  /\ ~GenHeld(mem, cal, gen)
  /\ CalendarDone
  /\ NoPersist
  /\ UNCHANGED <<unwritten, ready, fresh, failed>>

SnapshotReplace ==
  /\ pc = "replace"
  /\ GenHeld(mem, cal, gen)
  /\ Persist(WithoutDrift(ReplaceCalendarEvents(mem, cal, got), RowsOf(cal)))
  /\ pc' = "setcursor"
  /\ UNCHANGED <<unwritten, ready, fresh, todo, failed, fetch>>

\* Mutant: the baseline cursor is read once the snapshot is applied.
SnapshotSetCursorLate ==
  /\ pc = "setcursor"
  /\ Persist(SetCursor(mem, cal, clock[cal]))
  /\ fresh' = fresh \cup {cal}
  /\ CalendarDone
  /\ UNCHANGED <<unwritten, ready, failed>>

SnapshotSetCursor ==
  /\ pc = "setcursor"
  /\ IF base # NoCursor /\ base # mem.cursor[cal]
     THEN Persist(SetCursor(mem, cal, base)) ELSE NoPersist
  /\ fresh' = fresh \cup {cal}
  /\ CalendarDone
  /\ UNCHANGED <<unwritten, ready, failed>>

CycleEnds ==
  /\ pc = "next" /\ todo = {}
  /\ IF failed \/ mem.synced THEN NoPersist ELSE Persist(MarkSynced(mem))
  /\ EndCycle
  /\ UNCHANGED <<unwritten, fresh, todo, fetch>>

\* defaultFullResyncEvery has passed since c's last full snapshot.
FullDeadline(c) ==
  /\ c \in fresh
  /\ fresh' = fresh \ {c}
  /\ NoPersist
  /\ UNCHANGED <<unwritten, ready, poller>>

-----------------------------------------------------------------------------
(* The process: Init is the first boot; Restart kills it and boots again,   *)
(* from the disk or from nothing when the file cannot be read back.         *)

Booted(st) ==
  /\ mem' = st /\ disk' = st /\ ready' = st.synced
  /\ fresh' = {} /\ w' = IdleWrite /\ recording' = {}
  /\ pc' = "idle" /\ todo' = {} /\ failed' = FALSE
  /\ gen' = 0 /\ base' = NoCursor /\ changed' = {} /\ need' = {} /\ slices' = {}
  /\ got' = NoRows /\ UNCHANGED cal

\* The answers the file does not hold (their persist failed, and no later one
\* made up for it) lapse with the memory.
Restart ==
  /\ Fault
  /\ \/ /\ Booted(disk)
        /\ lapsed' = lapsed \cup {r \in Rows : disk.acked[r] # mem.acked[r]}
     \/ Booted(NewStore) /\ UNCHANGED lapsed
  /\ UNCHANGED <<external, answered>>

\* Each calendar's log starts with the entries of the rows it already has.
Init ==
  /\ proton \in {[r \in Rows |-> IF r \in R THEN [ver |-> 1, slice |-> 1, synth |-> FALSE]
                                 ELSE NoEvent] : R \in SUBSET Rows}
  /\ touched = [r \in Rows |-> proton[r].ver]
  /\ clock = [c \in Cals |-> 1]
  /\ mem = NewStore /\ disk = NewStore /\ ready = FALSE
  /\ fresh = {} /\ w = IdleWrite /\ recording = {}
  /\ pc = "idle" /\ todo = {} /\ failed = FALSE
  /\ cal \in Cals /\ gen = 0 /\ base = NoCursor /\ changed = {} /\ need = {}
  /\ slices = {} /\ got = NoRows
  /\ faults = 0 /\ answered = [r \in Rows |-> 0] /\ lapsed = {}

Others ==
  \/ \E r \in Rows : ProtonPut(r) \/ ProtonDelete(r)
  \/ \E c \in Cals : ProtonOther(c)

Requests == \E r \in Rows : BeginCreate(r) \/ BeginUpdate(r) \/ BeginDelete(r)

Writer ==
  \/ RecheckFound \/ RecheckPassed
  \/ SendFails \/ (\E r \in Rows : SendCreate(r)) \/ SendUpdate
  \/ SendDelete \/ SendDeleteNotFound
  \/ Reread \/ RereadFails \/ RsvpUnread
  \/ WriteThrough \/ WriteThroughDelete

Poller ==
  \/ CycleAborts \/ CycleStarts \/ (\E cs \in SUBSET Cals : CycleStartsOnBlip(cs))
  \/ (\E c \in Cals : NextCalendar(c))
  \/ FetchFails \/ DeltaPages \/ DeltaRefresh \/ (\E r \in Rows : DeltaGet(r)) \/ DeltaApply
  \/ Baseline \/ (\E s \in 1..NSlices : ListSlice(s))
  \/ SnapshotRefused \/ SnapshotReplace \/ SnapshotSetCursor
  \/ CycleEnds

Next ==
  \/ Others
  \/ Requests
  \/ Writer
  \/ \E r \in Rows : RecordAlias(r)
  \/ Poller
  \/ \E c \in Cals : FullDeadline(c)
  \/ Restart

Spec == Init /\ [][Next]_vars

-----------------------------------------------------------------------------
(* Properties. *)

TypeOK ==
  /\ proton \in [Rows -> Event]
  /\ touched \in [Rows -> Nat]
  /\ clock \in [Cals -> Nat]
  /\ mem \in HStoreType /\ disk \in HStoreType
  /\ ready \in BOOLEAN
  /\ fresh \subseteq Cals
  /\ w \in WriteType
  /\ recording \subseteq Rows
  /\ pc \in {"idle", "next", "delta", "get", "apply", "baseline", "list", "replace",
             "setcursor"}
  /\ todo \subseteq Cals /\ failed \in BOOLEAN
  /\ cal \in Cals /\ gen \in Nat /\ base \in Nat \cup {NoCursor}
  /\ changed \subseteq Rows /\ need \subseteq Rows /\ slices \subseteq 1..NSlices
  /\ got \in [Rows -> Event]
  /\ faults \in Nat
  /\ answered \in [Rows -> Nat] /\ lapsed \subseteq Rows

\* Once a client was told a write succeeded, the gateway never serves a
\* version of the row older than that write, and never serves again a row
\* whose deletion was acknowledged -- whatever the poller had in flight, and
\* through restarts.  Two answers are given without the store holding them, and
\* the row is then served as it was before until Proton is read again (lapsed):
\* an RSVP whose re-read failed, and a write whose persist failed and whose
\* process died before the next persist (UpsertEvent's error is only logged).
NeverOlderThanAcked ==
  \A r \in Rows \ lapsed : Known(mem, r) => mem.events[r].ver >= answered[r]

\* What a client wrote, and nobody touched since, is what it reads back, drift
\* or not -- as long as the store remembers the write: a restart from an older
\* file forgets it with the row.
ReadYourWrites ==
  \A r \in Rows :
    mem.acked[r] # 0 /\ touched[r] = mem.acked[r]
      => mem.events[r].ver = proton[r].ver \/ proton[r].slice = Outside

\* A row the store has wrong lies ahead of the cursor, so the next delta
\* corrects it -- except rows a write-through left behind (drift), which wait
\* for a full snapshot.  It holds of the memory and of what a restart loads.
MirrorSound(st) ==
  \A r \in Rows : Stale(st, r) => r \in st.drift \/ Ahead(r, st.cursor[Cal[r]])

MemorySound == MirrorSound(mem)
DiskSound == MirrorSound(disk)

\* The poller never replaces a row by an older version of it, whether the store
\* got the newer one from a write-through or from an earlier cycle.
PollerNeverRegresses ==
  [][Poller =>
       \A r \in Rows : Known(mem', r) => mem'.events[r].ver >= mem.events[r].ver]_vars

\* The poller and an accepted write end; time passes.  Proton's other clients,
\* new requests and restarts owe nothing, and faults are transient (MaxFaults).
Fairness ==
  /\ WF_vars(Poller)
  /\ WF_vars(Writer)
  /\ \A c \in Cals : WF_vars(FullDeadline(c))

FairSpec == Spec /\ Fairness

\* Once Proton and the clients fall quiet, the store ends up equal to Proton,
\* inside the service window, and stays so: every drift is repaired.  A calendar
\* whose fetches fail for good holds up no other ("A calendar in error does not
\* block the others", poller.go:105-106).
EventuallyMirrors ==
  <>[](\A r \in Rows : Unlocks(Cal[r]) => ~Stale(mem, r))

-----------------------------------------------------------------------------
(* Statements of the repository that the protocol does not keep.            *)

\* After an RSVP "the PARTSTAT served to the client reflects the new status
\* immediately, without waiting for the poller cycle" (cachedsource.go:186-187):
\* no row is served older than what a client was told it wrote.
AnswerServedAtOnce ==
  \A r \in Rows : Known(mem, r) => mem.events[r].ver >= answered[r]

\* "the approximation (Sequence, LastEdit=now) is fixed on the next poller
\* cycle" (cachedsource.go:229-231): between writes, a synthesized row is ahead
\* of the cursor or in a calendar whose full snapshot is due.
ApproximationFixedNextCycle ==
  w.pc = "idle" =>
    \A r \in Rows :
      mem.events[r].synth => Ahead(r, Reached(mem, Cal[r])) \/ Cal[r] \notin fresh

\* "Aliases whose target vanished from the snapshot: purged (the row no longer
\* exists on the Proton side...)" (store.go:406-407).
AliasPurgedOnlyWhenGone ==
  [][Poller => \A n \in Names :
       mem.alias[n] # NoRow /\ mem'.alias[n] = NoRow => ~Live(mem.alias[n])]_vars

\* "A master DELETE purges the whole same-UID GROUP from the store"
\* (cachedsource.go:30-33).
MasterDeletePurgesGroup ==
  [][WriteThroughDelete /\ IsMaster(w.row) =>
       \A s \in Siblings(w.row) : ~Known(mem', s)]_vars

\* "Synced is true as soon as ONE COMPLETE sync cycle has succeeded [...] after
\* the ReplaceCalendarEvents" (store.go:51-53): when the flag goes up, the store
\* holds every row of the listed calendars that was there all along.
SyncedMeansLoaded ==
  [][~mem.synced /\ mem'.synced =>
       \A r \in Rows :
         Cal[r] \in mem.listed /\ Live(r) /\ touched[r] = 1 => Known(mem, r)]_vars
=============================================================================
