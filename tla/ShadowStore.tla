---------------------------- MODULE ShadowStore ----------------------------
(***************************************************************************)
(* The shadow store of internal/store: what the gateway keeps of every     *)
(* calendar, in memory and (as one sealed blob) on disk.  A store state is *)
(* a record; each mutator of the code is an operator from one store state  *)
(* to the next, and the modules that use the store say when it is called   *)
(* and whether its persist reached the disk.                               *)
(*                                                                         *)
(*   listed   the calendars served (data.Calendars)                        *)
(*   synced   the Synced flag, what Empty() looks at                       *)
(*   events   the mirrored row of every Proton row ID, NoEvent if absent   *)
(*   gen      the write-through counter of every calendar (data.Gens)      *)
(*   cursor   the event-loop cursor of every calendar, NoCursor if unknown *)
(*   alias    client resource name -> row ID (data.Aliases)                *)
(*                                                                         *)
(* A row ID belongs to one calendar and, for its whole life, to one UID    *)
(* and one RecurrenceID (0 = the master): Proton never moves a row between *)
(* them and never reuses an ID.  An event is abstracted to the position in *)
(* the calendar's change log that wrote it (ver, 0 = no event), the        *)
(* ListEvents slice its dates fall in (Outside = beyond the service        *)
(* window) and whether the gateway synthesized it from a client's input.   *)
(***************************************************************************)
EXTENDS Integers

CONSTANTS
  Cals,      \* calendar IDs
  Rows,      \* Proton row IDs
  Cal,       \* Cal[r]: the calendar of row r
  Uid,       \* Uid[r]: the iCalendar UID of row r
  Rid,       \* Rid[r]: its RecurrenceID, 0 for a master or plain event
  Names,     \* resource names a client may choose in a creating PUT
  NoRow,     \* "this name resolves to nothing"
  NSlices    \* slices one ListEvents is split into

ASSUME CalAssumption == Cal \in [Rows -> Cals]
ASSUME RidAssumption == Rid \in [Rows -> Nat]
ASSUME NoRowAssumption == NoRow \notin Rows
ASSUME NSlicesAssumption == NSlices \in Nat \ {0}

Outside == 0
NoCursor == -1

Event == [ver : Nat, slice : 0..NSlices, synth : BOOLEAN]
NoEvent == [ver |-> 0, slice |-> Outside, synth |-> FALSE]

RowsOf(c) == {r \in Rows : Cal[r] = c}
Siblings(r) == {s \in RowsOf(Cal[r]) : Uid[s] = Uid[r]}
IsMaster(r) == Rid[r] = 0

StoreType ==
  [listed : SUBSET Cals,
   synced : BOOLEAN,
   events : [Rows -> Event],
   gen    : [Cals -> Nat],
   cursor : [Cals -> Nat \cup {NoCursor}],
   alias  : [Names -> Rows \cup {NoRow}]]

\* A file that is missing, corrupted, sealed with another key or of a newer
\* schema opens as this store.
EmptyStore ==
  [listed |-> {},
   synced |-> FALSE,
   events |-> [r \in Rows |-> NoEvent],
   gen    |-> [c \in Cals |-> 0],
   cursor |-> [c \in Cals |-> NoCursor],
   alias  |-> [n \in Names |-> NoRow]]

Known(st, r) == st.events[r].ver # 0

\* dropAliasesToLocked: names that resolve to a row of gone resolve to nothing.
DropAliasesTo(st, gone) ==
  [st EXCEPT !.alias =
     [n \in Names |-> IF st.alias[n] \in gone THEN NoRow ELSE st.alias[n]]]

\* The rows of gone leave the store with the aliases to them.
Forget(st, gone) ==
  [DropAliasesTo(st, gone) EXCEPT !.events =
     [r \in Rows |-> IF r \in gone THEN NoEvent ELSE st.events[r]]]

\* Mutant: the counter runs backwards.
BumpDown(st, c) == [st EXCEPT !.gen = [st.gen EXCEPT ![c] = st.gen[c] - 1]]

Bump(st, c) == [st EXCEPT !.gen = [st.gen EXCEPT ![c] = st.gen[c] + 1]]

\* Mutant: the write-through of a create or update does not count.
UpsertUncounted(st, r, ev) == [st EXCEPT !.events = [st.events EXCEPT ![r] = ev]]

UpsertEvent(st, r, ev) ==
  Bump([st EXCEPT !.events = [st.events EXCEPT ![r] = ev]], Cal[r])

DeleteEvent(st, r) == Bump(Forget(st, {r}), Cal[r])

\* Every row of r's UID the store holds: only those have aliases to drop.
DeleteEventsByUID(st, r) ==
  Bump(Forget(st, {s \in Siblings(r) : Known(st, s)}), Cal[r])

SetAlias(st, n, r) == [st EXCEPT !.alias = [st.alias EXCEPT ![n] = r]]

ReplaceCalendars(st, cs) == [st EXCEPT !.listed = cs]

MarkSynced(st) == [st EXCEPT !.synced = TRUE]

SetCursor(st, c, k) == [st EXCEPT !.cursor = [st.cursor EXCEPT ![c] = k]]

\* Mutant: no generation guard.
Unguarded(st, c, g) == TRUE

\* The generation guard shared by the two calls that apply what the poller
\* fetched: g is the generation read before the fetch.
GenHeld(st, c, g) == st.gen[c] = g

\* ReplaceCalendarEvents behind its guard: the snapshot got is all the store
\* holds of c, and names whose row is not in it resolve to nothing.
ReplaceCalendarEvents(st, c, got) ==
  LET missing == {r \in RowsOf(c) : got[r].ver = 0}
  IN  [DropAliasesTo(st, missing) EXCEPT !.events =
         [r \in Rows |-> IF r \in RowsOf(c) THEN got[r] ELSE st.events[r]]]

\* ApplyCalendarDelta behind its guard: the rows of changed become what was
\* re-read of them, absent ones are deleted, and the cursor moves to k.
ApplyCalendarDelta(st, c, changed, got, k) ==
  LET deleted == {r \in changed : got[r].ver = 0}
  IN  SetCursor([DropAliasesTo(st, deleted) EXCEPT !.events =
                   [r \in Rows |-> IF r \in changed THEN got[r] ELSE st.events[r]]],
                c, k)
=============================================================================
