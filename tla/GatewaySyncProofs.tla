------------------------- MODULE GatewaySyncProofs -------------------------
(***************************************************************************)
(* Theorems about GatewaySync, for every set of calendars, rows and names, *)
(* every number of slices and every bound.                                 *)
(*                                                                         *)
(* First, that every variable keeps its type.  Then, that what was         *)
(* acknowledged to a client is never served older: NeverOlderThanAcked is  *)
(* an invariant.  It is not inductive: the poller holds rows it fetched    *)
(* before the acknowledged write.  AckInv adds what saves them: the        *)
(* generation it read is not above the store's (so an equal one means no   *)
(* write-through since), and as long as the two are equal whatever it      *)
(* fetched is at least as new as the acknowledged version.  That is about  *)
(* what the store remembers (acked); ToldInv adds what the clients know    *)
(* (answered): the store remembers the last answer, or was reborn from     *)
(* nothing since and holds nothing older, or the answer lapsed.            *)
(*                                                                         *)
(* Last, that what the store has wrong lies ahead of its cursor:           *)
(* MemorySound and DiskSound are invariants.  The strengthening says why a *)
(* fetch may move the cursor: what it holds of a row is Proton's copy, or  *)
(* the row has an entry after the position the fetch will lay (base), so   *)
(* the next delta looks at it again.  It is the order of the calls that    *)
(* gives this: the cursor is read before the rows, in the delta as in the  *)
(* snapshot.                                                               *)
(***************************************************************************)
EXTENDS GatewaySync, TLAPS

-----------------------------------------------------------------------------
(* The store's mutators keep a store a store.                               *)

\* NoEvent and the initial stores are well formed.
LEMMA EmptyTyped ==
  /\ NoEvent \in Event
  /\ NoRows \in [Rows -> Event]
  /\ NewStore \in HStoreType
<1>1. NoEvent \in Event /\ NoRows \in [Rows -> Event]
  BY NSlicesAssumption DEF NoEvent, Event, NoRows, Outside
<1>2. NewStore \in HStoreType
  BY <1>1, NSlicesAssumption DEF NewStore, EmptyStore, HStoreType
<1> QED BY <1>1, <1>2

LEMMA ForgetTyped ==
  ASSUME NEW st \in HStoreType, NEW gone
  PROVE  DropAliasesTo(st, gone) \in HStoreType /\ Forget(st, gone) \in HStoreType
<1>1. DropAliasesTo(st, gone) \in HStoreType
  BY DEF DropAliasesTo, HStoreType
<1>2. [r \in Rows |-> IF r \in gone THEN NoEvent ELSE st.events[r]] \in [Rows -> Event]
  BY EmptyTyped DEF HStoreType
<1> QED BY <1>1, <1>2 DEF Forget, HStoreType

LEMMA BumpTyped ==
  ASSUME NEW st \in HStoreType, NEW c \in Cals
  PROVE  Bump(st, c) \in HStoreType
BY DEF Bump, HStoreType

LEMMA WriteTyped ==
  ASSUME NEW st \in HStoreType, NEW r \in Rows, NEW ev \in Event
  PROVE  /\ UpsertEvent(st, r, ev) \in HStoreType
         /\ DeleteEvent(st, r) \in HStoreType
         /\ DeleteEventsByUID(st, r) \in HStoreType
<1> Cal[r] \in Cals BY CalAssumption
<1>1. [st EXCEPT !.events = [st.events EXCEPT ![r] = ev]] \in HStoreType
  BY DEF HStoreType
<1>2. UpsertEvent(st, r, ev) \in HStoreType
  BY <1>1, BumpTyped DEF UpsertEvent
<1> QED BY <1>2, BumpTyped, ForgetTyped DEF DeleteEvent, DeleteEventsByUID

LEMMA ClaimedTyped ==
  ASSUME NEW acks \in [Rows -> Nat], NEW R, NEW V, touched \in [Rows -> Nat]
  PROVE  Claimed(acks, R, V) \in [Rows -> Nat]
BY DEF Claimed

LEMMA HistoryTyped ==
  ASSUME NEW st \in HStoreType, NEW R, NEW V, touched \in [Rows -> Nat]
  PROVE  /\ WithDrift(st, R) \in HStoreType
         /\ WithoutDrift(st, R) \in HStoreType
         /\ WithAck(st, R, V) \in HStoreType
<1>1. WithDrift(st, R) \in HStoreType BY DEF WithDrift, HStoreType
<1>2. WithoutDrift(st, R) \in HStoreType BY DEF WithoutDrift, HStoreType
<1>3. Claimed(st.acked, R, V) \in [Rows -> Nat]
  BY ClaimedTyped DEF HStoreType
<1>4. WithAck(st, R, V) \in HStoreType BY <1>3 DEF WithAck, HStoreType
<1> QED BY <1>1, <1>2, <1>4

LEMMA CursorTyped ==
  ASSUME NEW st \in HStoreType, NEW c \in Cals, NEW k \in Nat \cup {NoCursor}
  PROVE  SetCursor(st, c, k) \in HStoreType
BY DEF SetCursor, HStoreType

LEMMA ApplyTyped ==
  ASSUME NEW st \in HStoreType, NEW c \in Cals, NEW k \in Nat \cup {NoCursor},
         NEW R, NEW f \in [Rows -> Event]
  PROVE  /\ ReplaceCalendarEvents(st, c, f) \in HStoreType
         /\ ApplyCalendarDelta(st, c, R, f, k) \in HStoreType
<1>1. ASSUME NEW ff \in [Rows -> Event], NEW gone
      PROVE  [DropAliasesTo(st, gone) EXCEPT !.events = ff] \in HStoreType
  BY ForgetTyped DEF HStoreType
<1>2. /\ [r \in Rows |-> IF r \in RowsOf(c) THEN f[r] ELSE st.events[r]] \in [Rows -> Event]
      /\ [r \in Rows |-> IF r \in R THEN f[r] ELSE st.events[r]] \in [Rows -> Event]
  BY DEF HStoreType
<1> QED BY <1>1, <1>2, CursorTyped DEF ReplaceCalendarEvents, ApplyCalendarDelta

-----------------------------------------------------------------------------
(* Type correctness.                                                        *)

LEMMA PersistTyped ==
  ASSUME TypeOK, NEW st \in HStoreType, Persist(st)
  PROVE  mem' \in HStoreType /\ disk' \in HStoreType /\ faults' \in Nat
BY DEF Persist, Fault, NoFault, TypeOK

LEMMA NoPersistTyped ==
  ASSUME TypeOK, NoPersist
  PROVE  mem' \in HStoreType /\ disk' \in HStoreType /\ faults' \in Nat
BY DEF NoPersist, NoFault, TypeOK

\* The rows, the log and its positions stay typed.
ExternalOK ==
  /\ proton \in [Rows -> Event]
  /\ touched \in [Rows -> Nat]
  /\ clock \in [Cals -> Nat]

LEMMA ExternalTyped ==
  ASSUME ExternalOK
  PROVE  /\ \A r \in Rows, s \in 0..NSlices : PutRow(r, s) => ExternalOK'
         /\ \A c \in Cals : \A R : DropRows(c, R) => ExternalOK'
         /\ \A c \in Cals : \A R : Logged(c, R) => touched' \in [Rows -> Nat]
                                                   /\ clock' \in [Cals -> Nat]
<1>1. ASSUME NEW c \in Cals, NEW R, Logged(c, R)
      PROVE  touched' \in [Rows -> Nat] /\ clock' \in [Cals -> Nat]
  BY <1>1 DEF Logged, ExternalOK
<1>2. ASSUME NEW r \in Rows, NEW s \in 0..NSlices, PutRow(r, s)
      PROVE  ExternalOK'
  <2>1. Cal[r] \in Cals BY CalAssumption
  <2>2. Written(r, s) \in Event BY <2>1 DEF Written, Event, ExternalOK
  <2> QED BY <1>1, <1>2, <2>1, <2>2 DEF PutRow, ExternalOK
<1>3. ASSUME NEW c \in Cals, NEW R, DropRows(c, R)
      PROVE  ExternalOK'
  BY <1>1, <1>3, EmptyTyped DEF DropRows, ExternalOK
<1> QED BY <1>1, <1>2, <1>3

LEMMA SynthTyped ==
  ASSUME ExternalOK, NEW r \in Rows, NEW s \in 0..NSlices
  PROVE  Synth(r, s) \in Event /\ Synth(r, s).ver = clock[Cal[r]] + 1
<1> Cal[r] \in Cals BY CalAssumption
<1> QED BY DEF Synth, Event, ExternalOK

\* A write that is not idle names a row, and its group lies in the row's UID.
WriteOK ==
  /\ w \in WriteType
  /\ w.pc # "idle" => w.row \in Rows
  /\ w.gone \subseteq Siblings(w.row)

\* What the poller holds, typed.
PollerOK ==
  /\ pc \in {"idle", "next", "delta", "get", "apply", "baseline", "list", "replace",
             "setcursor"}
  /\ todo \subseteq Cals /\ failed \in BOOLEAN
  /\ cal \in Cals /\ gen \in Nat /\ base \in Nat \cup {NoCursor}
  /\ changed \subseteq RowsOf(cal) /\ need \subseteq Rows /\ slices \subseteq 1..NSlices
  /\ got \in [Rows -> Event]

StoresOK ==
  /\ mem \in HStoreType /\ disk \in HStoreType /\ faults \in Nat

GatesOK ==
  /\ ready \in BOOLEAN /\ fresh \subseteq Cals /\ recording \subseteq Rows
  /\ answered \in [Rows -> Nat] /\ lapsed \subseteq Rows

TypeInv == ExternalOK /\ StoresOK /\ GatesOK /\ WriteOK /\ PollerOK

LEMMA TypeInvGivesTypeOK == TypeInv => TypeOK
BY DEF TypeInv, ExternalOK, StoresOK, GatesOK, WriteOK, PollerOK, TypeOK, RowsOf

LEMMA InitTyped == Init => TypeInv
<1> SUFFICES ASSUME Init PROVE TypeInv OBVIOUS
<1>1. ExternalOK
  <2>1. PICK R \in SUBSET Rows :
          proton = [r \in Rows |->
                     IF r \in R THEN [ver |-> 1, slice |-> 1, synth |-> FALSE]
                     ELSE NoEvent]
    BY DEF Init
  <2>2. [ver |-> 1, slice |-> 1, synth |-> FALSE] \in Event
    BY NSlicesAssumption DEF Event
  <2>3. proton \in [Rows -> Event] BY <2>1, <2>2, EmptyTyped
  <2>4. touched \in [Rows -> Nat] BY <2>3 DEF Init, Event
  <2>5. clock \in [Cals -> Nat] BY DEF Init
  <2> QED BY <2>3, <2>4, <2>5 DEF ExternalOK
<1>2. StoresOK BY EmptyTyped DEF Init, StoresOK
<1>3. WriteOK BY EmptyTyped DEF Init, WriteOK, IdleWrite, WriteType, Ops
<1>4. PollerOK BY EmptyTyped DEF Init, PollerOK, NoCursor
<1> QED BY <1>1, <1>2, <1>3, <1>4 DEF Init, TypeInv, GatesOK

LEMMA SiblingsFacts ==
  ASSUME NEW r \in Rows
  PROVE  /\ r \in Siblings(r) /\ Siblings(r) \subseteq Rows
         /\ \A s \in Siblings(r) : Cal[s] = Cal[r] /\ Siblings(s) = Siblings(r)
<1>1. r \in Siblings(r) /\ Siblings(r) \subseteq Rows BY DEF Siblings, RowsOf
<1>2. ASSUME NEW s \in Siblings(r)
      PROVE  Cal[s] = Cal[r] /\ Siblings(s) = Siblings(r)
  BY DEF Siblings, RowsOf
<1> QED BY <1>1, <1>2

LEMMA OthersTyped == TypeInv /\ Others => TypeInv'
<1> SUFFICES ASSUME TypeInv, Others PROVE TypeInv' OBVIOUS
<1> USE DEF TypeInv
<1>1. ExternalOK'
  <2>1. ASSUME NEW r \in Rows, ProtonPut(r) PROVE ExternalOK'
    BY <2>1, ExternalTyped DEF ProtonPut
  <2>2. ASSUME NEW r \in Rows, ProtonDelete(r) PROVE ExternalOK'
    BY <2>2, ExternalTyped, CalAssumption DEF ProtonDelete
  <2>3. ASSUME NEW c \in Cals, ProtonOther(c) PROVE ExternalOK'
    BY <2>3, ExternalTyped DEF ProtonOther, ExternalOK
  <2> QED BY <2>1, <2>2, <2>3 DEF Others
<1>2. UNCHANGED internal BY DEF Others, ProtonPut, ProtonDelete, ProtonOther
<1> QED BY <1>1, <1>2 DEF internal, poller, fetch, StoresOK, GatesOK, WriteOK, PollerOK

LEMMA RequestsTyped == TypeInv /\ Requests => TypeInv'
<1> SUFFICES ASSUME TypeInv, NEW r \in Rows,
                    BeginCreate(r) \/ BeginUpdate(r) \/ BeginDelete(r)
             PROVE  TypeInv'
  BY DEF Requests
<1>1. UNCHANGED <<recording, local>> BY DEF BeginCreate, BeginUpdate, BeginDelete
<1>2. WriteOK'
  <2>1. PICK op \in {"create", "update", "rsvp", "delete"}, first \in {"recheck", "send"},
             g \in BOOLEAN : Begin(op, r, first, g)
    BY DEF BeginCreate, BeginUpdate, BeginDelete, Known
  <2>2. w' = [pc |-> first, op |-> op, row |-> r, group |-> g, value |-> NoEvent,
              gone |-> {}]
    BY <2>1 DEF Begin, IdleWrite
  <2> QED BY <2>2, EmptyTyped DEF WriteOK, WriteType, Ops
<1> QED BY <1>1, <1>2 DEF TypeInv, local, external, unpolled, poller, fetch, ExternalOK,
             StoresOK, GatesOK, PollerOK

\* The writer's steps up to the write-through leave the stores alone.
Sending ==
  \/ RecheckFound \/ RecheckPassed
  \/ SendFails \/ (\E r \in Rows : SendCreate(r)) \/ SendUpdate
  \/ SendDelete \/ SendDeleteNotFound
  \/ Reread \/ RereadFails \/ RsvpUnread

LEMMA SendingFrame ==
  Sending => UNCHANGED <<mem, disk, unpolled>>
BY DEF Sending, RecheckFound, RecheckPassed, SendFails, SendCreate, SendUpdate,
       SendDelete, SendDeleteNotFound, Reread, RereadFails, RsvpUnread, local

LEMMA IdleWriteOK == w' = IdleWrite => WriteOK'
BY EmptyTyped DEF IdleWrite, WriteOK, WriteType, Ops

LEMMA SendingTyped == TypeInv /\ Sending => TypeInv'
<1> SUFFICES ASSUME TypeInv, Sending PROVE TypeInv' OBVIOUS
<1> USE DEF TypeInv
<1>0. w \in WriteType /\ (w.pc # "idle" => w.row \in Rows) BY DEF WriteOK
<1>1. CASE RecheckFound
  <2>1. recording' \subseteq Rows
    BY <1>0, <1>1, SiblingsFacts DEF RecheckFound, Twins, GatesOK
  <2>2. WriteOK' BY <1>1, IdleWriteOK DEF RecheckFound
  <2> QED BY <1>1, <2>1, <2>2 DEF RecheckFound, local, external, unpolled, poller, fetch,
               ExternalOK, StoresOK, GatesOK, PollerOK
<1>2. CASE RecheckPassed
  <2>1. WriteOK' BY <1>2 DEF RecheckPassed, WriteOK, WriteType
  <2>2. faults' \in Nat BY <1>2 DEF RecheckPassed, Fault, NoFault, StoresOK
  <2> QED BY <1>2, <2>1, <2>2 DEF RecheckPassed, external, unpolled, poller, fetch,
               ExternalOK, StoresOK, GatesOK, PollerOK
<1>3. CASE SendFails
  <2>1. WriteOK' BY <1>3, IdleWriteOK DEF SendFails
  <2> QED BY <1>3, <2>1 DEF SendFails, local, external, unpolled, poller, fetch,
               ExternalOK, StoresOK, GatesOK, PollerOK
<1>4. ASSUME NEW r \in Rows, SendCreate(r) PROVE TypeInv'
  <2>1. PICK s \in 0..NSlices :
          /\ PutRow(r, s)
          /\ Answered([w EXCEPT !.pc = "reread", !.row = r, !.value = Synth(r, s)])
    BY <1>4 DEF SendCreate
  <2>2. ExternalOK' BY <2>1, ExternalTyped
  <2>3. Synth(r, s) \in Event BY SynthTyped
  <2>4. Siblings(r) = Siblings(w.row)
    BY <1>0, <1>4, SiblingsFacts DEF SendCreate, Twins
  <2>5. WriteOK'
    <3>1. CASE w' = IdleWrite BY <3>1, IdleWriteOK
    <3>2. CASE w' = [w EXCEPT !.pc = "reread", !.row = r, !.value = Synth(r, s)]
      BY <1>0, <2>3, <2>4, <3>2 DEF WriteOK, WriteType
    <3> QED BY <2>1, <3>1, <3>2 DEF Answered
  <2> QED BY <1>4, <2>2, <2>5 DEF SendCreate, unpolled, poller, fetch,
               StoresOK, GatesOK, PollerOK
<1>5. CASE SendUpdate
  <2>1. w.row \in Rows BY <1>0, <1>5 DEF SendUpdate
  <2>2. PICK s \in 0..NSlices :
          /\ PutRow(w.row, s)
          /\ Answered([w EXCEPT !.pc = "reread", !.value = Synth(w.row, s)])
    BY <1>5, <2>1 DEF SendUpdate, ExternalOK, Event
  <2>3. ExternalOK' BY <2>1, <2>2, ExternalTyped
  <2>4. Synth(w.row, s) \in Event BY <2>1, SynthTyped
  <2>5. WriteOK'
    <3>1. CASE w' = IdleWrite BY <3>1, IdleWriteOK
    <3>2. CASE w' = [w EXCEPT !.pc = "reread", !.value = Synth(w.row, s)]
      BY <1>0, <2>1, <2>4, <3>2 DEF WriteOK, WriteType
    <3> QED BY <2>2, <3>1, <3>2 DEF Answered
  <2> QED BY <1>5, <2>3, <2>5 DEF SendUpdate, unpolled, poller, fetch,
               StoresOK, GatesOK, PollerOK
<1>6. CASE SendDelete
  <2>1. w.row \in Rows BY <1>0, <1>6 DEF SendDelete
  <2>2. PICK targets \in SUBSET Siblings(w.row) :
          /\ DropRows(Cal[w.row], targets)
          /\ Answered([w EXCEPT !.pc = "store", !.gone = targets])
    BY <1>6, <2>1, SiblingsFacts DEF SendDelete
  <2>3. ExternalOK' BY <2>1, <2>2, ExternalTyped, CalAssumption
  <2>4. targets \subseteq Rows BY <2>1, SiblingsFacts
  <2>5. WriteOK'
    <3>1. CASE w' = IdleWrite BY <3>1, IdleWriteOK
    <3>2. CASE w' = [w EXCEPT !.pc = "store", !.gone = targets]
      BY <1>0, <2>1, <2>4, <3>2 DEF WriteOK, WriteType
    <3> QED BY <2>2, <3>1, <3>2 DEF Answered
  <2> QED BY <1>6, <2>3, <2>5 DEF SendDelete, unpolled, poller, fetch,
               StoresOK, GatesOK, PollerOK
<1>7. CASE SendDeleteNotFound
  <2>1. w.row \in Rows BY <1>0, <1>7 DEF SendDeleteNotFound
  <2>2. {w.row} \subseteq Siblings(w.row) BY <2>1, SiblingsFacts
  <2>3. w' = [w EXCEPT !.pc = "store", !.gone = {w.row}] BY <1>7 DEF SendDeleteNotFound
  <2>4. WriteOK' BY <1>0, <2>1, <2>2, <2>3 DEF WriteOK, WriteType
  <2> QED BY <1>7, <2>4 DEF SendDeleteNotFound, local, external, unpolled, poller, fetch,
               ExternalOK, StoresOK, GatesOK, PollerOK
<1>8. CASE Reread
  <2>1. proton[w.row] \in Event BY <1>0, <1>8 DEF Reread, ExternalOK
  <2>2. WriteOK' BY <1>0, <1>8, <2>1 DEF Reread, WriteOK, WriteType
  <2> QED BY <1>8, <2>2 DEF Reread, local, external, unpolled, poller, fetch,
               ExternalOK, StoresOK, GatesOK, PollerOK
<1>9. CASE RereadFails
  <2>1. WriteOK' BY <1>0, <1>9 DEF RereadFails, WriteOK, WriteType
  <2> QED BY <1>9, <2>1 DEF RereadFails, local, external, unpolled, poller, fetch,
               ExternalOK, StoresOK, GatesOK, PollerOK
<1>10. CASE RsvpUnread
  <2>1. WriteOK' BY <1>10, IdleWriteOK DEF RsvpUnread
  <2>2. w.row \in Rows /\ w.value.ver \in Nat
    BY <1>0, <1>10 DEF RsvpUnread, WriteType, Event
  <2>3. answered' \in [Rows -> Nat] /\ lapsed' \subseteq Rows
    BY <1>10, <2>2 DEF RsvpUnread, GatesOK
  <2> QED BY <1>10, <2>1, <2>3 DEF RsvpUnread, external, unpolled, poller, fetch,
               ExternalOK, StoresOK, GatesOK, PollerOK
<1> QED BY <1>1, <1>2, <1>3, <1>4, <1>5, <1>6, <1>7, <1>8, <1>9, <1>10 DEF Sending

LEMMA StoringTyped == TypeInv /\ (WriteThrough \/ WriteThroughDelete) => TypeInv'
<1> SUFFICES ASSUME TypeInv, WriteThrough \/ WriteThroughDelete PROVE TypeInv' OBVIOUS
<1> USE DEF TypeInv
<1>0. w.row \in Rows /\ w.value \in Event /\ mem \in HStoreType /\ TypeOK
  BY TypeInvGivesTypeOK DEF WriteOK, WriteType, WriteThrough, WriteThroughDelete, StoresOK
<1>1. WriteOK' BY IdleWriteOK DEF WriteThrough, WriteThroughDelete
<1>2. StoresOK'
  <2>1. CASE WriteThrough
    <3> DEFINE stored == UpsertEvent(mem, w.row, w.value)
    <3>1. stored \in HStoreType BY <1>0, WriteTyped
    <3>2. WithDrift(stored, {w.row}) \in HStoreType
      BY <3>1, HistoryTyped DEF ExternalOK
    <3>3. [mem.acked EXCEPT ![w.row] = w.value.ver] \in [Rows -> Nat]
      BY <1>0 DEF HStoreType, Event
    <3>4. [WithDrift(stored, {w.row}) EXCEPT
             !.acked = [mem.acked EXCEPT ![w.row] = w.value.ver]] \in HStoreType
      BY <3>2, <3>3 DEF HStoreType
    <3> QED BY <1>0, <2>1, <3>4, PersistTyped DEF WriteThrough, StoresOK
  <2>2. CASE WriteThroughDelete
    <3> DEFINE purged == IF w.group THEN DeleteEventsByUID(mem, w.row)
                                    ELSE DeleteEvent(mem, w.row)
               drifted == WithDrift(purged, Siblings(w.row))
               R == IF w.group THEN w.gone ELSE {w.row}
               V == IF w.group THEN Siblings(w.row) ELSE {}
    <3>1. purged \in HStoreType BY <1>0, WriteTyped, EmptyTyped
    <3>2. drifted \in HStoreType BY <3>1, HistoryTyped DEF ExternalOK
    <3>3. WithAck(drifted, R, V) \in HStoreType BY <3>2, HistoryTyped DEF ExternalOK
    <3>4. Persist(WithAck(drifted, R, V)) BY <2>2 DEF WriteThroughDelete
    <3> HIDE DEF purged, drifted, R, V
    <3> QED BY <1>0, <3>3, <3>4, PersistTyped DEF StoresOK
  <2> QED BY <2>1, <2>2
<1>3. recording' \subseteq Rows
  BY <1>0 DEF WriteThrough, WriteThroughDelete, GatesOK
<1>a. answered' \in [Rows -> Nat] /\ lapsed' \subseteq Rows
  BY <1>0, ClaimedTyped DEF WriteThrough, WriteThroughDelete, GatesOK, ExternalOK, Event
<1>4. UNCHANGED <<external, unpolled>> BY DEF WriteThrough, WriteThroughDelete
<1> QED BY <1>1, <1>2, <1>3, <1>a, <1>4 DEF external, unpolled, poller, fetch, ExternalOK,
             GatesOK, PollerOK

LEMMA AliasTyped ==
  ASSUME NEW st \in HStoreType, NEW n \in Names, NEW r \in Rows
  PROVE  SetAlias(st, n, r) \in HStoreType
BY DEF SetAlias, HStoreType

LEMMA RecordAliasTyped ==
  ASSUME TypeInv, NEW r \in Rows, RecordAlias(r)
  PROVE  TypeInv'
<1> USE DEF TypeInv
<1>0. TypeOK /\ mem \in HStoreType BY TypeInvGivesTypeOK DEF StoresOK
<1>1. StoresOK'
  BY <1>0, AliasTyped, PersistTyped, NoPersistTyped DEF RecordAlias, StoresOK
<1>2. recording' \subseteq Rows BY DEF RecordAlias, GatesOK
<1> QED BY <1>1, <1>2 DEF RecordAlias, external, unpolled, poller, fetch, ExternalOK,
             GatesOK, WriteOK, PollerOK

\* Every poller step leaves Proton, the writer and the aliases to come alone.
LEMMA PollerFrame ==
  Poller => UNCHANGED unwritten
BY DEF Poller, CycleAborts, CycleStarts, CycleStartsOnBlip, NextCalendar, FetchFails,
       DeltaPages, DeltaRefresh, DeltaGet, DeltaApply, Baseline, ListSlice,
       SnapshotRefused, SnapshotReplace, SnapshotSetCursor, CycleEnds

LEMMA CalendarDoneOK == PollerOK /\ CalendarDone /\ failed' \in BOOLEAN => PollerOK'
BY EmptyTyped DEF PollerOK, CalendarDone

LEMMA PollerStoresTyped == TypeInv /\ Poller => StoresOK'
<1> SUFFICES ASSUME TypeInv, Poller PROVE StoresOK' OBVIOUS
<1> USE DEF TypeInv
<1>0. TypeOK /\ mem \in HStoreType /\ disk \in HStoreType /\ faults \in Nat
  BY TypeInvGivesTypeOK DEF StoresOK
<1>a. cal \in Cals /\ base \in Nat \cup {NoCursor} /\ got \in [Rows -> Event]
  BY DEF PollerOK
<1>b. touched \in [Rows -> Nat] BY DEF ExternalOK
<1>1. CASE \E st \in HStoreType : Persist(st)
  BY <1>0, <1>1, PersistTyped DEF StoresOK
<1>2. CASE NoPersist BY <1>0, <1>2, NoPersistTyped DEF StoresOK
<1>3. CASE Fault /\ UNCHANGED <<mem, disk>>
  BY <1>0, <1>3 DEF StoresOK, Fault
<1>4. CASE CycleAborts BY <1>3, <1>4 DEF CycleAborts
<1>5. CASE CycleStarts
  <2>1. ReplaceCalendars(mem, Cals) \in HStoreType
    BY <1>0 DEF ReplaceCalendars, HStoreType
  <2> QED BY <1>1, <1>2, <1>5, <2>1 DEF CycleStarts
<1>6. ASSUME NEW cs \in SUBSET Cals, CycleStartsOnBlip(cs) PROVE StoresOK'
  <2>1. ReplaceCalendars(mem, cs) \in HStoreType
    BY <1>0 DEF ReplaceCalendars, HStoreType
  <2> QED BY <1>0, <1>6, <2>1 DEF CycleStartsOnBlip, StoresOK, Fault
<1>7. ASSUME NEW c \in Cals, NextCalendar(c) PROVE StoresOK'
  BY <1>2, <1>7 DEF NextCalendar
<1>8. CASE FetchFails BY <1>2, <1>3, <1>8 DEF FetchFails, NoPersist, NoFault
<1>9. CASE DeltaPages BY <1>2, <1>9 DEF DeltaPages
<1>10. CASE DeltaRefresh BY <1>3, <1>10 DEF DeltaRefresh
<1>11. ASSUME NEW r \in Rows, DeltaGet(r) PROVE StoresOK'
  BY <1>2, <1>11 DEF DeltaGet
<1>12. CASE DeltaApply
  <2>1. ApplyCalendarDelta(mem, cal, changed, got, base) \in HStoreType
    BY <1>0, <1>a, ApplyTyped
  <2>2. WithoutDrift(ApplyCalendarDelta(mem, cal, changed, got, base), changed)
          \in HStoreType
    BY <1>b, <2>1, HistoryTyped
  <2> QED BY <1>1, <1>2, <1>12, <2>2 DEF DeltaApply
<1>13. CASE Baseline
  BY <1>0, <1>13 DEF Baseline, StoresOK, Fault, NoFault
<1>14. ASSUME NEW s \in 1..NSlices, ListSlice(s) PROVE StoresOK'
  BY <1>2, <1>14 DEF ListSlice
<1>15. CASE SnapshotRefused BY <1>2, <1>15 DEF SnapshotRefused
<1>16. CASE SnapshotReplace
  <2>1. ReplaceCalendarEvents(mem, cal, got) \in HStoreType
    BY <1>0, <1>a, ApplyTyped
  <2>2. WithoutDrift(ReplaceCalendarEvents(mem, cal, got), RowsOf(cal)) \in HStoreType
    BY <1>b, <2>1, HistoryTyped
  <2> QED BY <1>1, <1>16, <2>2 DEF SnapshotReplace
<1>17. CASE SnapshotSetCursor
  <2>1. SetCursor(mem, cal, base) \in HStoreType BY <1>0, <1>a, CursorTyped
  <2> QED BY <1>1, <1>2, <1>17, <2>1 DEF SnapshotSetCursor
<1>18. CASE CycleEnds
  <2>1. MarkSynced(mem) \in HStoreType BY <1>0 DEF MarkSynced, HStoreType
  <2> QED BY <1>1, <1>2, <1>18, <2>1 DEF CycleEnds
<1> QED BY <1>4, <1>5, <1>6, <1>7, <1>8, <1>9, <1>10, <1>11, <1>12, <1>13, <1>14, <1>15,
           <1>16, <1>17, <1>18 DEF Poller

LEMMA PollerPollerTyped == TypeInv /\ Poller => PollerOK'
<1> SUFFICES ASSUME TypeInv, Poller PROVE PollerOK' OBVIOUS
<1> USE DEF TypeInv
<1>0. PollerOK OBVIOUS
<1>1. mem.gen \in [Cals -> Nat] /\ clock \in [Cals -> Nat] /\ proton \in [Rows -> Event]
  BY DEF StoresOK, HStoreType, ExternalOK
<1>2. CASE CycleAborts BY <1>0, <1>2 DEF CycleAborts, EndCycle, fetch, PollerOK
<1>3. CASE CycleStarts BY <1>0, <1>3 DEF CycleStarts, fetch, PollerOK
<1>4. ASSUME NEW cs \in SUBSET Cals, CycleStartsOnBlip(cs) PROVE PollerOK'
  BY <1>0, <1>4 DEF CycleStartsOnBlip, fetch, PollerOK
<1>5. ASSUME NEW c \in Cals, NextCalendar(c) PROVE PollerOK'
  BY <1>0, <1>1, <1>5, EmptyTyped DEF NextCalendar, PollerOK
<1>6. CASE FetchFails BY <1>0, <1>6, CalendarDoneOK DEF FetchFails
<1>7. CASE DeltaPages BY <1>0, <1>1, <1>7 DEF DeltaPages, PollerOK, RowsOf
<1>8. CASE DeltaRefresh BY <1>0, <1>8 DEF DeltaRefresh, fetch, PollerOK
<1>9. ASSUME NEW r \in Rows, DeltaGet(r) PROVE PollerOK'
  BY <1>0, <1>1, <1>9 DEF DeltaGet, PollerOK
<1>10. CASE DeltaApply BY <1>0, <1>10, CalendarDoneOK DEF DeltaApply, PollerOK
<1>11. CASE Baseline BY <1>0, <1>1, <1>11 DEF Baseline, PollerOK
<1>12. ASSUME NEW s \in 1..NSlices, ListSlice(s) PROVE PollerOK'
  <2>1. got' \in [Rows -> Event] BY <1>0, <1>1, <1>12 DEF ListSlice, PollerOK
  <2> QED BY <1>0, <1>12, <2>1 DEF ListSlice, PollerOK
<1>13. CASE SnapshotRefused BY <1>0, <1>13, CalendarDoneOK DEF SnapshotRefused, PollerOK
<1>14. CASE SnapshotReplace BY <1>0, <1>14 DEF SnapshotReplace, fetch, PollerOK
<1>15. CASE SnapshotSetCursor BY <1>0, <1>15, CalendarDoneOK DEF SnapshotSetCursor, PollerOK
<1>16. CASE CycleEnds BY <1>0, <1>16 DEF CycleEnds, EndCycle, fetch, PollerOK
<1> QED BY <1>2, <1>3, <1>4, <1>5, <1>6, <1>7, <1>8, <1>9, <1>10, <1>11, <1>12, <1>13,
           <1>14, <1>15, <1>16 DEF Poller

LEMMA PollerTyped == TypeInv /\ Poller => TypeInv'
<1> SUFFICES ASSUME TypeInv, Poller PROVE TypeInv' OBVIOUS
<1>1. ready' \in BOOLEAN /\ fresh' \subseteq Cals
  BY DEF TypeInv, GatesOK, PollerOK, Poller, CycleAborts, CycleStarts, CycleStartsOnBlip,
     NextCalendar, FetchFails, DeltaPages, DeltaRefresh, DeltaGet, DeltaApply, Baseline,
     ListSlice, SnapshotRefused, SnapshotReplace, SnapshotSetCursor, CycleEnds, EndCycle
<1> QED BY <1>1, PollerFrame, PollerStoresTyped, PollerPollerTyped
        DEF TypeInv, unwritten, external, ExternalOK, GatesOK, WriteOK

LEMMA RestartTyped == TypeInv /\ Restart => TypeInv'
<1> SUFFICES ASSUME TypeInv, NEW st \in {disk, NewStore}, Booted(st), Fault,
                    UNCHANGED <<external, answered>>,
                    lapsed' \subseteq Rows
             PROVE  TypeInv'
  BY DEF Restart, TypeInv, GatesOK
<1>1. st \in HStoreType BY EmptyTyped DEF TypeInv, StoresOK
<1>2. StoresOK' BY <1>1 DEF TypeInv, StoresOK, Booted, Fault
<1>3. GatesOK' BY <1>1 DEF TypeInv, GatesOK, Booted, HStoreType
<1>4. WriteOK' BY IdleWriteOK DEF Booted
<1>5. PollerOK' BY EmptyTyped DEF TypeInv, PollerOK, Booted
<1>6. ExternalOK' BY DEF TypeInv, ExternalOK, external
<1> QED BY <1>2, <1>3, <1>4, <1>5, <1>6 DEF TypeInv

LEMMA DeadlineTyped ==
  ASSUME TypeInv, NEW c \in Cals, FullDeadline(c)
  PROVE  TypeInv'
<1>1. StoresOK' BY NoPersistTyped, TypeInvGivesTypeOK DEF FullDeadline, StoresOK
<1>2. fresh' \subseteq Cals BY DEF FullDeadline, TypeInv, GatesOK
<1> QED BY <1>1, <1>2 DEF FullDeadline, TypeInv, unwritten, external, poller, fetch,
             ExternalOK, GatesOK, WriteOK, PollerOK

LEMMA NextTyped == TypeInv /\ [Next]_vars => TypeInv'
<1> SUFFICES ASSUME TypeInv, [Next]_vars PROVE TypeInv' OBVIOUS
<1>1. CASE Others BY <1>1, OthersTyped
<1>2. CASE Requests BY <1>2, RequestsTyped
<1>3. CASE Writer BY <1>3, SendingTyped, StoringTyped DEF Writer, Sending
<1>4. ASSUME NEW r \in Rows, RecordAlias(r) PROVE TypeInv' BY <1>4, RecordAliasTyped
<1>5. CASE Poller BY <1>5, PollerTyped
<1>6. ASSUME NEW c \in Cals, FullDeadline(c) PROVE TypeInv' BY <1>6, DeadlineTyped
<1>7. CASE Restart BY <1>7, RestartTyped
<1>8. CASE UNCHANGED vars
  BY <1>8 DEF vars, external, poller, fetch, TypeInv, ExternalOK, StoresOK, GatesOK,
              WriteOK, PollerOK
<1> QED BY <1>1, <1>2, <1>3, <1>4, <1>5, <1>6, <1>7, <1>8 DEF Next

LEMMA TypeInvariant == Spec => []TypeInv
BY InitTyped, NextTyped, PTL DEF Spec

\* The store, the write in progress and what the poller holds are well formed
\* in every reachable state, whatever calendars, rows, names and bounds.
THEOREM TypeCorrect == Spec => []TypeOK
<1>1. TypeInv => TypeOK BY TypeInvGivesTypeOK
<1> QED BY <1>1, TypeInvariant, PTL

-----------------------------------------------------------------------------
(* The inductive invariant.                                                 *)

\* A live row is what the last entry about it wrote; no entry is ahead of the log.
LogOK ==
  \A r \in Rows : /\ touched[r] <= clock[Cal[r]]
                  /\ Live(r) => proton[r].ver = touched[r]

\* The store st against the log t: it serves no row from the future and none
\* older than the acknowledged version.
AckedOK(st, t) ==
  \A r \in Rows :
    /\ st.acked[r] <= t[r]
    /\ Known(st, r) => st.events[r].ver >= st.acked[r] /\ st.events[r].ver <= t[r]

WriterAcked ==
  w.op # "delete" /\ w.pc \in {"reread", "store"} => w.value.ver <= touched[w.row]

\* While the generation holds, what was fetched may replace what is served.
FetchAcked ==
  /\ gen <= mem.gen[cal]
  /\ \A r \in RowsOf(cal) : got[r].ver <= touched[r]
  /\ gen = mem.gen[cal] /\ pc \notin {"idle", "next", "setcursor"} =>
       \A r \in RowsOf(cal) : got[r].ver # 0 => got[r].ver >= mem.acked[r]

AckInv ==
  /\ TypeInv
  /\ LogOK
  /\ AckedOK(mem, touched) /\ AckedOK(disk, touched)
  /\ WriterAcked
  /\ FetchAcked

-----------------------------------------------------------------------------
(* The log.                                                                 *)

\* Positions of the log only grow.
Grows == \A r \in Rows : touched'[r] >= touched[r]

LEMMA PutGrows ==
  ASSUME TypeInv, LogOK, NEW r \in Rows, NEW s \in 0..NSlices, PutRow(r, s)
  PROVE  LogOK' /\ Grows /\ touched'[r] = clock[Cal[r]] + 1
<1> USE DEF TypeInv, ExternalOK
<1>1. Cal \in [Rows -> Cals] BY CalAssumption
<1>2. Written(r, s).ver = clock[Cal[r]] + 1 BY DEF Written
<1>3. /\ clock' = [clock EXCEPT ![Cal[r]] = clock[Cal[r]] + 1]
      /\ touched' = [q \in Rows |-> IF q = r THEN clock[Cal[r]] + 1 ELSE touched[q]]
      /\ proton' = [proton EXCEPT ![r] = Written(r, s)]
  BY DEF PutRow, Logged
<1>4. LogOK'
  BY <1>1, <1>2, <1>3 DEF LogOK, Live, Event
<1> QED BY <1>1, <1>3, <1>4 DEF LogOK, Grows

LEMMA DropGrows ==
  ASSUME TypeInv, LogOK, NEW c \in Cals, NEW R \in SUBSET RowsOf(c), DropRows(c, R)
  PROVE  LogOK' /\ Grows
<1> USE DEF TypeInv, ExternalOK
<1>1. Cal \in [Rows -> Cals] BY CalAssumption
<1>2. /\ clock' = [clock EXCEPT ![c] = clock[c] + 1]
      /\ touched' = [q \in Rows |-> IF q \in R THEN clock[c] + 1 ELSE touched[q]]
      /\ proton' = [q \in Rows |-> IF q \in R THEN NoEvent ELSE proton[q]]
  BY DEF DropRows, Logged
<1>3. NoEvent.ver = 0 BY DEF NoEvent
<1>4. \A q \in R : Cal[q] = c BY DEF RowsOf
<1> QED BY <1>1, <1>2, <1>3, <1>4 DEF LogOK, Grows, Live, Event

LEMMA OtherGrows ==
  ASSUME TypeInv, LogOK, NEW c \in Cals, ProtonOther(c)
  PROVE  LogOK' /\ Grows
<1> USE DEF TypeInv, ExternalOK
<1>1. Cal \in [Rows -> Cals] BY CalAssumption
<1>2. /\ clock' = [clock EXCEPT ![c] = clock[c] + 1]
      /\ touched' = touched
      /\ proton' = proton
  BY DEF ProtonOther, Logged
<1> QED BY <1>1, <1>2 DEF LogOK, Grows, Live

LEMMA SameLog ==
  TypeInv /\ LogOK /\ UNCHANGED external => LogOK' /\ Grows
BY DEF external, LogOK, Grows, Live, TypeInv, ExternalOK

\* A longer log takes nothing away from what the stores and the poller hold.
LEMMA GrowsKeepsStores ==
  ASSUME TypeInv, TypeInv', Grows, NEW st \in HStoreType, AckedOK(st, touched)
  PROVE  AckedOK(st, touched')
BY DEF TypeInv, ExternalOK, Grows, AckedOK, HStoreType, Event

LEMMA GrowsKeepsFetch ==
  ASSUME TypeInv, TypeInv', Grows, FetchAcked, UNCHANGED <<mem, poller>>
  PROVE  FetchAcked'
BY DEF TypeInv, ExternalOK, PollerOK, Grows, FetchAcked, poller, fetch, RowsOf, Event

-----------------------------------------------------------------------------
(* The store's mutators, seen through events, acked and gen.                *)

\* Two stores that agree on what is served and acknowledged.
SameServed(a, b) == a.events = b.events /\ a.acked = b.acked

LEMMA SameServedOK ==
  ASSUME NEW a, NEW b, NEW t, SameServed(a, b), AckedOK(b, t)
  PROVE  AckedOK(a, t)
BY DEF SameServed, AckedOK, Known

LEMMA UpsertFacts ==
  ASSUME NEW st \in HStoreType, NEW r \in Rows, NEW ev \in Event
  PROVE  LET u == UpsertEvent(st, r, ev)
         IN  /\ \A q \in Rows : u.events[q] = IF q = r THEN ev ELSE st.events[q]
             /\ \A o \in Cals : u.gen[o] = IF o = Cal[r] THEN st.gen[o] + 1 ELSE st.gen[o]
             /\ u.acked = st.acked /\ u.cursor = st.cursor /\ u.drift = st.drift
<1> DEFINE e == [st EXCEPT !.events = [st.events EXCEPT ![r] = ev]]
<1>1. /\ e.events = [st.events EXCEPT ![r] = ev] /\ e.gen = st.gen
      /\ e.acked = st.acked /\ e.cursor = st.cursor /\ e.drift = st.drift
  BY DEF HStoreType
<1>2. e \in HStoreType BY DEF HStoreType
<1>3. UpsertEvent(st, r, ev) = Bump(e, Cal[r]) BY DEF UpsertEvent
<1> HIDE DEF e
<1> QED BY <1>1, <1>2, <1>3 DEF Bump, HStoreType

LEMMA ForgetFacts ==
  ASSUME NEW st \in HStoreType, NEW gone, NEW c \in Cals
  PROVE  LET u == Bump(Forget(st, gone), c)
         IN  /\ \A q \in Rows : u.events[q] = IF q \in gone THEN NoEvent ELSE st.events[q]
             /\ \A o \in Cals : u.gen[o] = IF o = c THEN st.gen[o] + 1 ELSE st.gen[o]
             /\ u.acked = st.acked /\ u.cursor = st.cursor /\ u.drift = st.drift
<1> DEFINE f == Forget(st, gone)
<1>1. DropAliasesTo(st, gone) \in HStoreType BY ForgetTyped
<1>2. LET d == DropAliasesTo(st, gone)
      IN  d.gen = st.gen /\ d.acked = st.acked /\ d.cursor = st.cursor /\ d.drift = st.drift
  BY DEF DropAliasesTo, HStoreType
<1>3. /\ f.events = [r \in Rows |-> IF r \in gone THEN NoEvent ELSE st.events[r]]
      /\ f.gen = st.gen /\ f.acked = st.acked /\ f.cursor = st.cursor /\ f.drift = st.drift
  BY <1>1, <1>2 DEF Forget, HStoreType
<1>4. f \in HStoreType BY ForgetTyped
<1>5. Forget(st, gone) = f OBVIOUS
<1> HIDE DEF f
<1> QED BY <1>3, <1>4, <1>5 DEF Bump, HStoreType

LEMMA DriftFacts ==
  ASSUME NEW st \in HStoreType, NEW R
  PROVE  /\ SameServed(WithDrift(st, R), st) /\ WithDrift(st, R).gen = st.gen
         /\ WithDrift(st, R).cursor = st.cursor
         /\ SameServed(WithoutDrift(st, R), st) /\ WithoutDrift(st, R).gen = st.gen
         /\ WithoutDrift(st, R).cursor = st.cursor
         /\ WithoutDrift(st, R).drift = st.drift \ R
BY DEF SameServed, WithDrift, WithoutDrift, HStoreType

LEMMA AckFacts ==
  ASSUME NEW st \in HStoreType, NEW R, NEW V
  PROVE  LET u == WithAck(st, R, V)
         IN  /\ u.events = st.events
             /\ u.gen = st.gen /\ u.cursor = st.cursor /\ u.drift = st.drift
             /\ u.acked = [r \in Rows |-> IF r \in R THEN touched[r]
                                          ELSE IF r \in V THEN 0 ELSE st.acked[r]]
BY DEF WithAck, Claimed, HStoreType

LEMMA CursorFacts ==
  ASSUME NEW st \in HStoreType, NEW c, NEW k
  PROVE  SameServed(SetCursor(st, c, k), st) /\ SetCursor(st, c, k).gen = st.gen
BY DEF SameServed, SetCursor, HStoreType

LEMMA CursorMoves ==
  ASSUME NEW st \in HStoreType, NEW c, NEW k
  PROVE  /\ \A o \in Cals :
              SetCursor(st, c, k).cursor[o] = IF o = c THEN k ELSE st.cursor[o]
         /\ SetCursor(st, c, k).drift = st.drift
BY DEF SetCursor, HStoreType

LEMMA EventsSetFacts ==
  ASSUME NEW st \in HStoreType, NEW gone, NEW ff \in [Rows -> Event]
  PROVE  LET u == [DropAliasesTo(st, gone) EXCEPT !.events = ff]
         IN  /\ u \in HStoreType /\ u.events = ff /\ u.gen = st.gen /\ u.acked = st.acked
             /\ u.cursor = st.cursor /\ u.drift = st.drift
<1>1. DropAliasesTo(st, gone) \in HStoreType BY ForgetTyped
<1>2. LET d == DropAliasesTo(st, gone)
      IN  d.gen = st.gen /\ d.acked = st.acked /\ d.cursor = st.cursor /\ d.drift = st.drift
  BY DEF DropAliasesTo, HStoreType
<1> QED BY <1>1, <1>2 DEF HStoreType

LEMMA ReplaceFacts ==
  ASSUME NEW st \in HStoreType, NEW c \in Cals, NEW f \in [Rows -> Event]
  PROVE  LET u == ReplaceCalendarEvents(st, c, f)
         IN  /\ u.events = [r \in Rows |-> IF r \in RowsOf(c) THEN f[r] ELSE st.events[r]]
             /\ u.gen = st.gen /\ u.acked = st.acked
             /\ u.cursor = st.cursor /\ u.drift = st.drift
<1> DEFINE d == [DropAliasesTo(st, {r \in RowsOf(c) : f[r].ver = 0}) EXCEPT !.events =
                   [r \in Rows |-> IF r \in RowsOf(c) THEN f[r] ELSE st.events[r]]]
<1>1. ReplaceCalendarEvents(st, c, f) = d BY DEF ReplaceCalendarEvents
<1>2. [r \in Rows |-> IF r \in RowsOf(c) THEN f[r] ELSE st.events[r]] \in [Rows -> Event]
  BY DEF HStoreType
<1>3. /\ d \in HStoreType
      /\ d.events = [r \in Rows |-> IF r \in RowsOf(c) THEN f[r] ELSE st.events[r]]
      /\ d.gen = st.gen /\ d.acked = st.acked /\ d.cursor = st.cursor /\ d.drift = st.drift
  BY <1>2, EventsSetFacts
<1> HIDE DEF d
<1> QED BY <1>1, <1>3

LEMMA DeltaFacts ==
  ASSUME NEW st \in HStoreType, NEW c \in Cals, NEW k, NEW R, NEW f \in [Rows -> Event]
  PROVE  LET u == ApplyCalendarDelta(st, c, R, f, k)
         IN  /\ u.events = [r \in Rows |-> IF r \in R THEN f[r] ELSE st.events[r]]
             /\ u.gen = st.gen /\ u.acked = st.acked
             /\ \A o \in Cals : u.cursor[o] = IF o = c THEN k ELSE st.cursor[o]
             /\ u.drift = st.drift
<1> DEFINE d == [DropAliasesTo(st, {r \in R : f[r].ver = 0}) EXCEPT !.events =
                   [r \in Rows |-> IF r \in R THEN f[r] ELSE st.events[r]]]
<1>1. ApplyCalendarDelta(st, c, R, f, k) = SetCursor(d, c, k) BY DEF ApplyCalendarDelta
<1>2. [r \in Rows |-> IF r \in R THEN f[r] ELSE st.events[r]] \in [Rows -> Event]
  BY DEF HStoreType
<1>3. /\ d \in HStoreType
      /\ d.events = [r \in Rows |-> IF r \in R THEN f[r] ELSE st.events[r]]
      /\ d.gen = st.gen /\ d.acked = st.acked /\ d.cursor = st.cursor /\ d.drift = st.drift
  BY <1>2, EventsSetFacts
<1> HIDE DEF d
<1>4. SameServed(SetCursor(d, c, k), d) /\ SetCursor(d, c, k).gen = d.gen
  BY <1>3, CursorFacts
<1>5. /\ \A o \in Cals :
           SetCursor(d, c, k).cursor[o] = IF o = c THEN k ELSE d.cursor[o]
      /\ SetCursor(d, c, k).drift = d.drift
  BY <1>3, CursorMoves
<1> QED BY <1>1, <1>3, <1>4, <1>5 DEF SameServed

LEMMA PersistOK ==
  ASSUME NEW t, NEW st, Persist(st), AckedOK(st, t), AckedOK(disk, t)
  PROVE  AckedOK(mem', t) /\ AckedOK(disk', t)
BY DEF Persist

-----------------------------------------------------------------------------
(* Every step preserves the invariant.                                      *)

AckParts ==
  LogOK /\ AckedOK(mem, touched) /\ AckedOK(disk, touched) /\ WriterAcked /\ FetchAcked

LEMMA QuietStores ==
  ASSUME TypeInv, TypeInv', AckParts, Grows, UNCHANGED <<mem, disk>>
  PROVE  AckedOK(mem', touched') /\ AckedOK(disk', touched')
<1>1. mem \in HStoreType /\ disk \in HStoreType BY DEF TypeInv, StoresOK
<1>2. AckedOK(mem, touched') /\ AckedOK(disk, touched')
  BY <1>1, GrowsKeepsStores DEF AckParts
<1> QED BY <1>2

LEMMA QuietWriter ==
  ASSUME TypeInv, TypeInv', AckParts, Grows, UNCHANGED w
  PROVE  WriterAcked'
BY DEF TypeInv, WriteOK, WriteType, ExternalOK, Event, AckParts, WriterAcked, Grows

LEMMA OthersAcked ==
  ASSUME TypeInv, TypeInv', AckParts, Others
  PROVE  AckParts'
<1>1. LogOK' /\ Grows
  <2>1. ASSUME NEW r \in Rows, ProtonPut(r) PROVE LogOK' /\ Grows
    BY <2>1, PutGrows DEF ProtonPut, AckParts
  <2>2. ASSUME NEW r \in Rows, ProtonDelete(r) PROVE LogOK' /\ Grows
    <3>1. Cal[r] \in Cals /\ {r} \in SUBSET RowsOf(Cal[r])
      BY CalAssumption DEF RowsOf
    <3> QED BY <2>2, <3>1, DropGrows DEF ProtonDelete, AckParts
  <2>3. ASSUME NEW c \in Cals, ProtonOther(c) PROVE LogOK' /\ Grows
    BY <2>3, OtherGrows DEF AckParts
  <2> QED BY <2>1, <2>2, <2>3 DEF Others
<1>2. UNCHANGED internal BY DEF Others, ProtonPut, ProtonDelete, ProtonOther
<1>3. UNCHANGED <<mem, disk, w, poller>> BY <1>2 DEF internal
<1> QED BY <1>1, <1>3, QuietStores, QuietWriter, GrowsKeepsFetch DEF AckParts

\* A writer step that leaves the stores alone has only to answer for w.
LEMMA WriterStep ==
  ASSUME TypeInv, TypeInv', AckParts, LogOK', Grows, UNCHANGED <<mem, disk, poller>>,
         WriterAcked'
  PROVE  AckParts'
BY QuietStores, GrowsKeepsFetch DEF AckParts

LEMMA IdleAcked == w' = IdleWrite => WriterAcked'
BY DEF IdleWrite, WriterAcked

LEMMA RequestsAcked ==
  ASSUME TypeInv, TypeInv', AckParts, Requests
  PROVE  AckParts'
<1>1. UNCHANGED local BY DEF Requests, BeginCreate, BeginUpdate, BeginDelete
<1>2. w'.pc \in {"recheck", "send"}
  BY DEF Requests, BeginCreate, BeginUpdate, BeginDelete, Begin, IdleWrite
<1>3. LogOK' /\ Grows BY <1>1, SameLog DEF local, AckParts
<1> QED BY <1>1, <1>2, <1>3, WriterStep DEF local, unpolled, WriterAcked

LEMMA SendingAcked ==
  ASSUME TypeInv, TypeInv', AckParts, Sending
  PROVE  AckParts'
<1>0. UNCHANGED <<mem, disk, poller>> BY SendingFrame DEF unpolled
<1>w. w \in WriteType /\ (w.pc # "idle" => w.row \in Rows) /\ LogOK
  BY DEF TypeInv, WriteOK, AckParts
<1>1. CASE UNCHANGED external /\ w'.pc \in {"idle", "recheck", "send"}
  BY <1>0, <1>1, SameLog, WriterStep DEF AckParts, WriterAcked
<1>2. CASE RecheckFound
  BY <1>1, <1>2 DEF RecheckFound, local, IdleWrite
<1>3. CASE RecheckPassed
  BY <1>1, <1>3, <1>w DEF RecheckPassed, WriteType
<1>4. CASE SendFails
  BY <1>1, <1>4 DEF SendFails, local, IdleWrite
<1>5. ASSUME NEW r \in Rows, SendCreate(r) PROVE AckParts'
  <2>1. PICK s \in 0..NSlices :
          /\ PutRow(r, s)
          /\ Answered([w EXCEPT !.pc = "reread", !.row = r, !.value = Synth(r, s)])
    BY <1>5 DEF SendCreate
  <2>2. LogOK' /\ Grows /\ touched'[r] = clock[Cal[r]] + 1 BY <1>w, <2>1, PutGrows
  <2>3. Synth(r, s).ver = clock[Cal[r]] + 1 /\ Synth(r, s) \in Event
    BY SynthTyped DEF TypeInv
  <2>4. WriterAcked'
    <3>1. CASE w' = [w EXCEPT !.pc = "reread", !.row = r, !.value = Synth(r, s)]
      <4>1. w'.row = r /\ w'.value = Synth(r, s) BY <1>w, <3>1 DEF WriteType
      <4> QED BY <2>2, <2>3, <4>1 DEF WriterAcked, Event
    <3> QED BY <2>1, <3>1, IdleAcked DEF Answered
  <2> QED BY <1>0, <2>2, <2>4, WriterStep
<1>6. CASE SendUpdate
  <2>1. w.row \in Rows BY <1>w, <1>6 DEF SendUpdate
  <2>2. PICK s \in 0..NSlices :
          /\ PutRow(w.row, s)
          /\ Answered([w EXCEPT !.pc = "reread", !.value = Synth(w.row, s)])
    BY <1>6, <2>1 DEF SendUpdate, TypeInv, ExternalOK, Event
  <2>3. LogOK' /\ Grows /\ touched'[w.row] = clock[Cal[w.row]] + 1
    BY <1>w, <2>1, <2>2, PutGrows
  <2>4. Synth(w.row, s).ver = clock[Cal[w.row]] + 1 /\ Synth(w.row, s) \in Event
    BY <2>1, SynthTyped DEF TypeInv
  <2>5. WriterAcked'
    <3>1. CASE w' = [w EXCEPT !.pc = "reread", !.value = Synth(w.row, s)]
      <4>1. w'.row = w.row /\ w'.value = Synth(w.row, s) BY <1>w, <3>1 DEF WriteType
      <4> QED BY <2>3, <2>4, <4>1 DEF WriterAcked, Event
    <3> QED BY <2>2, <3>1, IdleAcked DEF Answered
  <2> QED BY <1>0, <2>3, <2>5, WriterStep
<1>7. CASE SendDelete
  <2>1. w.row \in Rows BY <1>w, <1>7 DEF SendDelete
  <2>2. PICK targets \in SUBSET Siblings(w.row) :
          /\ DropRows(Cal[w.row], targets)
          /\ Answered([w EXCEPT !.pc = "store", !.gone = targets])
    BY <1>7, <2>1, SiblingsFacts DEF SendDelete
  <2>3. targets \in SUBSET RowsOf(Cal[w.row]) /\ Cal[w.row] \in Cals
    BY <2>1, CalAssumption DEF Siblings
  <2>4. LogOK' /\ Grows BY <1>w, <2>2, <2>3, DropGrows
  <2>5. WriterAcked'
    <3>1. CASE w' = [w EXCEPT !.pc = "store", !.gone = targets]
      <4>1. w'.op = "delete" BY <1>w, <1>7, <3>1 DEF SendDelete, WriteType
      <4> QED BY <4>1 DEF WriterAcked
    <3> QED BY <2>2, <3>1, IdleAcked DEF Answered
  <2> QED BY <1>0, <2>4, <2>5, WriterStep
<1>8. CASE SendDeleteNotFound
  <2>1. w'.op = "delete" BY <1>w, <1>8 DEF SendDeleteNotFound, WriteType
  <2>2. LogOK' /\ Grows BY <1>8, <1>w, SameLog DEF SendDeleteNotFound, local
  <2> QED BY <1>0, <2>1, <2>2, WriterStep DEF WriterAcked
<1>9. CASE Reread
  <2>1. w.row \in Rows BY <1>w, <1>9 DEF Reread
  <2>2. w' = [w EXCEPT !.pc = "store", !.value = proton[w.row]] /\ UNCHANGED external
    BY <1>9 DEF Reread, local
  <2>3. w'.row = w.row /\ w'.value = proton[w.row] BY <1>w, <2>2 DEF WriteType
  <2>4. proton[w.row].ver = touched[w.row] /\ touched[w.row] \in Nat /\ touched' = touched
    BY <1>9, <1>w, <2>1, <2>2 DEF Reread, LogOK, TypeInv, ExternalOK, external
  <2>5. WriterAcked' BY <2>3, <2>4 DEF WriterAcked
  <2> QED BY <1>0, <1>w, <2>2, <2>5, SameLog, WriterStep
<1>10. CASE RereadFails
  <2>1. UNCHANGED external BY <1>10 DEF RereadFails, local
  <2>2. WriterAcked'
    <3>1. w'.row = w.row /\ w'.value = w.value /\ w'.op = w.op
      BY <1>w, <1>10 DEF RereadFails, WriteType
    <3> QED BY <1>10, <2>1, <3>1 DEF RereadFails, WriterAcked, AckParts, external
  <2> QED BY <1>0, <1>w, <2>1, <2>2, SameLog, WriterStep
<1>11. CASE RsvpUnread
  BY <1>1, <1>11 DEF RsvpUnread, IdleWrite
<1> QED BY <1>2, <1>3, <1>4, <1>5, <1>6, <1>7, <1>8, <1>9, <1>10, <1>11 DEF Sending

\* A write-through counts: rows of the calendar whose generation the poller
\* still holds were not touched by it.
LEMMA WriteThroughFetch ==
  ASSUME TypeInv, FetchAcked, NEW r \in Rows, NEW st \in HStoreType, mem' = st,
         \A o \in Cals : st.gen[o] = IF o = Cal[r] THEN mem.gen[o] + 1 ELSE mem.gen[o],
         \A q \in Rows : Cal[q] # Cal[r] => st.acked[q] = mem.acked[q],
         UNCHANGED <<poller, touched>>
  PROVE  FetchAcked'
<1>1. cal \in Cals /\ gen \in Nat /\ Cal[r] \in Cals /\ mem.gen \in [Cals -> Nat]
  BY CalAssumption DEF TypeInv, PollerOK, StoresOK, HStoreType
<1>2. UNCHANGED <<cal, gen, got, pc>> BY DEF poller, fetch
<1>3. gen <= mem'.gen[cal] BY <1>1 DEF FetchAcked
<1>4. gen = mem'.gen[cal] => cal # Cal[r] /\ gen = mem.gen[cal]
  BY <1>1 DEF FetchAcked
<1> QED BY <1>2, <1>3, <1>4 DEF FetchAcked, RowsOf

LEMMA StoringAcked ==
  ASSUME TypeInv, TypeInv', AckParts, WriteThrough \/ WriteThroughDelete
  PROVE  AckParts'
<1>0. /\ w.row \in Rows /\ w.value \in Event /\ w.gone \subseteq Siblings(w.row)
      /\ mem \in HStoreType /\ touched \in [Rows -> Nat] /\ Cal[w.row] \in Cals
  BY CalAssumption DEF TypeInv, WriteOK, WriteType, StoresOK, ExternalOK, WriteThrough,
                       WriteThroughDelete
<1>1. UNCHANGED <<external, poller>> /\ w' = IdleWrite
  BY DEF WriteThrough, WriteThroughDelete, unpolled
<1>2. LogOK' /\ touched' = touched /\ WriterAcked'
  BY <1>1, SameLog, IdleAcked DEF AckParts, external
<1>3. CASE WriteThrough
  <2> DEFINE u == UpsertEvent(mem, w.row, w.value)
             v == WithDrift(u, {w.row})
             a == [mem.acked EXCEPT ![w.row] = w.value.ver]
             st == [v EXCEPT !.acked = a]
  <2>1. u \in HStoreType BY <1>0, WriteTyped
  <2>2. /\ \A q \in Rows : u.events[q] = IF q = w.row THEN w.value ELSE mem.events[q]
        /\ \A o \in Cals : u.gen[o] = IF o = Cal[w.row] THEN mem.gen[o] + 1 ELSE mem.gen[o]
    BY <1>0, UpsertFacts
  <2>3. Persist(st) BY <1>3 DEF WriteThrough
  <2> HIDE DEF u
  <2>4. v \in HStoreType /\ v.events = u.events /\ v.gen = u.gen
    BY <1>0, <2>1, HistoryTyped, DriftFacts DEF SameServed
  <2> HIDE DEF v
  <2>5. a \in [Rows -> Nat] BY <1>0 DEF HStoreType, Event
  <2>6. st \in HStoreType /\ st.events = u.events /\ st.gen = u.gen /\ st.acked = a
    BY <2>4, <2>5 DEF HStoreType
  <2> HIDE DEF st
  <2>7. w.value.ver <= touched[w.row] BY <1>3 DEF AckParts, WriterAcked, WriteThrough
  <2>8. AckedOK(st, touched)
    BY <1>0, <2>2, <2>6, <2>7 DEF AckParts, AckedOK, Known, HStoreType, Event
  <2>9. FetchAcked'
    <3>1. \A q \in Rows : Cal[q] # Cal[w.row] => st.acked[q] = mem.acked[q]
      BY <1>0, <2>6 DEF HStoreType
    <3>2. mem' = st BY <2>3 DEF Persist
    <3>3. FetchAcked /\ UNCHANGED <<poller, touched>>
      BY <1>1 DEF AckParts, external
    <3>4. \A o \in Cals :
             st.gen[o] = IF o = Cal[w.row] THEN mem.gen[o] + 1 ELSE mem.gen[o]
      BY <2>2, <2>6
    <3> HIDE DEF a
    <3> QED BY <1>0, <2>6, <3>1, <3>2, <3>3, <3>4, WriteThroughFetch
  <2> QED BY <1>2, <2>3, <2>8, <2>9, PersistOK DEF AckParts
<1>4. CASE WriteThroughDelete
  <2> DEFINE gone == IF w.group THEN {s \in Siblings(w.row) : Known(mem, s)} ELSE {w.row}
             u == Bump(Forget(mem, gone), Cal[w.row])
             v == WithDrift(u, Siblings(w.row))
             R == IF w.group THEN w.gone ELSE {w.row}
             V == IF w.group THEN Siblings(w.row) ELSE {}
             st == WithAck(v, R, V)
  <2>1. u = IF w.group THEN DeleteEventsByUID(mem, w.row) ELSE DeleteEvent(mem, w.row)
    BY DEF DeleteEventsByUID, DeleteEvent
  <2>2. Persist(st) BY <1>4, <2>1 DEF WriteThroughDelete
  <2>3. u \in HStoreType BY <1>0, ForgetTyped, BumpTyped
  <2>4. /\ \A q \in Rows : u.events[q] = IF q \in gone THEN NoEvent ELSE mem.events[q]
        /\ \A o \in Cals : u.gen[o] = IF o = Cal[w.row] THEN mem.gen[o] + 1 ELSE mem.gen[o]
        /\ u.acked = mem.acked
    <3> HIDE DEF gone
    <3>1. u = Bump(Forget(mem, gone), Cal[w.row]) OBVIOUS
    <3> HIDE DEF u
    <3> QED BY <1>0, <3>1, ForgetFacts
  <2> HIDE DEF u
  <2>5. v \in HStoreType /\ v.events = u.events /\ v.gen = u.gen /\ v.acked = u.acked
    BY <1>0, <2>3, HistoryTyped, DriftFacts DEF SameServed
  <2> HIDE DEF v
  <2>6. /\ st \in HStoreType /\ st.events = u.events /\ st.gen = u.gen
        /\ st.acked = [r \in Rows |-> IF r \in R THEN touched[r]
                                      ELSE IF r \in V THEN 0 ELSE mem.acked[r]]
    BY <1>0, <2>4, <2>5, HistoryTyped, AckFacts
  <2> HIDE DEF st
  <2>7. R \subseteq Siblings(w.row) /\ V \subseteq Siblings(w.row)
    BY <1>0, SiblingsFacts
  <2>8. \A r \in R : r \in gone \/ ~Known(mem, r) BY <1>0
  <2>9. NoEvent.ver = 0 BY DEF NoEvent
  <2>10. AckedOK(mem, touched) BY DEF AckParts
  <2> HIDE DEF R, V, gone
  <2>11. AckedOK(st, touched)
    <3> SUFFICES ASSUME NEW r \in Rows
                 PROVE  /\ st.acked[r] <= touched[r]
                        /\ Known(st, r) => /\ st.events[r].ver >= st.acked[r]
                                           /\ st.events[r].ver <= touched[r]
      BY DEF AckedOK
    <3>1. touched[r] \in Nat /\ mem.acked[r] \in Nat /\ mem.events[r].ver \in Nat
      BY <1>0 DEF HStoreType, Event
    <3>2. st.acked[r] = IF r \in R THEN touched[r]
                        ELSE IF r \in V THEN 0 ELSE mem.acked[r]
      BY <2>6
    <3>3. st.acked[r] <= touched[r] BY <2>10, <3>1, <3>2 DEF AckedOK
    <3>4. ASSUME Known(st, r)
          PROVE  st.events[r].ver >= st.acked[r] /\ st.events[r].ver <= touched[r]
      <4>1. r \notin gone /\ st.events[r] = mem.events[r]
        BY <2>4, <2>6, <2>9, <3>4 DEF Known
      <4>2. Known(mem, r) BY <3>4, <4>1 DEF Known
      <4>3. r \notin R BY <2>8, <4>1, <4>2
      <4> QED BY <2>10, <3>1, <3>2, <4>1, <4>2, <4>3 DEF AckedOK
    <3> QED BY <3>3, <3>4
  <2>12. FetchAcked'
    <3>1. \A q \in Rows : Cal[q] # Cal[w.row] => st.acked[q] = mem.acked[q]
      BY <1>0, <2>6, <2>7, SiblingsFacts
    <3>2. mem' = st BY <2>2 DEF Persist
    <3> QED BY <1>0, <1>1, <2>4, <2>6, <3>1, <3>2, WriteThroughFetch DEF AckParts, external
  <2> QED BY <1>2, <2>2, <2>11, <2>12, PersistOK DEF AckParts
<1> QED BY <1>3, <1>4

\* Steps that change nothing served, acknowledged or fetched.
LEMMA SameStep ==
  ASSUME TypeInv, TypeInv', AckParts, UNCHANGED <<external, w, cal, gen, got>>,
         SameServed(mem', mem) /\ mem'.gen = mem.gen,
         AckedOK(disk', touched),
         \/ pc' = pc
         \/ pc' \in {"idle", "next", "setcursor"}
         \/ pc \notin {"idle", "next", "setcursor"}
  PROVE  AckParts'
<1>1. LogOK' /\ touched' = touched BY SameLog DEF AckParts, external
<1>2. AckedOK(mem', touched) BY SameServedOK DEF AckParts
<1>3. WriterAcked' BY <1>1 DEF AckParts, WriterAcked
<1>4. FetchAcked' BY <1>1 DEF AckParts, FetchAcked, SameServed
<1> QED BY <1>1, <1>2, <1>3, <1>4 DEF AckParts

LEMMA AliasAcked ==
  ASSUME TypeInv, TypeInv', AckParts, NEW r \in Rows, RecordAlias(r)
  PROVE  AckParts'
<1>1. UNCHANGED <<external, w, cal, gen, got, pc>>
  BY DEF RecordAlias, unpolled, poller, fetch
<1>2. AckedOK(disk, touched) /\ AckedOK(mem, touched) /\ mem \in HStoreType
  BY DEF AckParts, TypeInv, StoresOK
<1>3. CASE NoPersist
  BY <1>1, <1>2, <1>3, SameStep DEF NoPersist, SameServed
<1>4. ASSUME NEW n \in Names, Persist(SetAlias(mem, n, r)) PROVE AckParts'
  <2>1. SameServed(SetAlias(mem, n, r), mem) /\ SetAlias(mem, n, r).gen = mem.gen
    BY <1>2 DEF SameServed, SetAlias, HStoreType
  <2>2. AckedOK(SetAlias(mem, n, r), touched) BY <1>2, <2>1, SameServedOK
  <2>3. AckedOK(disk', touched) BY <1>2, <1>4, <2>2, PersistOK
  <2> QED BY <1>1, <1>4, <2>1, <2>3, SameStep DEF Persist
<1> QED BY <1>3, <1>4 DEF RecordAlias

LEMMA DeadlineAcked ==
  ASSUME TypeInv, TypeInv', AckParts, NEW c \in Cals, FullDeadline(c)
  PROVE  AckParts'
BY SameStep DEF FullDeadline, NoPersist, SameServed, AckParts, unwritten, poller, fetch

\* The fetch starts from nothing and the calendar's turn ends with nothing.
LEMMA NothingFetched ==
  ASSUME TypeInv', got' = NoRows, gen' <= mem'.gen[cal']
  PROVE  FetchAcked'
BY DEF FetchAcked, NoRows, NoEvent, TypeInv, ExternalOK, RowsOf

\* A step that persists st, from what the memory holds, and leaves Proton alone.
LEMMA PersistStep ==
  ASSUME TypeInv, TypeInv', AckParts, UNCHANGED <<external, w>>, NEW st,
         Persist(st) \/ (mem' = st /\ disk' = st) \/ (mem' = st /\ UNCHANGED disk),
         AckedOK(st, touched), FetchAcked'
  PROVE  AckParts'
<1>1. LogOK' /\ touched' = touched BY SameLog DEF AckParts, external
<1>2. WriterAcked' BY <1>1 DEF AckParts, WriterAcked
<1>3. AckedOK(mem', touched) /\ AckedOK(disk', touched) BY DEF Persist, AckParts
<1> QED BY <1>1, <1>2, <1>3 DEF AckParts

LEMMA QuietPollerStep ==
  ASSUME TypeInv, TypeInv', AckParts, UNCHANGED <<external, w, mem, disk>>, FetchAcked'
  PROVE  AckParts'
<1>1. AckedOK(mem, touched) BY DEF AckParts
<1> QED BY <1>1, PersistStep

\* What the poller fetches now is Proton's latest.
LEMMA FetchedNow ==
  ASSUME TypeInv, AckParts, NEW r \in Rows
  PROVE  /\ proton[r].ver # 0 => proton[r].ver >= mem.acked[r]
         /\ proton[r].ver <= touched[r]
BY DEF TypeInv, ExternalOK, StoresOK, HStoreType, Event, AckParts, LogOK, AckedOK, Live

LEMMA PollerAcked ==
  ASSUME TypeInv, TypeInv', AckParts, Poller
  PROVE  AckParts'
<1>u. UNCHANGED <<external, w>> BY PollerFrame DEF unwritten
<1>t. /\ mem \in HStoreType /\ touched \in [Rows -> Nat] /\ touched' = touched
      /\ PollerOK /\ AckedOK(mem, touched) /\ AckedOK(disk, touched) /\ FetchAcked
      /\ mem.gen \in [Cals -> Nat] /\ gen \in Nat /\ cal \in Cals
      /\ got \in [Rows -> Event] /\ base \in Nat \cup {NoCursor}
  BY <1>u DEF TypeInv, StoresOK, HStoreType, ExternalOK, PollerOK, AckParts, external
<1>1. CASE CycleAborts
  BY <1>u, <1>t, <1>1, SameStep DEF CycleAborts, EndCycle, fetch, SameServed
<1>2. CASE CycleStarts
  <2>1. SameServed(ReplaceCalendars(mem, Cals), mem) /\ SameServed(mem, mem)
        /\ ReplaceCalendars(mem, Cals).gen = mem.gen
    BY <1>t DEF ReplaceCalendars, HStoreType, SameServed
  <2>2. AckedOK(ReplaceCalendars(mem, Cals), touched) BY <1>t, <2>1, SameServedOK
  <2>3. SameServed(mem', mem) /\ mem'.gen = mem.gen /\ AckedOK(disk', touched)
    BY <1>2, <1>t, <2>1, <2>2 DEF CycleStarts, Persist, NoPersist
  <2> QED BY <1>2, <1>u, <2>3, SameStep DEF CycleStarts, fetch
<1>3. ASSUME NEW cs \in SUBSET Cals, CycleStartsOnBlip(cs) PROVE AckParts'
  <2>1. SameServed(ReplaceCalendars(mem, cs), mem) /\ SameServed(mem, mem)
        /\ ReplaceCalendars(mem, cs).gen = mem.gen
    BY <1>t DEF ReplaceCalendars, HStoreType, SameServed
  <2>2. AckedOK(ReplaceCalendars(mem, cs), touched) BY <1>t, <2>1, SameServedOK
  <2>3. SameServed(mem', mem) /\ mem'.gen = mem.gen /\ AckedOK(disk', touched)
    BY <1>3, <1>t, <2>1, <2>2 DEF CycleStartsOnBlip
  <2> QED BY <1>3, <1>u, <2>3, SameStep DEF CycleStartsOnBlip, fetch
<1>4. ASSUME NEW c \in Cals, NextCalendar(c) PROVE AckParts'
  <2>1. gen' <= mem'.gen[cal'] BY <1>4, <1>t DEF NextCalendar, NoPersist
  <2>2. FetchAcked' BY <1>4, <2>1, NothingFetched DEF NextCalendar
  <2> QED BY <1>4, <1>u, <2>2, QuietPollerStep DEF NextCalendar, NoPersist
<1>5. ASSUME CalendarDone, mem'.gen = mem.gen PROVE FetchAcked'
  BY <1>5, <1>t, NothingFetched DEF CalendarDone
<1>6. CASE FetchFails
  BY <1>5, <1>6, <1>u, QuietPollerStep DEF FetchFails
<1>7. CASE DeltaPages
  BY <1>u, <1>t, <1>7, SameStep DEF DeltaPages, NoPersist, SameServed
<1>8. CASE DeltaRefresh
  BY <1>u, <1>t, <1>8, SameStep DEF DeltaRefresh, fetch, SameServed
<1>9. ASSUME NEW r \in Rows, DeltaGet(r) PROVE AckParts'
  <2>1. got' = [got EXCEPT ![r] = proton[r]] /\ UNCHANGED <<cal, gen, mem, disk>>
        /\ pc = "get"
    BY <1>9 DEF DeltaGet, NoPersist
  <2>2. FetchAcked' BY <1>t, <2>1, FetchedNow DEF FetchAcked, RowsOf
  <2> QED BY <1>u, <2>1, <2>2, QuietPollerStep
<1>10. CASE DeltaApply
  <2> DEFINE a == ApplyCalendarDelta(mem, cal, changed, got, base)
             st == WithoutDrift(a, changed)
  <2>1. a \in HStoreType BY <1>t, ApplyTyped
  <2>2. /\ a.events = [r \in Rows |-> IF r \in changed THEN got[r] ELSE mem.events[r]]
        /\ a.gen = mem.gen /\ a.acked = mem.acked
    BY <1>t, DeltaFacts
  <2> HIDE DEF a
  <2>3. SameServed(st, a) /\ st.gen = a.gen BY <2>1, DriftFacts
  <2> HIDE DEF st
  <2>4. CASE GenHeld(mem, cal, gen) /\ Persist(st)
    <3>1. \A r \in changed : got[r].ver # 0 => got[r].ver >= mem.acked[r]
                                            /\ got[r].ver <= touched[r]
      BY <1>10, <1>t, <2>4 DEF DeltaApply, GenHeld, FetchAcked, PollerOK
    <3>2. AckedOK(st, touched)
      BY <1>t, <2>2, <2>3, <3>1 DEF AckedOK, Known, SameServed, HStoreType
    <3>3. FetchAcked' BY <1>5, <1>10, <2>2, <2>3, <2>4 DEF DeltaApply, Persist
    <3> QED BY <1>u, <2>4, <3>2, <3>3, PersistStep
  <2>5. CASE NoPersist
    BY <1>5, <1>10, <1>u, <2>5, QuietPollerStep DEF DeltaApply, NoPersist
  <2> QED BY <1>10, <2>4, <2>5 DEF DeltaApply, st, a
<1>11. CASE Baseline
  BY <1>u, <1>t, <1>11, SameStep DEF Baseline, SameServed
<1>12. ASSUME NEW s \in 1..NSlices, ListSlice(s) PROVE AckParts'
  <2>1. /\ \A r \in Rows : got'[r] \in {got[r], proton[r]}
        /\ UNCHANGED <<cal, gen, mem, disk>> /\ pc = "list"
    BY <1>12, <1>t DEF ListSlice, NoPersist
  <2>2. FetchAcked' BY <1>t, <2>1, FetchedNow DEF FetchAcked, RowsOf
  <2> QED BY <1>u, <2>1, <2>2, QuietPollerStep
<1>13. CASE SnapshotRefused
  BY <1>5, <1>13, <1>u, QuietPollerStep DEF SnapshotRefused, NoPersist
<1>14. CASE SnapshotReplace
  <2> DEFINE a == ReplaceCalendarEvents(mem, cal, got)
             st == WithoutDrift(a, RowsOf(cal))
  <2>1. a \in HStoreType BY <1>t, ApplyTyped
  <2>2. /\ a.events = [r \in Rows |-> IF r \in RowsOf(cal) THEN got[r] ELSE mem.events[r]]
        /\ a.gen = mem.gen /\ a.acked = mem.acked
    BY <1>t, ReplaceFacts
  <2> HIDE DEF a
  <2>3. SameServed(st, a) /\ st.gen = a.gen BY <2>1, DriftFacts
  <2>4. Persist(st) BY <1>14 DEF SnapshotReplace, a
  <2> HIDE DEF st
  <2>5. \A r \in RowsOf(cal) : got[r].ver # 0 => got[r].ver >= mem.acked[r]
                                               /\ got[r].ver <= touched[r]
    BY <1>14, <1>t DEF SnapshotReplace, GenHeld, FetchAcked
  <2>6. AckedOK(st, touched)
    BY <1>t, <2>2, <2>3, <2>5 DEF AckedOK, Known, SameServed, HStoreType
  <2>7. mem'.gen = mem.gen /\ mem'.acked = mem.acked
    BY <2>2, <2>3, <2>4 DEF Persist, SameServed
  <2>8. FetchAcked' BY <1>14, <1>t, <2>7 DEF SnapshotReplace, fetch, FetchAcked
  <2> QED BY <1>u, <2>4, <2>6, <2>8, PersistStep
<1>15. CASE SnapshotSetCursor
  <2>1. SameServed(SetCursor(mem, cal, base), mem) /\ SetCursor(mem, cal, base).gen = mem.gen
    BY <1>t, CursorFacts
  <2>2. AckedOK(SetCursor(mem, cal, base), touched) BY <1>t, <2>1, SameServedOK
  <2>3. CASE Persist(SetCursor(mem, cal, base))
    <3>1. FetchAcked' BY <1>5, <1>15, <2>1, <2>3 DEF SnapshotSetCursor, Persist
    <3> QED BY <1>u, <2>2, <2>3, <3>1, PersistStep
  <2>4. CASE NoPersist
    BY <1>5, <1>15, <1>u, <2>4, QuietPollerStep DEF SnapshotSetCursor, NoPersist
  <2> QED BY <1>15, <2>3, <2>4 DEF SnapshotSetCursor
<1>16. CASE CycleEnds
  <2>1. SameServed(MarkSynced(mem), mem) /\ SameServed(mem, mem)
        /\ MarkSynced(mem).gen = mem.gen
    BY <1>t DEF MarkSynced, HStoreType, SameServed
  <2>2. AckedOK(MarkSynced(mem), touched) BY <1>t, <2>1, SameServedOK
  <2>3. SameServed(mem', mem) /\ mem'.gen = mem.gen /\ AckedOK(disk', touched)
    BY <1>16, <1>t, <2>1, <2>2 DEF CycleEnds, Persist, NoPersist
  <2> QED BY <1>16, <1>u, <2>3, SameStep DEF CycleEnds, EndCycle, fetch
<1> QED BY <1>1, <1>2, <1>3, <1>4, <1>6, <1>7, <1>8, <1>9, <1>10, <1>11, <1>12, <1>13,
           <1>14, <1>15, <1>16 DEF Poller

LEMMA RestartAcked ==
  ASSUME TypeInv, TypeInv', AckParts, Restart
  PROVE  AckParts'
<1>1. PICK st \in {disk, NewStore} : Booted(st) /\ UNCHANGED external BY DEF Restart
<1>2. AckedOK(NewStore, touched)
  BY DEF AckedOK, NewStore, EmptyStore, Known, NoEvent, TypeInv, ExternalOK
<1>3. AckedOK(mem', touched) /\ AckedOK(disk', touched)
  BY <1>1, <1>2 DEF Booted, AckParts
<1>4. WriterAcked' BY <1>1, IdleAcked DEF Booted
<1>5. FetchAcked'
  <2>1. cal' \in Cals /\ mem'.gen \in [Cals -> Nat]
    BY DEF TypeInv, PollerOK, StoresOK, HStoreType
  <2> QED BY <1>1, <2>1, NothingFetched DEF Booted
<1> QED BY <1>1, <1>3, <1>4, <1>5, SameLog DEF AckParts, external

LEMMA InitAcked == Init => AckInv
<1> SUFFICES ASSUME Init PROVE AckInv OBVIOUS
<1>1. TypeInv BY InitTyped
<1>2. PICK R \in SUBSET Rows :
        proton = [r \in Rows |-> IF r \in R THEN [ver |-> 1, slice |-> 1, synth |-> FALSE]
                                ELSE NoEvent]
  BY DEF Init
<1>3. \A r \in Rows : proton[r].ver \in {0, 1} BY <1>2 DEF NoEvent
<1>4. LogOK BY <1>3, CalAssumption DEF Init, LogOK
<1>5. AckedOK(NewStore, touched)
  BY <1>1 DEF AckedOK, NewStore, EmptyStore, Known, NoEvent, TypeInv, ExternalOK
<1>6. FetchAcked
  BY <1>1 DEF Init, FetchAcked, NoRows, NoEvent, NewStore, EmptyStore, TypeInv, PollerOK,
              ExternalOK, RowsOf
<1> QED BY <1>1, <1>4, <1>5, <1>6 DEF Init, AckInv, WriterAcked, IdleWrite

LEMMA NextAcked == AckInv /\ [Next]_vars => AckInv'
<1> SUFFICES ASSUME AckInv, [Next]_vars PROVE AckInv' OBVIOUS
<1>1. TypeInv /\ TypeInv' /\ AckParts BY NextTyped DEF AckInv, AckParts
<1>2. CASE Others BY <1>1, <1>2, OthersAcked DEF AckInv, AckParts
<1>3. CASE Requests BY <1>1, <1>3, RequestsAcked DEF AckInv, AckParts
<1>4. CASE Writer
  BY <1>1, <1>4, SendingAcked, StoringAcked DEF Writer, Sending, AckInv, AckParts
<1>5. ASSUME NEW r \in Rows, RecordAlias(r) PROVE AckInv'
  BY <1>1, <1>5, AliasAcked DEF AckInv, AckParts
<1>6. CASE Poller BY <1>1, <1>6, PollerAcked DEF AckInv, AckParts
<1>7. ASSUME NEW c \in Cals, FullDeadline(c) PROVE AckInv'
  BY <1>1, <1>7, DeadlineAcked DEF AckInv, AckParts
<1>8. CASE Restart BY <1>1, <1>8, RestartAcked DEF AckInv, AckParts
<1>9. CASE UNCHANGED vars
  BY <1>1, <1>9 DEF vars, external, poller, fetch, AckInv, LogOK, Live, AckedOK, Known,
                    WriterAcked, FetchAcked, RowsOf
<1> QED BY <1>2, <1>3, <1>4, <1>5, <1>6, <1>7, <1>8, <1>9 DEF Next

LEMMA AckInvariant == Spec => []AckInv
BY InitAcked, NextAcked, PTL DEF Spec

-----------------------------------------------------------------------------
(* What a client was told, beside what the store remembers of it.           *)

\* Since a boot from nothing no client was told anything of r, and whatever was
\* fetched of it is as new as the last answer before.
Reborn(r) ==
  /\ disk.acked[r] = mem.acked[r]
  /\ \A ev \in {mem.events[r], disk.events[r], got[r]} :
       ev.ver # 0 => ev.ver >= answered[r]

\* The store remembers the last answer on every row, or it is reborn without it,
\* or the answer lapsed.
ToldOK ==
  /\ \A r \in Rows : answered[r] <= touched[r]
  /\ \A r \in Rows \ lapsed : mem.acked[r] = answered[r] \/ Reborn(r)

ToldInv == AckInv /\ ToldOK

LEMMA ToldInvGivesProperty == ToldInv => NeverOlderThanAcked
<1> SUFFICES ASSUME ToldInv, NEW r \in Rows \ lapsed, Known(mem, r)
             PROVE  mem.events[r].ver >= answered[r]
  BY DEF NeverOlderThanAcked
<1>1. CASE mem.acked[r] = answered[r]
  BY <1>1 DEF ToldInv, AckInv, AckedOK
<1>2. CASE Reborn(r) BY <1>2 DEF Reborn, Known
<1> QED BY <1>1, <1>2 DEF ToldInv, ToldOK

\* Proton's copy of a row is as new as the last answer on it.
LEMMA ProtonAnswers ==
  ASSUME ToldInv, NEW r \in Rows, proton[r].ver # 0
  PROVE  proton[r].ver >= answered[r]
BY DEF ToldInv, ToldOK, AckInv, LogOK, Live

\* The step answers nobody about r: what it keeps of r was there before, or was
\* just read in Proton.
Silent(r) ==
  /\ answered'[r] = answered[r] /\ (r \in lapsed => r \in lapsed')
  /\ touched'[r] >= touched[r]
  /\ mem'.acked[r] = mem.acked[r] /\ disk'.acked[r] \in {disk.acked[r], mem'.acked[r]}
  /\ mem'.events[r] \in {mem.events[r], got[r]}
  /\ disk'.events[r] \in {disk.events[r], mem'.events[r]}
  /\ got'[r] \in {got[r], NoEvent, proton[r]}

\* The step answers somebody about r.
Heard(r) ==
  /\ answered'[r] <= touched'[r]
  /\ r \in lapsed' \/ mem'.acked[r] = answered'[r]

LEMMA StepTold ==
  ASSUME ToldInv, TypeInv', \A r \in Rows : Silent(r) \/ Heard(r)
  PROVE  ToldOK'
<1>t. /\ answered \in [Rows -> Nat] /\ touched \in [Rows -> Nat]
      /\ touched' \in [Rows -> Nat] /\ NoEvent.ver = 0
  BY DEF ToldInv, AckInv, TypeInv, GatesOK, ExternalOK, NoEvent
<1>1. \A r \in Rows : answered'[r] <= touched'[r]
  BY <1>t DEF ToldInv, ToldOK, Silent, Heard
<1>2. ASSUME NEW r \in Rows, r \notin lapsed', mem'.acked[r] # answered'[r]
      PROVE  Reborn(r)'
  <2>0. Silent(r) BY <1>2 DEF Heard
  <2>1. Reborn(r) BY <1>2, <2>0 DEF ToldInv, ToldOK, Silent
  <2>2. disk'.acked[r] = mem'.acked[r] BY <2>0, <2>1 DEF Silent, Reborn
  <2>3. proton[r].ver # 0 => proton[r].ver >= answered[r] BY ProtonAnswers
  <2>4. ASSUME NEW ev \in {mem'.events[r], disk'.events[r], got'[r]}, ev.ver # 0
        PROVE  ev.ver >= answered'[r]
    <3>1. ev \in {mem.events[r], disk.events[r], got[r], NoEvent, proton[r]}
      BY <2>0, <2>4 DEF Silent
    <3> QED BY <1>t, <2>0, <2>1, <2>3, <2>4, <3>1 DEF Reborn, Silent
  <2> QED BY <2>2, <2>4 DEF Reborn
<1> QED BY <1>1, <1>2 DEF ToldOK

LEMMA QuietTold ==
  ASSUME ToldInv, TypeInv', Grows, UNCHANGED <<mem, disk, got, answered, lapsed>>
  PROVE  ToldOK'
<1>1. \A r \in Rows : Silent(r) BY DEF Silent, Grows
<1> QED BY <1>1, StepTold

LEMMA OthersTold ==
  ASSUME ToldInv, TypeInv', Others
  PROVE  ToldOK'
<1>0. TypeInv /\ LogOK BY DEF ToldInv, AckInv
<1>1. Grows
  <2>1. ASSUME NEW r \in Rows, ProtonPut(r) PROVE Grows
    BY <1>0, <2>1, PutGrows DEF ProtonPut
  <2>2. ASSUME NEW r \in Rows, ProtonDelete(r) PROVE Grows
    <3>1. Cal[r] \in Cals /\ {r} \in SUBSET RowsOf(Cal[r])
      BY CalAssumption DEF RowsOf
    <3> QED BY <1>0, <2>2, <3>1, DropGrows DEF ProtonDelete
  <2>3. ASSUME NEW c \in Cals, ProtonOther(c) PROVE Grows
    BY <1>0, <2>3, OtherGrows
  <2> QED BY <2>1, <2>2, <2>3 DEF Others
<1>2. UNCHANGED internal BY DEF Others, ProtonPut, ProtonDelete, ProtonOther
<1> QED BY <1>1, <1>2, QuietTold DEF internal, poller, fetch

LEMMA StillTold ==
  ASSUME ToldInv, TypeInv', UNCHANGED <<external, mem, disk, got, answered, lapsed>>
  PROVE  ToldOK'
<1>1. Grows BY SameLog DEF ToldInv, AckInv
<1> QED BY <1>1, QuietTold

LEMMA SendingGrows ==
  ASSUME TypeInv, LogOK, Sending
  PROVE  Grows
<1>w. w \in WriteType /\ (w.pc # "idle" => w.row \in Rows) BY DEF TypeInv, WriteOK
<1>1. CASE UNCHANGED external BY <1>1, SameLog
<1>2. ASSUME NEW r \in Rows, SendCreate(r) PROVE Grows
  BY <1>2, PutGrows DEF SendCreate
<1>3. CASE SendUpdate
  <2>1. w.row \in Rows BY <1>w, <1>3 DEF SendUpdate
  <2>2. PICK s \in 0..NSlices : PutRow(w.row, s)
    BY <1>3, <2>1 DEF SendUpdate, TypeInv, ExternalOK, Event
  <2> QED BY <2>1, <2>2, PutGrows
<1>4. CASE SendDelete
  <2>1. w.row \in Rows BY <1>w, <1>4 DEF SendDelete
  <2>2. PICK targets \in SUBSET Siblings(w.row) : DropRows(Cal[w.row], targets)
    BY <1>4, <2>1, SiblingsFacts DEF SendDelete
  <2>3. targets \in SUBSET RowsOf(Cal[w.row]) /\ Cal[w.row] \in Cals
    BY <2>1, CalAssumption DEF Siblings
  <2> QED BY <2>2, <2>3, DropGrows
<1> QED BY <1>1, <1>2, <1>3, <1>4
        DEF Sending, RecheckFound, RecheckPassed, SendFails, SendDeleteNotFound, Reread,
            RereadFails, RsvpUnread, local

LEMMA SendingTold ==
  ASSUME ToldInv, TypeInv', Sending
  PROVE  ToldOK'
<1>0. Grows BY SendingGrows DEF ToldInv, AckInv
<1>1. UNCHANGED <<mem, disk, got>> BY SendingFrame DEF unpolled, poller, fetch
<1>2. CASE UNCHANGED <<answered, lapsed>> BY <1>0, <1>1, <1>2, QuietTold
<1>3. CASE RsvpUnread
  <2>1. w.row \in Rows /\ w.value.ver <= touched[w.row] /\ w.value.ver \in Nat
    BY <1>3 DEF RsvpUnread, ToldInv, AckInv, TypeInv, WriteOK, WriteType, Event, WriterAcked
  <2>2. UNCHANGED touched /\ answered \in [Rows -> Nat]
    BY <1>3 DEF RsvpUnread, external, ToldInv, AckInv, TypeInv, GatesOK
  <2>3. \A r \in Rows : IF r = w.row THEN Heard(r) ELSE Silent(r)
    BY <1>0, <1>1, <1>3, <2>1, <2>2 DEF RsvpUnread, Heard, Silent, Grows
  <2> QED BY <2>3, StepTold
<1> QED BY <1>2, <1>3
        DEF Sending, RecheckFound, RecheckPassed, SendFails, SendCreate, SendUpdate,
            SendDelete, SendDeleteNotFound, Reread, RereadFails, local

\* What the two write-throughs make of the store.
LEMMA ThroughFacts ==
  ASSUME TypeInv, WriteThrough
  PROVE  /\ w.row \in Rows /\ w.value.ver \in Nat /\ disk' \in {disk, mem'}
         /\ \A r \in Rows :
              /\ mem'.events[r] = IF r = w.row THEN w.value ELSE mem.events[r]
              /\ mem'.acked[r] = IF r = w.row THEN w.value.ver ELSE mem.acked[r]
<1>0. /\ w.row \in Rows /\ w.value \in Event /\ w.value.ver \in Nat
      /\ mem \in HStoreType /\ touched \in [Rows -> Nat]
  BY DEF TypeInv, WriteOK, WriteType, StoresOK, ExternalOK, WriteThrough, Event
<1> DEFINE u == UpsertEvent(mem, w.row, w.value)
           v == WithDrift(u, {w.row})
           a == [mem.acked EXCEPT ![w.row] = w.value.ver]
<1>1. u \in HStoreType BY <1>0, WriteTyped
<1>2. \A q \in Rows : u.events[q] = IF q = w.row THEN w.value ELSE mem.events[q]
  BY <1>0, UpsertFacts
<1>3. mem' = [v EXCEPT !.acked = a] /\ disk' \in {disk, mem'}
  BY DEF WriteThrough, Persist
<1> HIDE DEF u
<1>4. v \in HStoreType /\ v.events = u.events
  BY <1>0, <1>1, HistoryTyped, DriftFacts DEF SameServed
<1> HIDE DEF v
<1>5. mem'.events = u.events /\ mem'.acked = a BY <1>3, <1>4 DEF HStoreType
<1> QED BY <1>0, <1>2, <1>3, <1>5 DEF HStoreType

ToldRows == IF w.group THEN w.gone ELSE {w.row}
DroppedRows == IF w.group THEN Siblings(w.row) ELSE {}

LEMMA PurgeFacts ==
  ASSUME TypeInv, WriteThroughDelete
  PROVE  /\ w.row \in Rows /\ disk' \in {disk, mem'}
         /\ \A r \in Rows :
              /\ r \notin ToldRows \cup DroppedRows => mem'.events[r] = mem.events[r]
              /\ mem'.acked[r] = IF r \in ToldRows THEN touched[r]
                                 ELSE IF r \in DroppedRows THEN 0 ELSE mem.acked[r]
<1>0. /\ w.row \in Rows /\ mem \in HStoreType /\ touched \in [Rows -> Nat]
      /\ Cal[w.row] \in Cals
  BY CalAssumption DEF TypeInv, WriteOK, StoresOK, ExternalOK, WriteThroughDelete
<1> DEFINE gone == IF w.group THEN {s \in Siblings(w.row) : Known(mem, s)} ELSE {w.row}
           u == Bump(Forget(mem, gone), Cal[w.row])
           v == WithDrift(u, Siblings(w.row))
<1>1. u = IF w.group THEN DeleteEventsByUID(mem, w.row) ELSE DeleteEvent(mem, w.row)
  BY DEF DeleteEventsByUID, DeleteEvent
<1>2. mem' = WithAck(v, ToldRows, DroppedRows) /\ disk' \in {disk, mem'}
  BY <1>1 DEF WriteThroughDelete, Persist, ToldRows, DroppedRows
<1>3. gone \subseteq ToldRows \cup DroppedRows BY DEF ToldRows, DroppedRows
<1>4. u \in HStoreType BY <1>0, ForgetTyped, BumpTyped
<1>5. /\ \A q \in Rows : u.events[q] = IF q \in gone THEN NoEvent ELSE mem.events[q]
      /\ u.acked = mem.acked
  <2> HIDE DEF gone
  <2>1. u = Bump(Forget(mem, gone), Cal[w.row]) OBVIOUS
  <2> HIDE DEF u
  <2> QED BY <1>0, <2>1, ForgetFacts
<1> HIDE DEF u, gone
<1>6. v \in HStoreType /\ v.events = u.events /\ v.acked = u.acked
  BY <1>0, <1>4, HistoryTyped, DriftFacts DEF SameServed
<1> HIDE DEF v
<1>7. /\ mem'.events = u.events
      /\ mem'.acked = [r \in Rows |-> IF r \in ToldRows THEN touched[r]
                                      ELSE IF r \in DroppedRows THEN 0 ELSE mem.acked[r]]
  BY <1>2, <1>5, <1>6, AckFacts
<1> QED BY <1>0, <1>2, <1>3, <1>5, <1>7

LEMMA StoringTold ==
  ASSUME ToldInv, TypeInv', WriteThrough \/ WriteThroughDelete
  PROVE  ToldOK'
<1>t. /\ TypeInv /\ answered \in [Rows -> Nat] /\ touched \in [Rows -> Nat]
      /\ UNCHANGED <<touched, got>>
  BY DEF ToldInv, AckInv, TypeInv, GatesOK, ExternalOK, WriteThrough, WriteThroughDelete,
         external, unpolled, poller, fetch
<1>1. CASE WriteThrough
  <2>1. w.value.ver <= touched[w.row]
    BY <1>1 DEF ToldInv, AckInv, WriterAcked, WriteThrough
  <2>2. /\ answered' = [answered EXCEPT ![w.row] = w.value.ver]
        /\ lapsed' = lapsed \ {w.row}
    BY <1>1 DEF WriteThrough
  <2>3. ASSUME NEW r \in Rows PROVE IF r = w.row THEN Heard(r) ELSE Silent(r)
    BY <1>t, <1>1, <2>1, <2>2, ThroughFacts DEF Heard, Silent
  <2> QED BY <2>3, StepTold
<1>2. CASE WriteThroughDelete
  <2>1. /\ answered' = Claimed(answered, ToldRows, DroppedRows)
        /\ lapsed' = lapsed \ (ToldRows \cup DroppedRows)
    BY <1>2 DEF WriteThroughDelete, ToldRows, DroppedRows
  <2>2. \A r \in Rows : answered'[r] = IF r \in ToldRows THEN touched[r]
                                       ELSE IF r \in DroppedRows THEN 0 ELSE answered[r]
    BY <2>1 DEF Claimed
  <2>3. ASSUME NEW r \in Rows
        PROVE  IF r \in ToldRows \cup DroppedRows THEN Heard(r) ELSE Silent(r)
    BY <1>t, <1>2, <2>1, <2>2, PurgeFacts DEF Heard, Silent
  <2> QED BY <2>3, StepTold
<1> QED BY <1>1, <1>2

LEMMA AliasTold ==
  ASSUME ToldInv, TypeInv', NEW r \in Rows, RecordAlias(r)
  PROVE  ToldOK'
<1>t. mem \in HStoreType /\ touched \in [Rows -> Nat]
  BY DEF ToldInv, AckInv, TypeInv, StoresOK, ExternalOK
<1>1. UNCHANGED <<external, got, answered, lapsed>>
  BY DEF RecordAlias, unpolled, poller, fetch
<1>2. mem'.events = mem.events /\ mem'.acked = mem.acked /\ disk' \in {disk, mem'}
  BY <1>t DEF RecordAlias, Persist, NoPersist, SetAlias, HStoreType
<1>3. \A q \in Rows : Silent(q) BY <1>t, <1>1, <1>2 DEF Silent, external
<1> QED BY <1>3, StepTold

\* A poller step puts into the store, of every row, what was there or what was
\* fetched, and fetches nothing but Proton's copy.
LEMMA PollerKeeps ==
  ASSUME TypeInv, Poller
  PROVE  /\ mem'.acked = mem.acked /\ disk' \in {disk, mem'}
         /\ \A r \in Rows : /\ mem'.events[r] \in {mem.events[r], got[r]}
                            /\ got'[r] \in {got[r], NoEvent, proton[r]}
<1> DEFINE Goal == /\ mem'.acked = mem.acked /\ disk' \in {disk, mem'}
                   /\ \A r \in Rows : /\ mem'.events[r] \in {mem.events[r], got[r]}
                                      /\ got'[r] \in {got[r], NoEvent, proton[r]}
<1>t. /\ mem \in HStoreType /\ cal \in Cals /\ got \in [Rows -> Event]
      /\ base \in Nat \cup {NoCursor}
  BY DEF TypeInv, StoresOK, PollerOK
<1>1. ASSUME mem'.events = mem.events, mem'.acked = mem.acked, disk' \in {disk, mem'},
             got' \in {got, NoRows}
      PROVE  Goal
  BY <1>1 DEF NoRows
<1>2. CASE CycleAborts \/ FetchFails \/ DeltaPages \/ DeltaRefresh \/ Baseline
             \/ SnapshotRefused \/ \E c \in Cals : NextCalendar(c)
  BY <1>1, <1>2 DEF CycleAborts, FetchFails, DeltaPages, DeltaRefresh, Baseline,
     SnapshotRefused, NextCalendar, CalendarDone, NoPersist, fetch
<1>3. CASE CycleStarts \/ CycleEnds \/ \E cs \in SUBSET Cals : CycleStartsOnBlip(cs)
  <2>1. ASSUME NEW cs PROVE ReplaceCalendars(mem, cs).events = mem.events
                            /\ ReplaceCalendars(mem, cs).acked = mem.acked
    BY <1>t DEF ReplaceCalendars, HStoreType
  <2>2. MarkSynced(mem).events = mem.events /\ MarkSynced(mem).acked = mem.acked
    BY <1>t DEF MarkSynced, HStoreType
  <2> QED BY <1>1, <1>3, <2>1, <2>2
          DEF CycleStarts, CycleEnds, CycleStartsOnBlip, Persist, NoPersist, fetch
<1>4. CASE (\E r \in Rows : DeltaGet(r)) \/ \E s \in 1..NSlices : ListSlice(s)
  BY <1>4, <1>t DEF DeltaGet, ListSlice, NoPersist
<1>5. CASE DeltaApply
  <2> DEFINE a == ApplyCalendarDelta(mem, cal, changed, got, base)
  <2>1. a \in HStoreType BY <1>t, ApplyTyped
  <2>2. /\ a.events = [r \in Rows |-> IF r \in changed THEN got[r] ELSE mem.events[r]]
        /\ a.acked = mem.acked
    BY <1>t, DeltaFacts
  <2>3. Persist(WithoutDrift(a, changed)) \/ NoPersist BY <1>5 DEF DeltaApply
  <2> HIDE DEF a
  <2>4. got' = NoRows BY <1>5 DEF DeltaApply, CalendarDone
  <2>5. SameServed(WithoutDrift(a, changed), a) BY <2>1, DriftFacts
  <2> QED BY <2>2, <2>3, <2>4, <2>5 DEF Persist, NoPersist, SameServed, NoRows
<1>6. CASE SnapshotReplace
  <2> DEFINE a == ReplaceCalendarEvents(mem, cal, got)
  <2>1. a \in HStoreType BY <1>t, ApplyTyped
  <2>2. /\ a.events = [r \in Rows |-> IF r \in RowsOf(cal) THEN got[r] ELSE mem.events[r]]
        /\ a.acked = mem.acked
    BY <1>t, ReplaceFacts
  <2>3. Persist(WithoutDrift(a, RowsOf(cal))) /\ got' = got
    BY <1>6 DEF SnapshotReplace, fetch
  <2> HIDE DEF a
  <2>4. SameServed(WithoutDrift(a, RowsOf(cal)), a) BY <2>1, DriftFacts
  <2> QED BY <2>2, <2>3, <2>4 DEF Persist, SameServed
<1>7. CASE SnapshotSetCursor
  <2>1. SameServed(SetCursor(mem, cal, base), mem) BY <1>t, CursorFacts
  <2> QED BY <1>1, <1>7, <2>1
          DEF SnapshotSetCursor, CalendarDone, Persist, NoPersist, SameServed
<1> QED BY <1>2, <1>3, <1>4, <1>5, <1>6, <1>7 DEF Poller

LEMMA PollerTold ==
  ASSUME ToldInv, TypeInv', Poller
  PROVE  ToldOK'
<1>1. UNCHANGED <<touched, answered, lapsed>> /\ touched \in [Rows -> Nat]
  BY PollerFrame DEF unwritten, external, ToldInv, AckInv, TypeInv, ExternalOK
<1>2. \A r \in Rows : Silent(r)
  BY <1>1, PollerKeeps DEF Silent, ToldInv, AckInv
<1> QED BY <1>2, StepTold

LEMMA RestartTold ==
  ASSUME ToldInv, TypeInv', Restart
  PROVE  ToldOK'
<1>1. UNCHANGED <<touched, answered>> /\ got' = NoRows /\ mem' = disk'
  BY DEF Restart, external, Booted
<1>2. \A r \in Rows : answered'[r] <= touched'[r] BY <1>1 DEF ToldInv, ToldOK
<1>3. \A r \in Rows : got'[r].ver = 0 BY <1>1 DEF NoRows, NoEvent
<1>4. CASE /\ mem' = disk
           /\ lapsed' = lapsed \cup {r \in Rows : disk.acked[r] # mem.acked[r]}
  <2>1. ASSUME NEW r \in Rows \ lapsed', mem'.acked[r] # answered'[r]
        PROVE  Reborn(r)'
    <3>1. r \notin lapsed /\ disk.acked[r] = mem.acked[r] BY <1>4, <2>1
    <3>2. Reborn(r) BY <1>1, <1>4, <2>1, <3>1 DEF ToldInv, ToldOK
    <3> QED BY <1>1, <1>3, <1>4, <3>2 DEF Reborn
  <2> QED BY <1>2, <2>1 DEF ToldOK
<1>5. CASE mem' = NewStore
  <2>1. \A r \in Rows : mem'.events[r].ver = 0
    BY <1>5 DEF NewStore, EmptyStore, NoEvent
  <2>2. \A r \in Rows : Reborn(r)' BY <1>1, <1>3, <2>1 DEF Reborn
  <2> QED BY <1>2, <2>2 DEF ToldOK
<1> QED BY <1>4, <1>5 DEF Restart, Booted

LEMMA InitTold == Init => ToldInv
<1> SUFFICES ASSUME Init PROVE ToldInv OBVIOUS
<1>1. AckInv BY InitAcked
<1>2. ToldOK
  BY <1>1 DEF Init, ToldOK, AckInv, TypeInv, ExternalOK, NewStore
<1> QED BY <1>1, <1>2 DEF ToldInv

LEMMA NextTold == ToldInv /\ [Next]_vars => ToldInv'
<1> SUFFICES ASSUME ToldInv, [Next]_vars PROVE ToldInv' OBVIOUS
<1>1. AckInv' /\ TypeInv' BY NextAcked DEF ToldInv, AckInv
<1> SUFFICES ToldOK' BY <1>1 DEF ToldInv
<1>2. CASE Others BY <1>1, <1>2, OthersTold
<1>3. CASE Requests
  <2>1. UNCHANGED local BY <1>3 DEF Requests, BeginCreate, BeginUpdate, BeginDelete
  <2> QED BY <1>1, <2>1, StillTold DEF local, unpolled, poller, fetch
<1>4. CASE Writer
  BY <1>1, <1>4, SendingTold, StoringTold DEF Writer, Sending
<1>5. ASSUME NEW r \in Rows, RecordAlias(r) PROVE ToldOK' BY <1>1, <1>5, AliasTold
<1>6. CASE Poller BY <1>1, <1>6, PollerTold
<1>7. ASSUME NEW c \in Cals, FullDeadline(c) PROVE ToldOK'
  BY <1>1, <1>7, StillTold DEF FullDeadline, NoPersist, unwritten, poller, fetch
<1>8. CASE Restart BY <1>1, <1>8, RestartTold
<1>9. CASE UNCHANGED vars
  BY <1>1, <1>9, StillTold DEF vars, poller, fetch
<1> QED BY <1>2, <1>3, <1>4, <1>5, <1>6, <1>7, <1>8, <1>9 DEF Next

LEMMA ToldInvariant == Spec => []ToldInv
BY InitTold, NextTold, PTL DEF Spec

\* Whatever the poller had in flight and whenever the process restarted, a row
\* is never served older than the last write of it a client was told succeeded,
\* and a row whose deletion was acknowledged is not served again (CachedSource's
\* write-through and the generation guard of ReplaceCalendarEvents and
\* ApplyCalendarDelta) -- rows apart whose answer lapsed: an RSVP that was not
\* read back, or a write that no persist had saved when the process died.
THEOREM NeverOlder == Spec => []NeverOlderThanAcked
<1>1. ToldInv => NeverOlderThanAcked BY ToldInvGivesProperty
<1> QED BY <1>1, ToldInvariant, PTL

-----------------------------------------------------------------------------
(* The inductive invariant of MemorySound and DiskSound.                    *)

LogBound == \A r \in Rows : touched[r] <= clock[Cal[r]]
DeadOK == \A r \in Rows : Live(r) \/ proton[r] = NoEvent

CursorOK(st) == \A c \in Cals : st.cursor[c] <= clock[c]

BaseOK == base <= clock[cal] /\ (base # NoCursor => base >= mem.cursor[cal])

\* The position a snapshot leaves the calendar at.
Floor == IF base # NoCursor THEN base ELSE mem.cursor[cal]

DeltaOK ==
  pc \in {"get", "apply"} =>
    /\ base # NoCursor
    /\ pc = "apply" => need = {}
    /\ \A r \in RowsOf(cal) :
         IF r \in changed THEN r \in need \/ touched[r] > base \/ got[r] = proton[r]
         ELSE touched[r] <= mem.cursor[cal] \/ touched[r] > base

\* What a snapshot holds once the slices other than S were fetched.
Listed(r, S) ==
  IF Live(r) /\ proton[r].slice \in (1..NSlices) \ S THEN proton[r] ELSE NoEvent

ListOK ==
  pc \in {"list", "replace"} =>
    /\ pc = "replace" => slices = {}
    /\ \A r \in RowsOf(cal) : touched[r] > Floor \/ got[r] = Listed(r, slices)

FreshFetch == pc \in {"delta", "baseline"} => base = NoCursor /\ got = NoRows

\* Row r of the store st is right, or waits for a full snapshot, or has an entry
\* after position k.
Right(st, r, k) == Same(st.events[r], proton[r]) \/ r \in st.drift \/ touched[r] > k

MemRight == \A r \in Rows : Right(mem, r, Reached(mem, Cal[r]))
DiskRight == \A r \in Rows : Right(disk, r, disk.cursor[Cal[r]])

MirrorParts ==
  /\ LogBound /\ DeadOK
  /\ CursorOK(mem) /\ CursorOK(disk) /\ BaseOK
  /\ DeltaOK /\ ListOK /\ FreshFetch
  /\ MemRight /\ DiskRight

MirrorInv == TypeInv /\ MirrorParts

\* The effective cursor is never behind the stored one.
LEMMA ReachedBounds ==
  ASSUME TypeInv, BaseOK, NEW r \in Rows
  PROVE  /\ Reached(mem, Cal[r]) >= mem.cursor[Cal[r]]
         /\ Reached(mem, Cal[r]) \in Nat \cup {NoCursor}
BY CalAssumption DEF Reached, BaseOK, TypeInv, PollerOK, StoresOK, HStoreType, NoCursor

LEMMA MirrorInvGivesProperties == MirrorInv => MemorySound /\ DiskSound
<1> SUFFICES ASSUME MirrorInv PROVE MemorySound /\ DiskSound OBVIOUS
<1> USE DEF MirrorInv, MirrorParts
<1>1. ASSUME NEW r \in Rows, Stale(mem, r)
      PROVE  r \in mem.drift \/ Ahead(r, mem.cursor[Cal[r]])
  <2>1. touched[r] > Reached(mem, Cal[r]) \/ r \in mem.drift
    BY <1>1 DEF Stale, MemRight, Right
  <2>2. /\ touched[r] \in Nat /\ mem.cursor[Cal[r]] \in Nat \cup {NoCursor}
    BY CalAssumption DEF TypeInv, ExternalOK, StoresOK, HStoreType
  <2> QED BY <2>1, <2>2, ReachedBounds DEF Ahead, NoCursor
<1>2. DiskSound BY DEF DiskSound, MirrorSound, Stale, DiskRight, Right, Ahead
<1> QED BY <1>1, <1>2 DEF MemorySound, MirrorSound

-----------------------------------------------------------------------------
(* Proton moves.                                                            *)

\* Every row stays as it is or gets an entry past the log's last.
Moves ==
  /\ \A r \in Rows : \/ touched'[r] = touched[r] /\ proton'[r] = proton[r]
                     \/ touched'[r] > clock[Cal[r]] /\ touched'[r] >= touched[r]
  /\ \A c \in Cals : clock'[c] >= clock[c]

LEMMA PutMoves ==
  ASSUME TypeInv, LogBound, DeadOK, NEW r \in Rows, NEW s \in 0..NSlices, PutRow(r, s)
  PROVE  Moves /\ LogBound' /\ DeadOK'
<1> USE DEF TypeInv, ExternalOK
<1>1. Cal \in [Rows -> Cals] BY CalAssumption
<1>2. /\ clock' = [clock EXCEPT ![Cal[r]] = clock[Cal[r]] + 1]
      /\ touched' = [q \in Rows |-> IF q = r THEN clock[Cal[r]] + 1 ELSE touched[q]]
      /\ proton' = [proton EXCEPT ![r] = Written(r, s)]
  BY DEF PutRow, Logged
<1>3. Written(r, s).ver # 0 BY <1>1 DEF Written
<1>4. Moves BY <1>1, <1>2 DEF Moves, LogBound
<1>5. LogBound' BY <1>1, <1>2 DEF LogBound
<1>6. DeadOK' BY <1>2, <1>3 DEF DeadOK, Live
<1> QED BY <1>4, <1>5, <1>6

LEMMA DropMoves ==
  ASSUME TypeInv, LogBound, DeadOK, NEW c \in Cals, NEW R \in SUBSET RowsOf(c),
         DropRows(c, R)
  PROVE  Moves /\ LogBound' /\ DeadOK'
<1> USE DEF TypeInv, ExternalOK
<1>1. Cal \in [Rows -> Cals] BY CalAssumption
<1>2. /\ clock' = [clock EXCEPT ![c] = clock[c] + 1]
      /\ touched' = [q \in Rows |-> IF q \in R THEN clock[c] + 1 ELSE touched[q]]
      /\ proton' = [q \in Rows |-> IF q \in R THEN NoEvent ELSE proton[q]]
  BY DEF DropRows, Logged
<1>3. \A q \in R : Cal[q] = c BY DEF RowsOf
<1>4. Moves BY <1>1, <1>2, <1>3 DEF Moves, LogBound
<1>5. LogBound' BY <1>1, <1>2, <1>3 DEF LogBound
<1>6. DeadOK' BY <1>2 DEF DeadOK, Live
<1> QED BY <1>4, <1>5, <1>6

LEMMA OtherMoves ==
  ASSUME TypeInv, LogBound, DeadOK, NEW c \in Cals, ProtonOther(c)
  PROVE  Moves /\ LogBound' /\ DeadOK'
<1> USE DEF TypeInv, ExternalOK
<1>1. Cal \in [Rows -> Cals] BY CalAssumption
<1>2. clock' = [clock EXCEPT ![c] = clock[c] + 1] /\ touched' = touched /\ proton' = proton
  BY DEF ProtonOther, Logged
<1> QED BY <1>1, <1>2 DEF Moves, LogBound, DeadOK, Live

LEMMA StillMoves ==
  TypeInv /\ LogBound /\ DeadOK /\ UNCHANGED external => Moves /\ LogBound' /\ DeadOK'
BY CalAssumption DEF external, Moves, LogBound, DeadOK, Live, TypeInv, ExternalOK

\* A step that changes Proton and neither the stores nor the poller.
LEMMA MovesKeep ==
  ASSUME TypeInv, TypeInv', MirrorParts, Moves, LogBound', DeadOK',
         UNCHANGED <<mem, disk, poller>>
  PROVE  MirrorParts'
<1> USE DEF MirrorParts
<1>1. UNCHANGED <<pc, cal, base, changed, need, slices, got>> BY DEF poller, fetch
<1>t. /\ Cal \in [Rows -> Cals] /\ cal \in Cals /\ base \in Nat \cup {NoCursor}
      /\ clock \in [Cals -> Nat] /\ clock' \in [Cals -> Nat]
      /\ touched \in [Rows -> Nat] /\ touched' \in [Rows -> Nat]
      /\ mem.cursor \in [Cals -> Nat \cup {NoCursor}]
      /\ disk.cursor \in [Cals -> Nat \cup {NoCursor}]
  BY CalAssumption DEF TypeInv, PollerOK, ExternalOK, StoresOK, HStoreType
<1>2. CursorOK(mem)' /\ CursorOK(disk)' BY <1>t DEF CursorOK, Moves, NoCursor
<1>3. BaseOK' BY <1>1, <1>t DEF BaseOK, Moves, NoCursor
<1>4. /\ base <= clock[cal] /\ mem.cursor[cal] <= clock[cal]
      /\ \A r \in RowsOf(cal) : r \in Rows /\ Cal[r] = cal
  BY <1>t DEF BaseOK, CursorOK, RowsOf
<1>5. DeltaOK' BY <1>1, <1>t, <1>4 DEF DeltaOK, Moves, RowsOf, NoCursor
<1>6. ListOK'
  <2>1. Floor' = Floor /\ Floor <= clock[cal] /\ Floor \in Nat \cup {NoCursor}
    BY <1>1, <1>t, <1>4 DEF Floor
  <2>2. \A r \in Rows : proton'[r] = proton[r] => Listed(r, slices)' = Listed(r, slices)
    BY <1>1 DEF Listed, Live
  <2> QED BY <1>1, <1>t, <1>4, <2>1, <2>2 DEF ListOK, Moves, RowsOf, NoCursor
<1>7. FreshFetch' BY <1>1 DEF FreshFetch
<1>8. MemRight'
  <2> SUFFICES ASSUME NEW r \in Rows PROVE Right(mem, r, Reached(mem, Cal[r]))'
    BY DEF MemRight
  <2>1. Reached(mem, Cal[r])' = Reached(mem, Cal[r]) BY <1>1 DEF Reached
  <2>2. Reached(mem, Cal[r]) <= clock[Cal[r]]
    BY <1>t DEF Reached, BaseOK, CursorOK
  <2>3. Reached(mem, Cal[r]) \in Nat \cup {NoCursor} BY ReachedBounds
  <2>4. Right(mem, r, Reached(mem, Cal[r])) BY DEF MemRight
  <2> QED BY <1>t, <2>1, <2>2, <2>3, <2>4 DEF Right, Moves, NoCursor
<1>9. DiskRight'
  <2> SUFFICES ASSUME NEW r \in Rows PROVE Right(disk, r, disk.cursor[Cal[r]])'
    BY DEF DiskRight
  <2>1. disk.cursor[Cal[r]] <= clock[Cal[r]] BY <1>t DEF CursorOK
  <2>2. Right(disk, r, disk.cursor[Cal[r]]) BY DEF DiskRight
  <2> QED BY <1>t, <2>1, <2>2 DEF Right, Moves, NoCursor
<1> QED BY <1>2, <1>3, <1>5, <1>6, <1>7, <1>8, <1>9

-----------------------------------------------------------------------------
(* The clients' side.                                                       *)

LEMMA OthersMirrored ==
  ASSUME TypeInv, TypeInv', MirrorParts, Others
  PROVE  MirrorParts'
<1>1. Moves /\ LogBound' /\ DeadOK'
  <2>1. ASSUME NEW r \in Rows, ProtonPut(r) PROVE Moves /\ LogBound' /\ DeadOK'
    BY <2>1, PutMoves DEF ProtonPut, MirrorParts
  <2>2. ASSUME NEW r \in Rows, ProtonDelete(r) PROVE Moves /\ LogBound' /\ DeadOK'
    <3>1. Cal[r] \in Cals /\ {r} \in SUBSET RowsOf(Cal[r])
      BY CalAssumption DEF RowsOf
    <3> QED BY <2>2, <3>1, DropMoves DEF ProtonDelete, MirrorParts
  <2>3. ASSUME NEW c \in Cals, ProtonOther(c) PROVE Moves /\ LogBound' /\ DeadOK'
    BY <2>3, OtherMoves DEF MirrorParts
  <2> QED BY <2>1, <2>2, <2>3 DEF Others
<1>2. UNCHANGED <<mem, disk, poller>>
  BY DEF Others, ProtonPut, ProtonDelete, ProtonOther, internal
<1> QED BY <1>1, <1>2, MovesKeep

LEMMA RequestsMirrored ==
  ASSUME TypeInv, TypeInv', MirrorParts, Requests
  PROVE  MirrorParts'
<1>1. UNCHANGED <<external, mem, disk, poller>>
  BY DEF Requests, BeginCreate, BeginUpdate, BeginDelete, local, unpolled
<1> QED BY <1>1, StillMoves, MovesKeep DEF MirrorParts

LEMMA SendingMirrored ==
  ASSUME TypeInv, TypeInv', MirrorParts, Sending
  PROVE  MirrorParts'
<1>0. UNCHANGED <<mem, disk, poller>> BY SendingFrame DEF unpolled
<1>w. w.pc # "idle" => w.row \in Rows BY DEF TypeInv, WriteOK
<1>m. LogBound /\ DeadOK BY DEF MirrorParts
<1>1. ASSUME NEW r \in Rows, SendCreate(r) PROVE Moves /\ LogBound' /\ DeadOK'
  BY <1>1, <1>m, PutMoves DEF SendCreate
<1>2. ASSUME SendUpdate PROVE Moves /\ LogBound' /\ DeadOK'
  <2>1. w.row \in Rows BY <1>w, <1>2 DEF SendUpdate
  <2>2. PICK s \in 0..NSlices : PutRow(w.row, s)
    BY <1>2, <2>1 DEF SendUpdate, TypeInv, ExternalOK, Event
  <2> QED BY <1>m, <2>1, <2>2, PutMoves
<1>3. ASSUME SendDelete PROVE Moves /\ LogBound' /\ DeadOK'
  <2>1. w.row \in Rows BY <1>w, <1>3 DEF SendDelete
  <2>2. PICK targets \in SUBSET Siblings(w.row) : DropRows(Cal[w.row], targets)
    BY <1>3, <2>1, SiblingsFacts DEF SendDelete
  <2>3. targets \in SUBSET RowsOf(Cal[w.row]) /\ Cal[w.row] \in Cals
    BY <2>1, CalAssumption DEF Siblings
  <2> QED BY <1>m, <2>2, <2>3, DropMoves
<1>4. CASE UNCHANGED external BY <1>0, <1>4, <1>m, StillMoves, MovesKeep
<1>5. CASE RecheckFound \/ RecheckPassed \/ SendFails \/ SendDeleteNotFound \/ Reread
           \/ RereadFails \/ RsvpUnread
  BY <1>4, <1>5 DEF RecheckFound, RecheckPassed, SendFails, SendDeleteNotFound, Reread,
                    RereadFails, RsvpUnread, local
<1> QED BY <1>0, <1>1, <1>2, <1>3, <1>5, MovesKeep DEF Sending

\* A step of the clients' side that changes the store and leaves the cursors alone.
LEMMA StoreStep ==
  ASSUME TypeInv, TypeInv', MirrorParts, UNCHANGED <<external, poller>>,
         mem'.cursor = mem.cursor, disk' \in {disk, mem'},
         \A r \in Rows : Right(mem', r, Reached(mem, Cal[r]))
  PROVE  MirrorParts'
<1> USE DEF MirrorParts
<1>1. UNCHANGED <<proton, touched, clock, pc, cal, base, changed, need, slices, got>>
  BY DEF external, poller, fetch
<1>2. LogBound' /\ DeadOK' /\ FreshFetch' /\ BaseOK' /\ DeltaOK'
  BY <1>1 DEF LogBound, DeadOK, Live, FreshFetch, BaseOK, DeltaOK, RowsOf
<1>3. ListOK' BY <1>1 DEF ListOK, Floor, Listed, Live, RowsOf
<1>4. CursorOK(mem)' /\ CursorOK(disk)' BY <1>1 DEF CursorOK
<1>5. MemRight' BY <1>1 DEF MemRight, Reached, Right, Same
<1>6. DiskRight'
  <2>1. CASE disk' = disk BY <1>1, <2>1 DEF DiskRight, Right, Same
  <2>2. CASE disk' = mem'
    <3> SUFFICES ASSUME NEW r \in Rows PROVE Right(mem', r, mem'.cursor[Cal[r]])
      BY <1>1, <2>2 DEF DiskRight, Right, Same
    <3>1. Right(mem', r, Reached(mem, Cal[r])) OBVIOUS
    <3>2. /\ touched[r] \in Nat /\ mem.cursor[Cal[r]] \in Nat \cup {NoCursor}
          /\ Reached(mem, Cal[r]) \in Nat \cup {NoCursor}
          /\ Reached(mem, Cal[r]) >= mem.cursor[Cal[r]]
      BY ReachedBounds, CalAssumption DEF TypeInv, ExternalOK, StoresOK, HStoreType
    <3> QED BY <3>1, <3>2 DEF Right, NoCursor
  <2> QED BY <2>1, <2>2
<1> QED BY <1>2, <1>3, <1>4, <1>5, <1>6

\* A write-through accounts for the rows of R it left different from Proton.
LEMMA DriftAccounts ==
  ASSUME TypeInv, NEW st \in HStoreType, NEW R, st.cursor = mem.cursor,
         \A r \in Rows \ R : Right(st, r, Reached(mem, Cal[r])),
         NEW t, t.events = st.events, t.drift = WithDrift(st, R).drift
  PROVE  \A r \in Rows : Right(t, r, Reached(mem, Cal[r]))
<1> SUFFICES ASSUME NEW r \in Rows PROVE Right(t, r, Reached(mem, Cal[r])) OBVIOUS
<1>1. r \in t.drift <=> IF r \in R THEN Stale(st, r) /\ ~Ahead(r, Reached(st, Cal[r]))
                        ELSE r \in st.drift
  BY DEF WithDrift, HStoreType
<1>2. Reached(st, Cal[r]) = Reached(mem, Cal[r]) BY DEF Reached
<1> QED BY <1>1, <1>2 DEF Right, Stale, Ahead

LEMMA StoringMirrored ==
  ASSUME TypeInv, TypeInv', MirrorParts, WriteThrough \/ WriteThroughDelete
  PROVE  MirrorParts'
<1>0. /\ w.row \in Rows /\ w.value \in Event /\ mem \in HStoreType
      /\ touched \in [Rows -> Nat] /\ Cal[w.row] \in Cals
  BY CalAssumption DEF TypeInv, WriteOK, WriteType, StoresOK, ExternalOK, WriteThrough,
                       WriteThroughDelete
<1>1. UNCHANGED <<external, poller>> BY DEF WriteThrough, WriteThroughDelete, unpolled
<1>2. \A r \in Rows : Right(mem, r, Reached(mem, Cal[r])) BY DEF MirrorParts, MemRight
<1>3. CASE WriteThrough
  <2> DEFINE u == UpsertEvent(mem, w.row, w.value)
             v == WithDrift(u, {w.row})
             st == [v EXCEPT !.acked = [mem.acked EXCEPT ![w.row] = w.value.ver]]
  <2>1. u \in HStoreType BY <1>0, WriteTyped
  <2>2. /\ \A q \in Rows : u.events[q] = IF q = w.row THEN w.value ELSE mem.events[q]
        /\ \A o \in Cals : u.gen[o] = IF o = Cal[w.row] THEN mem.gen[o] + 1 ELSE mem.gen[o]
        /\ u.cursor = mem.cursor /\ u.drift = mem.drift
    BY <1>0, UpsertFacts
  <2>3. Persist(st) BY <1>3 DEF WriteThrough
  <2> HIDE DEF u
  <2>4. v \in HStoreType /\ v.events = u.events /\ v.cursor = u.cursor
    BY <1>0, <2>1, HistoryTyped, DriftFacts DEF SameServed
  <2>5. st.events = v.events /\ st.cursor = v.cursor /\ st.drift = v.drift
    BY <2>4 DEF HStoreType
  <2>6. st.drift = WithDrift(u, {w.row}).drift BY <2>5
  <2> HIDE DEF v, st
  <2>7. \A r \in Rows \ {w.row} : Right(u, r, Reached(mem, Cal[r]))
    BY <1>0, <1>2, <2>2 DEF Right, HStoreType
  <2>8. \A r \in Rows : Right(st, r, Reached(mem, Cal[r]))
    BY <2>1, <2>2, <2>4, <2>5, <2>6, <2>7, DriftAccounts
  <2>9. mem' = st /\ disk' \in {disk, mem'} BY <2>3 DEF Persist
  <2> QED BY <1>1, <2>2, <2>4, <2>5, <2>8, <2>9, StoreStep
<1>4. CASE WriteThroughDelete
  <2> DEFINE gone == IF w.group THEN {s \in Siblings(w.row) : Known(mem, s)} ELSE {w.row}
             u == Bump(Forget(mem, gone), Cal[w.row])
             v == WithDrift(u, Siblings(w.row))
             R == IF w.group THEN w.gone ELSE {w.row}
             V == IF w.group THEN Siblings(w.row) ELSE {}
             st == WithAck(v, R, V)
  <2>1. u = IF w.group THEN DeleteEventsByUID(mem, w.row) ELSE DeleteEvent(mem, w.row)
    BY DEF DeleteEventsByUID, DeleteEvent
  <2>2. Persist(st) BY <1>4, <2>1 DEF WriteThroughDelete
  <2>3. u \in HStoreType BY <1>0, ForgetTyped, BumpTyped
  <2>4. /\ \A q \in Rows : u.events[q] = IF q \in gone THEN NoEvent ELSE mem.events[q]
        /\ \A o \in Cals : u.gen[o] = IF o = Cal[w.row] THEN mem.gen[o] + 1 ELSE mem.gen[o]
        /\ u.cursor = mem.cursor /\ u.drift = mem.drift
    <3> HIDE DEF gone
    <3>1. u = Bump(Forget(mem, gone), Cal[w.row]) OBVIOUS
    <3> HIDE DEF u
    <3> QED BY <1>0, <3>1, ForgetFacts
  <2> HIDE DEF u
  <2>5. v \in HStoreType /\ v.events = u.events /\ v.cursor = u.cursor
    BY <1>0, <2>3, HistoryTyped, DriftFacts DEF SameServed
  <2>6. st.events = v.events /\ st.cursor = v.cursor /\ st.drift = v.drift
    <3> HIDE DEF v, R, V
    <3> QED BY <2>5 DEF WithAck, HStoreType
  <2>7. st.drift = WithDrift(u, Siblings(w.row)).drift BY <2>6
  <2>8. gone \subseteq Siblings(w.row) BY <1>0, SiblingsFacts
  <2> HIDE DEF v, st, gone, R, V
  <2>9. \A r \in Rows \ Siblings(w.row) : Right(u, r, Reached(mem, Cal[r]))
    BY <1>2, <2>4, <2>8 DEF Right
  <2>10. \A r \in Rows : Right(st, r, Reached(mem, Cal[r]))
    BY <2>3, <2>4, <2>5, <2>6, <2>7, <2>9, DriftAccounts
  <2>11. mem' = st /\ disk' \in {disk, mem'} BY <2>2 DEF Persist
  <2> QED BY <1>1, <2>4, <2>5, <2>6, <2>10, <2>11, StoreStep
<1> QED BY <1>3, <1>4

LEMMA AliasMirrored ==
  ASSUME TypeInv, TypeInv', MirrorParts, NEW r \in Rows, RecordAlias(r)
  PROVE  MirrorParts'
<1>1. UNCHANGED <<external, poller>> BY DEF RecordAlias, unpolled
<1>2. /\ mem'.events = mem.events /\ mem'.drift = mem.drift /\ mem'.cursor = mem.cursor
      /\ disk' \in {disk, mem'}
  BY DEF RecordAlias, Persist, NoPersist, SetAlias, TypeInv, StoresOK, HStoreType
<1>3. \A q \in Rows : Right(mem', q, Reached(mem, Cal[q]))
  BY <1>2 DEF MirrorParts, MemRight, Right
<1> QED BY <1>1, <1>2, <1>3, StoreStep

-----------------------------------------------------------------------------
(* The poller.                                                              *)

SameMirror(a, b) == a.events = b.events /\ a.drift = b.drift /\ a.cursor = b.cursor

\* A step that leaves the mirror as it is, away from "setcursor".
LEMMA QuietMirror ==
  ASSUME TypeInv, TypeInv', MirrorParts, UNCHANGED external, SameMirror(mem', mem),
         disk' \in {disk, mem'}, pc # "setcursor", pc' # "setcursor",
         BaseOK', DeltaOK', ListOK', FreshFetch'
  PROVE  MirrorParts'
<1> USE DEF MirrorParts, SameMirror
<1>1. UNCHANGED <<proton, touched, clock>> BY DEF external
<1>2. LogBound' /\ DeadOK' BY <1>1 DEF LogBound, DeadOK, Live
<1>3. CursorOK(mem)' /\ CursorOK(disk)' BY <1>1 DEF CursorOK
<1>4. MemRight' BY <1>1 DEF MemRight, Reached, Right, Same
<1>5. DiskRight'
  <2>1. \A r \in Rows : Right(mem, r, mem.cursor[Cal[r]]) BY DEF MemRight, Reached
  <2> QED BY <1>1, <2>1 DEF DiskRight, Right, Same
<1> QED BY <1>2, <1>3, <1>4, <1>5

\* Outside a fetch there is nothing to say of it.
LEMMA NoFetch ==
  pc' \in {"idle", "next", "setcursor"} => DeltaOK' /\ ListOK' /\ FreshFetch'
BY DEF DeltaOK, ListOK, FreshFetch

LEMMA NoBase ==
  ASSUME TypeInv', base' = NoCursor
  PROVE  BaseOK'
BY DEF TypeInv, PollerOK, ExternalOK, BaseOK, NoCursor

LEMMA SameBase ==
  ASSUME BaseOK, UNCHANGED <<external, base, cal>>, mem'.cursor = mem.cursor
  PROVE  BaseOK'
BY DEF BaseOK, external

LEMMA MirrorListed ==
  ASSUME TypeInv, MirrorParts, NEW cs,
         SameMirror(mem', mem) \/ mem' = ReplaceCalendars(mem, cs) \/ mem' = MarkSynced(mem)
  PROVE  SameMirror(mem', mem)
BY DEF ReplaceCalendars, MarkSynced, SameMirror, TypeInv, StoresOK, HStoreType

LEMMA CycleMirrored ==
  ASSUME TypeInv, TypeInv', MirrorParts,
         \/ CycleAborts \/ CycleStarts \/ CycleEnds
         \/ \E cs \in SUBSET Cals : CycleStartsOnBlip(cs)
  PROVE  MirrorParts'
<1>1. UNCHANGED external /\ UNCHANGED fetch
  BY DEF CycleAborts, CycleStarts, CycleStartsOnBlip, CycleEnds, unwritten
<1>2. SameMirror(mem', mem) /\ disk' \in {disk, mem'}
  <2>1. /\ \/ UNCHANGED mem \/ (\E cs : mem' = ReplaceCalendars(mem, cs))
           \/ mem' = MarkSynced(mem)
        /\ disk' \in {disk, mem'}
    BY DEF CycleAborts, CycleStarts, CycleStartsOnBlip, CycleEnds, Persist, NoPersist
  <2> QED BY <2>1, MirrorListed DEF SameMirror
<1>3. pc \in {"idle", "next"} /\ pc' \in {"idle", "next"}
  BY DEF CycleAborts, CycleStarts, CycleStartsOnBlip, CycleEnds, EndCycle
<1>4. BaseOK' BY <1>1, <1>2, SameBase DEF fetch, SameMirror, MirrorParts
<1> QED BY <1>1, <1>2, <1>3, <1>4, NoFetch, QuietMirror

LEMMA FetchMirrored ==
  ASSUME TypeInv, TypeInv', MirrorParts,
         \/ (\E c \in Cals : NextCalendar(c)) \/ FetchFails \/ SnapshotRefused
         \/ DeltaPages \/ DeltaRefresh \/ (\E r \in Rows : DeltaGet(r))
         \/ Baseline \/ (\E s \in 1..NSlices : ListSlice(s))
  PROVE  MirrorParts'
<1>u. UNCHANGED <<external, mem, disk>>
  BY DEF NextCalendar, FetchFails, SnapshotRefused, DeltaPages, DeltaRefresh, DeltaGet,
         Baseline, ListSlice, unwritten, NoPersist
<1>q. ASSUME pc # "setcursor", pc' # "setcursor", BaseOK', DeltaOK', ListOK', FreshFetch'
      PROVE  MirrorParts'
  BY <1>u, <1>q, QuietMirror DEF SameMirror
<1>t. /\ cal \in Cals /\ base \in Nat \cup {NoCursor} /\ got \in [Rows -> Event]
      /\ clock \in [Cals -> Nat] /\ touched \in [Rows -> Nat]
      /\ mem.cursor \in [Cals -> Nat \cup {NoCursor}]
      /\ changed \subseteq RowsOf(cal) /\ slices \subseteq 1..NSlices
      /\ UNCHANGED <<proton, touched, clock>>
  BY <1>u DEF TypeInv, PollerOK, ExternalOK, StoresOK, HStoreType, external
<1>p. /\ BaseOK /\ DeltaOK /\ ListOK /\ FreshFetch /\ DeadOK /\ LogBound
      /\ mem.cursor[cal] <= clock[cal]
  BY <1>t DEF MirrorParts, CursorOK
<1>1. ASSUME NEW c \in Cals, NextCalendar(c) PROVE MirrorParts'
  <2>1. pc' \in {"delta", "baseline"} /\ base' = NoCursor /\ got' = NoRows
    BY <1>1 DEF NextCalendar
  <2>2. DeltaOK' /\ ListOK' /\ FreshFetch' BY <2>1 DEF DeltaOK, ListOK, FreshFetch
  <2> QED BY <1>1, <1>q, <2>1, <2>2, NoBase DEF NextCalendar
<1>2. CASE FetchFails \/ SnapshotRefused
  BY <1>2, <1>q, NoBase, NoFetch DEF FetchFails, SnapshotRefused, CalendarDone
<1>3. CASE DeltaPages
  <2>1. /\ base' = clock[cal] /\ UNCHANGED <<cal, got, mem>> /\ pc = "delta"
        /\ changed' = {r \in RowsOf(cal) : Ahead(r, mem.cursor[cal])}
        /\ need' = {r \in changed' : Live(r)}
        /\ pc' = IF need' = {} THEN "apply" ELSE "get"
    BY <1>3, <1>u DEF DeltaPages
  <2>2. BaseOK' BY <1>t, <1>p, <2>1 DEF BaseOK, NoCursor
  <2>3. DeltaOK'
    <3>1. base' # NoCursor BY <1>t, <2>1 DEF NoCursor
    <3>2. ASSUME NEW r \in RowsOf(cal), r \in changed'
          PROVE  r \in need' \/ got'[r] = proton'[r]
      <4>1. got = NoRows /\ r \in Rows BY <1>p, <2>1 DEF FreshFetch, RowsOf
      <4> QED BY <1>t, <1>p, <2>1, <3>2, <4>1 DEF DeadOK, NoRows
    <3>3. ASSUME NEW r \in RowsOf(cal), r \notin changed'
          PROVE  touched'[r] <= mem'.cursor[cal']
      BY <1>t, <2>1, <3>3 DEF Ahead, RowsOf, NoCursor
    <3> QED BY <2>1, <3>1, <3>2, <3>3 DEF DeltaOK, RowsOf
  <2>4. ListOK' /\ FreshFetch' BY <2>1 DEF ListOK, FreshFetch
  <2> QED BY <1>q, <2>1, <2>2, <2>3, <2>4
<1>4. CASE DeltaRefresh
  <2>1. pc = "delta" /\ pc' = "baseline" /\ UNCHANGED <<cal, base, got>>
    BY <1>4 DEF DeltaRefresh, fetch
  <2>2. FreshFetch' BY <1>p, <2>1 DEF FreshFetch
  <2>3. BaseOK' BY <1>p, <1>u, <2>1, SameBase
  <2> QED BY <1>q, <2>1, <2>2, <2>3 DEF DeltaOK, ListOK
<1>5. ASSUME NEW r \in Rows, DeltaGet(r) PROVE MirrorParts'
  <2>1. /\ pc = "get" /\ got' = [got EXCEPT ![r] = proton[r]] /\ need' = need \ {r}
        /\ pc' = IF need' = {} THEN "apply" ELSE "get"
        /\ UNCHANGED <<cal, base, changed, mem>>
    BY <1>5, <1>u DEF DeltaGet
  <2>2. DeltaOK' BY <1>t, <1>p, <2>1 DEF DeltaOK, RowsOf
  <2>3. BaseOK' BY <1>p, <1>u, <2>1, SameBase
  <2> QED BY <1>q, <2>1, <2>2, <2>3 DEF ListOK, FreshFetch
<1>6. CASE Baseline
  <2>1. /\ pc = "baseline" /\ pc' = "list" /\ slices' = 1..NSlices
        /\ base' \in {clock[cal], NoCursor} /\ UNCHANGED <<cal, got, mem>>
    BY <1>6, <1>u DEF Baseline
  <2>2. BaseOK' BY <1>t, <1>p, <2>1 DEF BaseOK, NoCursor
  <2>3. \A r \in RowsOf(cal) : got'[r] = Listed(r, slices)'
    BY <1>p, <2>1 DEF FreshFetch, NoRows, RowsOf, Listed
  <2> QED BY <1>q, <2>1, <2>2, <2>3 DEF ListOK, DeltaOK, FreshFetch, RowsOf
<1>7. ASSUME NEW s \in 1..NSlices, ListSlice(s) PROVE MirrorParts'
  <2>1. /\ pc = "list" /\ s \in slices /\ slices' = slices \ {s}
        /\ pc' = IF slices' = {} THEN "replace" ELSE "list"
        /\ UNCHANGED <<cal, base, mem, proton, touched>>
        /\ got' = [r \in Rows |->
                     IF r \in RowsOf(cal) /\ Live(r) /\ proton[r].slice = s
                          /\ (got[r].ver = 0 \/ s < got[r].slice)
                     THEN proton[r] ELSE got[r]]
    BY <1>7, <1>u, <1>t DEF ListSlice
  <2>2. BaseOK' BY <1>p, <1>u, <2>1, SameBase
  <2>3. Floor' = Floor BY <2>1 DEF Floor
  <2>4. ASSUME NEW r \in RowsOf(cal), got[r] = Listed(r, slices)
        PROVE  got'[r] = Listed(r, slices)'
    <3>1. r \in Rows BY DEF RowsOf
    <3>2. Listed(r, slices)' = IF Live(r) /\ proton[r].slice \in (1..NSlices) \ slices'
                               THEN proton[r] ELSE NoEvent
      BY <2>1 DEF Listed, Live
    <3>3. CASE Live(r) /\ proton[r].slice = s
      <4>1. got[r] = NoEvent BY <2>1, <2>4, <3>3 DEF Listed
      <4> QED BY <2>1, <3>1, <3>2, <3>3, <4>1 DEF NoEvent
    <3>4. CASE ~(Live(r) /\ proton[r].slice = s)
      <4>1. got'[r] = got[r] BY <2>1, <3>1, <3>4
      <4> QED BY <2>1, <2>4, <3>2, <3>4, <4>1 DEF Listed
    <3> QED BY <3>3, <3>4
  <2>5. ListOK' BY <1>p, <2>1, <2>3, <2>4 DEF ListOK, RowsOf
  <2> QED BY <1>q, <2>1, <2>2, <2>5 DEF DeltaOK, FreshFetch
<1> QED BY <1>1, <1>2, <1>3, <1>4, <1>5, <1>6, <1>7

\* The three steps that apply what was fetched: mem' is right up to its cursors,
\* and a persist that succeeds leaves the disk so.
LEMMA ApplyStep ==
  ASSUME TypeInv, TypeInv', MirrorParts, UNCHANGED external, disk' \in {disk, mem'},
         pc' \in {"next", "setcursor"}, BaseOK', CursorOK(mem'),
         \A r \in Rows : Right(mem', r, Reached(mem, Cal[r])')
  PROVE  MirrorParts'
<1> USE DEF MirrorParts
<1>1. UNCHANGED <<proton, touched, clock>> BY DEF external
<1>2. LogBound' /\ DeadOK' BY <1>1 DEF LogBound, DeadOK, Live
<1>3. CursorOK(mem)' /\ CursorOK(disk)' BY <1>1 DEF CursorOK
<1>4. MemRight' BY <1>1 DEF MemRight, Right, Same
<1>5. DiskRight'
  <2>1. CASE disk' = disk BY <1>1, <2>1 DEF DiskRight, Right, Same
  <2>2. CASE disk' = mem'
    <3> SUFFICES ASSUME NEW r \in Rows PROVE Right(mem', r, mem'.cursor[Cal[r]])
      BY <1>1, <2>2 DEF DiskRight, Right, Same
    <3>1. Right(mem', r, Reached(mem, Cal[r])') OBVIOUS
    <3>2. /\ Reached(mem, Cal[r])' >= mem'.cursor[Cal[r]]
          /\ Reached(mem, Cal[r])' \in Nat \cup {NoCursor}
      BY CalAssumption DEF Reached, BaseOK, TypeInv, PollerOK, StoresOK, HStoreType, NoCursor
    <3>3. touched[r] \in Nat /\ mem'.cursor[Cal[r]] \in Nat \cup {NoCursor}
      BY CalAssumption DEF TypeInv, ExternalOK, StoresOK, HStoreType
    <3> QED BY <3>1, <3>2, <3>3 DEF Right, NoCursor
  <2> QED BY <2>1, <2>2
<1> QED BY <1>2, <1>3, <1>4, <1>5, NoFetch

LEMMA DeltaMirrored ==
  ASSUME TypeInv, TypeInv', MirrorParts, DeltaApply
  PROVE  MirrorParts'
<1>u. UNCHANGED external BY DEF DeltaApply, unwritten
<1>t. /\ mem \in HStoreType /\ mem.cursor \in [Cals -> Nat \cup {NoCursor}]
      /\ touched \in [Rows -> Nat] /\ cal \in Cals /\ base \in Nat \cup {NoCursor}
      /\ got \in [Rows -> Event] /\ changed \subseteq RowsOf(cal)
      /\ clock \in [Cals -> Nat] /\ Cal \in [Rows -> Cals]
  BY CalAssumption DEF TypeInv, PollerOK, ExternalOK, StoresOK, HStoreType
<1>p. /\ pc = "apply" /\ pc' = "next" /\ base' = NoCursor /\ base # NoCursor /\ need = {}
      /\ base <= clock[cal] /\ CursorOK(mem)
      /\ \A r \in Rows : Right(mem, r, mem.cursor[Cal[r]])
      /\ \A r \in RowsOf(cal) :
           IF r \in changed THEN touched[r] > base \/ got[r] = proton[r]
           ELSE touched[r] <= mem.cursor[cal] \/ touched[r] > base
  BY DEF DeltaApply, CalendarDone, MirrorParts, DeltaOK, MemRight, Reached, BaseOK
<1>b. BaseOK' BY <1>p, NoBase
<1>1. CASE NoPersist
  <2>1. SameMirror(mem', mem) /\ disk' \in {disk, mem'} BY <1>1 DEF NoPersist, SameMirror
  <2> QED BY <1>u, <1>p, <1>b, <2>1, NoFetch, QuietMirror
<1>2. CASE Persist(WithoutDrift(ApplyCalendarDelta(mem, cal, changed, got, base), changed))
  <2> DEFINE a == ApplyCalendarDelta(mem, cal, changed, got, base)
             st == WithoutDrift(a, changed)
  <2>1. a \in HStoreType BY <1>t, ApplyTyped
  <2>2. /\ a.events = [r \in Rows |-> IF r \in changed THEN got[r] ELSE mem.events[r]]
        /\ a.gen = mem.gen /\ a.acked = mem.acked
        /\ \A o \in Cals : a.cursor[o] = IF o = cal THEN base ELSE mem.cursor[o]
        /\ a.drift = mem.drift
    BY <1>t, DeltaFacts
  <2> HIDE DEF a
  <2>3. st.events = a.events /\ st.cursor = a.cursor /\ st.drift = a.drift \ changed
    BY <2>1, DriftFacts DEF SameServed
  <2>4. mem' = st /\ disk' \in {disk, mem'} BY <1>2 DEF Persist, a
  <2> HIDE DEF st
  <2>5. CursorOK(mem') BY <1>p, <1>t, <2>2, <2>3, <2>4 DEF CursorOK
  <2>6. ASSUME NEW r \in Rows PROVE Right(mem', r, mem'.cursor[Cal[r]])
    <3>1. CASE r \notin RowsOf(cal)
      <4>1. r \notin changed /\ Cal[r] # cal BY <1>t, <3>1 DEF RowsOf
      <4> QED BY <1>p, <1>t, <2>2, <2>3, <2>4, <4>1 DEF Right
    <3>2. CASE r \in RowsOf(cal) /\ r \in changed
      <4>1. Cal[r] = cal /\ mem'.cursor[cal] = base /\ mem'.events[r] = got[r]
        BY <1>t, <2>2, <2>3, <2>4, <3>2 DEF RowsOf
      <4> QED BY <1>p, <3>2, <4>1 DEF Right, Same
    <3>3. CASE r \in RowsOf(cal) /\ r \notin changed
      <4>1. /\ Cal[r] = cal /\ mem'.cursor[cal] = base /\ mem'.events[r] = mem.events[r]
            /\ r \in mem.drift => r \in mem'.drift
        BY <1>t, <2>2, <2>3, <2>4, <3>3 DEF RowsOf
      <4>2. mem.cursor[cal] \in Nat \cup {NoCursor} /\ touched[r] \in Nat BY <1>t
      <4> QED BY <1>p, <3>3, <4>1, <4>2 DEF Right, NoCursor
    <3> QED BY <3>1, <3>2, <3>3
  <2>7. \A r \in Rows : Right(mem', r, Reached(mem, Cal[r])')
    BY <1>p, <2>6 DEF Reached
  <2> QED BY <1>u, <1>p, <1>b, <2>4, <2>5, <2>7, ApplyStep
<1> QED BY <1>1, <1>2 DEF DeltaApply

LEMMA ReplaceMirrored ==
  ASSUME TypeInv, TypeInv', MirrorParts, SnapshotReplace
  PROVE  MirrorParts'
<1>u. UNCHANGED external /\ UNCHANGED fetch BY DEF SnapshotReplace, unwritten
<1>t. /\ mem \in HStoreType /\ cal \in Cals /\ got \in [Rows -> Event]
      /\ proton \in [Rows -> Event] /\ Cal \in [Rows -> Cals]
  BY CalAssumption DEF TypeInv, PollerOK, StoresOK, ExternalOK
<1>p. /\ pc = "replace" /\ pc' = "setcursor" /\ slices = {}
      /\ DeadOK /\ BaseOK /\ CursorOK(mem)
      /\ \A r \in Rows : Right(mem, r, mem.cursor[Cal[r]])
      /\ \A r \in RowsOf(cal) : touched[r] > Floor \/ got[r] = Listed(r, {})
  BY DEF SnapshotReplace, MirrorParts, ListOK, MemRight, Reached
<1> DEFINE a == ReplaceCalendarEvents(mem, cal, got)
           st == WithoutDrift(a, RowsOf(cal))
<1>1. a \in HStoreType BY <1>t, ApplyTyped
<1>2. /\ a.events = [r \in Rows |-> IF r \in RowsOf(cal) THEN got[r] ELSE mem.events[r]]
      /\ a.gen = mem.gen /\ a.acked = mem.acked
      /\ a.cursor = mem.cursor /\ a.drift = mem.drift
  BY <1>t, ReplaceFacts
<1>3. mem' = st /\ disk' \in {disk, mem'} BY DEF SnapshotReplace, Persist
<1> HIDE DEF a
<1>4. st.events = a.events /\ st.cursor = a.cursor /\ st.drift = a.drift \ RowsOf(cal)
  BY <1>1, DriftFacts DEF SameServed
<1> HIDE DEF st
<1>5. BaseOK' BY <1>u, <1>p, <1>2, <1>3, <1>4, SameBase DEF fetch
<1>6. CursorOK(mem') BY <1>p, <1>2, <1>3, <1>4 DEF CursorOK
<1>7. ASSUME NEW r \in Rows PROVE Right(mem', r, Reached(mem, Cal[r])')
  <2>1. CASE r \in RowsOf(cal)
    <3>1. Reached(mem, Cal[r])' = Floor
      BY <1>p, <1>u, <1>2, <1>3, <1>4, <2>1 DEF Reached, Floor, RowsOf, fetch
    <3>2. mem'.events[r] = got[r] BY <1>2, <1>3, <1>4, <2>1
    <3>3. Same(Listed(r, {}), proton[r])
      <4>1. CASE Live(r) /\ proton[r].slice \in 1..NSlices BY <4>1 DEF Listed, Same
      <4>2. CASE Live(r) /\ proton[r].slice \notin 1..NSlices
        <5>1. proton[r].slice = Outside
          BY <1>t, <4>2, NSlicesAssumption DEF Event, Outside
        <5> QED BY <4>2, <5>1 DEF Listed, Same, NoEvent
      <4>3. CASE ~Live(r) BY <1>p, <4>3 DEF DeadOK, Listed, Same
      <4> QED BY <4>1, <4>2, <4>3
    <3> QED BY <1>p, <2>1, <3>1, <3>2, <3>3 DEF Right
  <2>2. CASE r \notin RowsOf(cal)
    <3>1. Cal[r] # cal /\ mem'.events[r] = mem.events[r] /\ mem'.cursor = mem.cursor
          /\ (r \in mem.drift => r \in mem'.drift)
      BY <1>2, <1>3, <1>4, <2>2 DEF RowsOf
    <3>2. Reached(mem, Cal[r])' = mem.cursor[Cal[r]]
      BY <1>u, <3>1 DEF Reached, fetch
    <3> QED BY <1>p, <3>1, <3>2 DEF Right
  <2> QED BY <2>1, <2>2
<1> QED BY <1>u, <1>p, <1>3, <1>5, <1>6, <1>7, ApplyStep

LEMMA SetCursorMirrored ==
  ASSUME TypeInv, TypeInv', MirrorParts, SnapshotSetCursor
  PROVE  MirrorParts'
<1>u. UNCHANGED external BY DEF SnapshotSetCursor, unwritten
<1>t. /\ mem \in HStoreType /\ cal \in Cals /\ Cal \in [Rows -> Cals]
      /\ base \in Nat \cup {NoCursor}
  BY CalAssumption DEF TypeInv, PollerOK, StoresOK
<1>p. /\ pc = "setcursor" /\ pc' = "next" /\ base' = NoCursor
      /\ BaseOK /\ CursorOK(mem)
      /\ \A r \in Rows : Right(mem, r, Reached(mem, Cal[r]))
  BY DEF SnapshotSetCursor, CalendarDone, MirrorParts, MemRight
<1>b. BaseOK' BY <1>p, NoBase
<1>1. /\ mem'.events = mem.events /\ mem'.drift = mem.drift /\ disk' \in {disk, mem'}
      /\ \A o \in Cals : mem'.cursor[o] = IF o = cal /\ base # NoCursor THEN base
                                           ELSE mem.cursor[o]
  <2>1. CASE Persist(SetCursor(mem, cal, base)) /\ base # NoCursor
    <3>1. mem' = SetCursor(mem, cal, base) /\ disk' \in {disk, mem'} BY <2>1 DEF Persist
    <3> QED BY <1>t, <2>1, <3>1, CursorFacts, CursorMoves DEF SameServed
  <2>2. CASE NoPersist /\ (base = NoCursor \/ base = mem.cursor[cal])
    BY <2>2 DEF NoPersist
  <2> QED BY <2>1, <2>2 DEF SnapshotSetCursor
<1>2. CursorOK(mem') BY <1>p, <1>1, <1>t DEF CursorOK, BaseOK
<1>3. \A r \in Rows : Reached(mem, Cal[r])' = Reached(mem, Cal[r])
  BY <1>p, <1>1, <1>t DEF Reached
<1>4. \A r \in Rows : Right(mem', r, Reached(mem, Cal[r])')
  BY <1>p, <1>1, <1>3 DEF Right
<1> QED BY <1>u, <1>p, <1>b, <1>1, <1>2, <1>4, ApplyStep

-----------------------------------------------------------------------------
(* The theorem.                                                             *)

LEMMA DeadlineMirrored ==
  ASSUME TypeInv, TypeInv', MirrorParts, NEW c \in Cals, FullDeadline(c)
  PROVE  MirrorParts'
<1>1. UNCHANGED <<mem, disk, poller, external>>
  BY DEF FullDeadline, NoPersist, unwritten
<1> QED BY <1>1, StillMoves, MovesKeep DEF MirrorParts

LEMMA EmptyMirror ==
  ASSUME TypeInv
  PROVE  CursorOK(NewStore) /\ \A r \in Rows : Right(NewStore, r, NewStore.cursor[Cal[r]])
BY CalAssumption
   DEF CursorOK, Right, NewStore, EmptyStore, NoCursor, TypeInv, ExternalOK

LEMMA RestartMirrored ==
  ASSUME TypeInv, TypeInv', MirrorParts, Restart
  PROVE  MirrorParts'
<1>1. PICK st \in {disk, NewStore} : Booted(st) /\ UNCHANGED external BY DEF Restart
<1>2. UNCHANGED <<proton, touched, clock>> /\ mem' = st /\ disk' = st
      /\ pc' = "idle" /\ base' = NoCursor
  BY <1>1 DEF external, Booted
<1>3. CursorOK(st) /\ \A r \in Rows : Right(st, r, st.cursor[Cal[r]])
  BY <1>1, EmptyMirror DEF MirrorParts, DiskRight
<1>4. LogBound' /\ DeadOK' BY <1>2 DEF MirrorParts, LogBound, DeadOK, Live
<1>5. CursorOK(mem)' /\ CursorOK(disk)' BY <1>2, <1>3 DEF CursorOK
<1>6. MemRight' /\ DiskRight' BY <1>2, <1>3 DEF MemRight, DiskRight, Reached, Right, Same
<1> QED BY <1>2, <1>4, <1>5, <1>6, NoFetch, NoBase DEF MirrorParts

LEMMA InitMirrored == Init => MirrorInv
<1> SUFFICES ASSUME Init PROVE MirrorInv OBVIOUS
<1>1. TypeInv BY InitTyped
<1>2. PICK R \in SUBSET Rows :
        proton = [r \in Rows |-> IF r \in R THEN [ver |-> 1, slice |-> 1, synth |-> FALSE]
                                ELSE NoEvent]
  BY DEF Init
<1>3. DeadOK BY <1>2 DEF DeadOK, Live
<1>4. \A r \in Rows : proton[r].ver \in {0, 1} BY <1>2 DEF NoEvent
<1>5. LogBound BY <1>4, CalAssumption DEF Init, LogBound
<1>6. BaseOK BY <1>1 DEF Init, BaseOK, NoCursor, TypeInv, ExternalOK
<1>7. MemRight /\ DiskRight BY <1>1, EmptyMirror DEF Init, MemRight, DiskRight, Reached
<1> QED BY <1>1, <1>3, <1>5, <1>6, <1>7, EmptyMirror
        DEF Init, MirrorInv, MirrorParts, DeltaOK, ListOK, FreshFetch

LEMMA NextMirrored == MirrorInv /\ [Next]_vars => MirrorInv'
<1> SUFFICES ASSUME MirrorInv, [Next]_vars PROVE MirrorInv' OBVIOUS
<1>1. TypeInv /\ TypeInv' /\ MirrorParts BY NextTyped DEF MirrorInv
<1> SUFFICES MirrorParts' BY <1>1 DEF MirrorInv
<1>2. CASE Others BY <1>1, <1>2, OthersMirrored
<1>3. CASE Requests BY <1>1, <1>3, RequestsMirrored
<1>4. CASE Writer
  BY <1>1, <1>4, SendingMirrored, StoringMirrored DEF Writer, Sending
<1>5. ASSUME NEW r \in Rows, RecordAlias(r) PROVE MirrorParts'
  BY <1>1, <1>5, AliasMirrored
<1>6. CASE Poller
  BY <1>1, <1>6, CycleMirrored, FetchMirrored, DeltaMirrored, ReplaceMirrored,
     SetCursorMirrored DEF Poller
<1>7. ASSUME NEW c \in Cals, FullDeadline(c) PROVE MirrorParts'
  BY <1>1, <1>7, DeadlineMirrored
<1>8. CASE Restart BY <1>1, <1>8, RestartMirrored
<1>9. CASE UNCHANGED vars
  <2>1. UNCHANGED <<external, mem, disk, poller>> BY <1>9 DEF vars
  <2> QED BY <1>1, <2>1, StillMoves, MovesKeep DEF MirrorParts
<1> QED BY <1>2, <1>3, <1>4, <1>5, <1>6, <1>7, <1>8, <1>9 DEF Next

LEMMA MirrorInvariant == Spec => []MirrorInv
BY InitMirrored, NextMirrored, PTL DEF Spec

\* Whatever the interleaving of deltas, snapshots, write-throughs and changes by
\* Proton's other clients, a row the store has wrong either has an entry after
\* the calendar's cursor, so that the next delta re-reads it, or was left by a
\* write-through for the next full snapshot (syncCalendarEvents reads the cursor
\* before the rows; ApplyCalendarDelta and SetCursor lay it with them or after).
THEOREM MemoryMirrors == Spec => []MemorySound
<1>1. MirrorInv => MemorySound BY MirrorInvGivesProperties
<1> QED BY <1>1, MirrorInvariant, PTL

\* The same of the sealed file a restart loads, whichever persists failed:
\* the events and the cursors are one blob.
THEOREM DiskMirrors == Spec => []DiskSound
<1>1. MirrorInv => DiskSound BY MirrorInvGivesProperties
<1> QED BY <1>1, MirrorInvariant, PTL
=============================================================================
