------------------------ MODULE GatewayMirrorProofs ------------------------
(***************************************************************************)
(* The protocol of GatewaySync implements Mirror: proof of the refinement, *)
(* and of two properties that need the same invariant: a client reads back *)
(* what it wrote (ReadYourWrites), and the poller never takes a row back   *)
(* to an older version (PollerNeverRegresses).                             *)
(*                                                                         *)
(* NeverOlder and the mirror's soundness do not give them: a snapshot that *)
(* misses a row is not older than anything, and the row may well lie ahead *)
(* of the cursor.  KeepInv says of the fetch that, as long as the store    *)
(* still has the generation it started from, what it holds is no older     *)
(* than what is served, and has the rows that carry a client's last word.  *)
(***************************************************************************)
EXTENDS GatewaySyncProofs, GatewayMirror

-----------------------------------------------------------------------------
(* The inductive invariant.                                                 *)

\* Only what the gateway made of a client's input is an approximation.
EmptyOK(st) == \A r \in Rows : Known(st, r) \/ ~st.events[r].synth
NoSynth == \A r \in Rows : ~proton[r].synth /\ ~got[r].synth

\* What the writer is about to store is no older than what was acknowledged
\* before, and what it is about to purge is gone for good.
WriterNewer ==
  w.op # "delete" /\ w.pc \in {"reread", "store"} =>
    w.value.ver # 0 /\ w.value.ver >= mem.acked[w.row]

Dead(r) == Born(r) /\ ~Live(r)

WriterGone ==
  w.op = "delete" /\ w.pc # "idle" =>
    /\ Born(w.row) /\ w.pc \in {"send", "store"}
    /\ w.pc = "store" => w.row \in w.gone /\ \A r \in w.gone : Dead(r)

FetchNewer ==
  gen = mem.gen[cal] /\ pc \notin {"idle", "next", "setcursor"} =>
    \A r \in RowsOf(cal) : got[r].ver # 0 => got[r].ver >= mem.events[r].ver

\* The acknowledged version of r in st is the last one there is.
Current(st, r) == st.acked[r] # 0 /\ st.acked[r] = touched[r]

FetchKept ==
  gen = mem.gen[cal] =>
    /\ pc \in {"get", "apply"} => \A r \in RowsOf(cal) : mem.acked[r] <= base
    /\ pc \in {"list", "replace"} =>
         \A r \in RowsOf(cal) : Current(mem, r) => got[r] = Listed(r, slices)

Kept(st) == \A r \in Rows : Current(st, r) => Known(st, r) \/ proton[r].slice = Outside

KeepParts ==
  /\ EmptyOK(mem) /\ EmptyOK(disk) /\ NoSynth
  /\ WriterNewer /\ WriterGone
  /\ FetchNewer /\ FetchKept
  /\ Kept(mem) /\ Kept(disk)

KeepInv == TypeInv /\ AckParts /\ MirrorParts /\ KeepParts

LEMMA KeepInvGivesProperty == KeepInv => ReadYourWrites
<1> SUFFICES ASSUME KeepInv, NEW r \in Rows, Current(mem, r)
             PROVE  mem.events[r].ver = proton[r].ver \/ proton[r].slice = Outside
  BY DEF ReadYourWrites, Current
<1>1. /\ mem.events[r].ver \in Nat /\ touched[r] \in Nat /\ proton[r].ver \in Nat
  BY DEF KeepInv, TypeInv, StoresOK, ExternalOK, HStoreType, Event
<1>2. CASE Known(mem, r) /\ Live(r)
  BY <1>1, <1>2 DEF KeepInv, AckParts, AckedOK, LogOK, Current
<1>3. CASE ~Live(r) BY <1>3 DEF KeepInv, MirrorParts, DeadOK, NoEvent
<1>4. CASE ~Known(mem, r) BY <1>4 DEF KeepInv, KeepParts, Kept
<1> QED BY <1>2, <1>3, <1>4

-----------------------------------------------------------------------------
(* Proton moves, and the writer talks to it.                                *)

\* What a step of Proton's may do: a row gets a new entry, the dead stay dead.
Evolves ==
  /\ Moves
  /\ \A r \in Rows : ~proton'[r].synth /\ (Dead(r) => ~Live(r)')

LEMMA PutEvolves ==
  ASSUME KeepInv, NEW r \in Rows, NEW s \in 0..NSlices, PutRow(r, s), ~Dead(r)
  PROVE  Evolves
<1>1. Moves BY PutMoves DEF KeepInv, MirrorParts
<1>2. proton' = [proton EXCEPT ![r] = Written(r, s)] /\ proton \in [Rows -> Event]
  BY DEF PutRow, KeepInv, TypeInv, ExternalOK
<1>3. ~Written(r, s).synth BY DEF Written
<1> QED BY <1>1, <1>2, <1>3 DEF Evolves, Live, Dead, KeepInv, KeepParts, NoSynth

LEMMA DropEvolves ==
  ASSUME KeepInv, NEW c \in Cals, NEW R \in SUBSET RowsOf(c), DropRows(c, R)
  PROVE  Evolves /\ \A r \in R : Dead(r)'
<1>1. Moves BY DropMoves DEF KeepInv, MirrorParts
<1>2. /\ proton' = [r \in Rows |-> IF r \in R THEN NoEvent ELSE proton[r]]
      /\ touched' = [r \in Rows |-> IF r \in R THEN clock[c] + 1 ELSE touched[r]]
      /\ clock[c] \in Nat /\ R \subseteq Rows
  BY DEF DropRows, Logged, KeepInv, TypeInv, ExternalOK, RowsOf
<1>3. Evolves
  BY <1>1, <1>2 DEF Evolves, Live, Dead, KeepInv, KeepParts, NoSynth, NoEvent
<1> QED BY <1>2, <1>3 DEF Dead, Born, Live, NoEvent

LEMMA StillEvolves == KeepInv /\ UNCHANGED external => Evolves
BY StillMoves DEF external, Evolves, Dead, Live, KeepInv, KeepParts, MirrorParts, NoSynth

\* A step that leaves the stores and the poller alone has only to answer for w.
LEMMA EvolvesKeep ==
  ASSUME KeepInv, Evolves, UNCHANGED <<mem, disk, poller>>, WriterNewer', WriterGone'
  PROVE  KeepParts'
<1> USE DEF KeepInv
<1>1. UNCHANGED <<pc, cal, gen, base, slices, got>> BY DEF poller, fetch
<1>t. /\ mem.acked \in [Rows -> Nat] /\ disk.acked \in [Rows -> Nat]
      /\ touched \in [Rows -> Nat] /\ clock \in [Cals -> Nat] /\ Cal \in [Rows -> Cals]
  BY CalAssumption DEF TypeInv, StoresOK, ExternalOK, HStoreType
<1>2. ASSUME NEW r \in Rows, NEW k \in Nat, k <= touched[r], k = touched'[r]
      PROVE  touched'[r] = touched[r] /\ proton'[r] = proton[r]
  BY <1>t, <1>2 DEF Evolves, Moves, MirrorParts, LogBound
<1>3. \A r \in Rows : mem.acked[r] <= touched[r] /\ disk.acked[r] <= touched[r]
  BY DEF AckParts, AckedOK
<1>4. EmptyOK(mem)' /\ EmptyOK(disk)' /\ NoSynth' /\ FetchNewer'
  BY <1>1 DEF KeepParts, EmptyOK, NoSynth, FetchNewer, Known, Evolves, RowsOf
<1>5. FetchKept'
  <2>1. ASSUME NEW r \in RowsOf(cal), Current(mem, r)'
        PROVE  Current(mem, r) /\ Listed(r, slices)' = Listed(r, slices)
    <3>1. touched'[r] = touched[r] /\ proton'[r] = proton[r]
      BY <1>t, <1>2, <1>3, <2>1 DEF Current, RowsOf
    <3> QED BY <1>1, <2>1, <3>1 DEF Current, Listed, Live
  <2> QED BY <1>1, <2>1 DEF KeepParts, FetchKept, RowsOf
<1>6. Kept(mem)' /\ Kept(disk)'
  BY <1>t, <1>2, <1>3 DEF KeepParts, Kept, Current, Known
<1> QED BY <1>4, <1>5, <1>6 DEF KeepParts

\* The write that is under way is none of Proton's business.
LEMMA WriterWaits ==
  ASSUME KeepInv, Evolves, UNCHANGED <<mem, w>>
  PROVE  WriterNewer' /\ WriterGone'
<1>1. \A r \in Rows : Born(r) => Born(r)'
  BY CalAssumption
     DEF Evolves, Moves, Born, KeepInv, TypeInv, ExternalOK
<1>2. \A r \in Rows : Dead(r) => Dead(r)' BY <1>1 DEF Evolves, Dead
<1>3. (w.pc # "idle" => w.row \in Rows) /\ w.gone \subseteq Rows
  BY DEF KeepInv, TypeInv, WriteOK, WriteType
<1>4. WriterNewer' BY DEF KeepInv, KeepParts, WriterNewer
<1>5. WriterGone' BY <1>1, <1>2, <1>3 DEF KeepInv, KeepParts, WriterGone
<1> QED BY <1>4, <1>5

LEMMA WriterIdle == w'.pc = "idle" => WriterNewer' /\ WriterGone'
BY DEF WriterNewer, WriterGone

LEMMA OthersKept == KeepInv /\ Others => KeepParts'
<1> SUFFICES ASSUME KeepInv, Others PROVE KeepParts' OBVIOUS
<1>1. Evolves
  <2>1. ASSUME NEW r \in Rows, ProtonPut(r) PROVE Evolves
    BY <2>1, PutEvolves DEF ProtonPut, Dead
  <2>2. ASSUME NEW r \in Rows, ProtonDelete(r) PROVE Evolves
    <3>1. Cal[r] \in Cals /\ {r} \in SUBSET RowsOf(Cal[r])
      BY CalAssumption DEF RowsOf
    <3> QED BY <2>2, <3>1, DropEvolves DEF ProtonDelete
  <2>3. ASSUME NEW c \in Cals, ProtonOther(c) PROVE Evolves
    <3>1. Moves BY <2>3, OtherMoves DEF KeepInv, MirrorParts
    <3> QED BY <2>3, <3>1 DEF ProtonOther, Evolves, Live, KeepInv, KeepParts, NoSynth, Dead
  <2> QED BY <2>1, <2>2, <2>3 DEF Others
<1>2. UNCHANGED <<mem, disk, w, poller>>
  BY DEF Others, ProtonPut, ProtonDelete, ProtonOther, internal
<1> QED BY <1>1, <1>2, WriterWaits, EvolvesKeep

LEMMA RequestsKept == KeepInv /\ Requests => KeepParts'
<1> SUFFICES ASSUME KeepInv, NEW r \in Rows,
                    BeginCreate(r) \/ BeginUpdate(r) \/ BeginDelete(r)
             PROVE  KeepParts'
  BY DEF Requests
<1>1. UNCHANGED <<external, mem, disk, poller>>
  BY DEF BeginCreate, BeginUpdate, BeginDelete, local, unpolled
<1>2. w'.pc \in {"recheck", "send"} /\ w'.row = r
      /\ (w'.op = "delete" => w'.pc = "send" /\ Born(r))
  BY DEF BeginCreate, BeginUpdate, BeginDelete, Begin, IdleWrite
<1>3. WriterNewer' /\ WriterGone'
  BY <1>1, <1>2 DEF WriterNewer, WriterGone, Born, external
<1> QED BY <1>1, <1>3, StillEvolves, EvolvesKeep

LEMMA SendingKept == KeepInv /\ Sending => KeepParts'
<1> SUFFICES ASSUME KeepInv, Sending PROVE KeepParts' OBVIOUS
<1>0. UNCHANGED <<mem, disk, poller>> BY SendingFrame DEF unpolled
<1>w. /\ w \in WriteType /\ (w.pc # "idle" => w.row \in Rows) /\ w.gone \subseteq Rows
      /\ WriterNewer /\ WriterGone
  BY DEF KeepInv, TypeInv, WriteOK, WriteType, KeepParts
<1>t. /\ \A r \in Rows : /\ mem.acked[r] \in Nat /\ touched[r] \in Nat
                         /\ clock[Cal[r]] \in Nat /\ mem.acked[r] <= touched[r]
                         /\ touched[r] <= clock[Cal[r]]
  BY CalAssumption DEF KeepInv, TypeInv, StoresOK, HStoreType, ExternalOK, AckParts, AckedOK,
                       LogOK
<1>q. ASSUME UNCHANGED external, WriterNewer', WriterGone' PROVE KeepParts'
  BY <1>0, <1>q, StillEvolves, EvolvesKeep
<1>1. CASE RecheckFound \/ SendFails
  <2>1. UNCHANGED external /\ w'.pc = "idle"
    BY <1>1 DEF RecheckFound, SendFails, local, IdleWrite
  <2> QED BY <1>q, <2>1, WriterIdle
<1>2. CASE RecheckPassed
  <2>1. UNCHANGED external /\ w.op # "delete" BY <1>2, <1>w DEF RecheckPassed, WriterGone
  <2>2. w'.pc = "send" /\ w'.op = w.op BY <1>2, <1>w DEF RecheckPassed, WriteType
  <2> QED BY <1>q, <2>1, <2>2 DEF WriterNewer, WriterGone
<1>3. ASSUME NEW r \in Rows, SendCreate(r) PROVE KeepParts'
  <2>1. PICK s \in 0..NSlices :
          /\ PutRow(r, s)
          /\ Answered([w EXCEPT !.pc = "reread", !.row = r, !.value = Synth(r, s)])
    BY <1>3 DEF SendCreate
  <2>2. Evolves BY <1>3, <2>1, PutEvolves DEF SendCreate, Dead
  <2>3. CASE w' = [w EXCEPT !.pc = "reread", !.row = r, !.value = Synth(r, s)]
    <3>1. w'.row = r /\ w'.value = Synth(r, s) /\ w'.op = "create"
      BY <1>w, <1>3, <2>3 DEF WriteType, SendCreate
    <3>2. WriterNewer' /\ WriterGone'
      BY <1>0, <1>t, <3>1 DEF WriterNewer, WriterGone, Synth
    <3> QED BY <1>0, <2>2, <3>2, EvolvesKeep
  <2>4. CASE w' = IdleWrite
    BY <1>0, <2>2, <2>4, WriterIdle, EvolvesKeep DEF IdleWrite
  <2> QED BY <2>1, <2>3, <2>4 DEF Answered
<1>4. CASE SendUpdate
  <2>1. w.row \in Rows BY <1>w, <1>4 DEF SendUpdate
  <2>2. PICK s \in 0..NSlices :
          /\ PutRow(w.row, s)
          /\ Answered([w EXCEPT !.pc = "reread", !.value = Synth(w.row, s)])
    BY <1>4, <2>1 DEF SendUpdate, KeepInv, TypeInv, ExternalOK, Event
  <2>3. Evolves BY <1>4, <2>1, <2>2, PutEvolves DEF SendUpdate, Dead
  <2>4. CASE w' = [w EXCEPT !.pc = "reread", !.value = Synth(w.row, s)]
    <3>1. w'.row = w.row /\ w'.value = Synth(w.row, s) /\ w'.op # "delete"
      BY <1>w, <1>4, <2>4 DEF WriteType, SendUpdate
    <3>2. WriterNewer' /\ WriterGone'
      BY <1>0, <1>t, <2>1, <3>1 DEF WriterNewer, WriterGone, Synth
    <3> QED BY <1>0, <2>3, <3>2, EvolvesKeep
  <2>5. CASE w' = IdleWrite
    BY <1>0, <2>3, <2>5, WriterIdle, EvolvesKeep DEF IdleWrite
  <2> QED BY <2>2, <2>4, <2>5 DEF Answered
<1>5. CASE SendDelete
  <2>1. w.row \in Rows BY <1>w, <1>5 DEF SendDelete
  <2>2. PICK targets \in SUBSET Siblings(w.row) :
          /\ w.row \in targets
          /\ DropRows(Cal[w.row], targets)
          /\ Answered([w EXCEPT !.pc = "store", !.gone = targets])
    BY <1>5, <2>1, SiblingsFacts DEF SendDelete
  <2>3. targets \in SUBSET RowsOf(Cal[w.row]) /\ Cal[w.row] \in Cals
    BY <2>1, CalAssumption DEF Siblings
  <2>4. Evolves /\ \A r \in targets : Dead(r)' BY <2>2, <2>3, DropEvolves
  <2>5. CASE w' = [w EXCEPT !.pc = "store", !.gone = targets]
    <3>1. /\ w'.row = w.row /\ w'.op = "delete" /\ w'.gone = targets /\ w'.pc = "store"
      BY <1>w, <1>5, <2>5 DEF WriteType, SendDelete
    <3>2. WriterNewer' /\ WriterGone'
      BY <2>2, <2>4, <3>1 DEF WriterNewer, WriterGone, Dead
    <3> QED BY <1>0, <2>4, <3>2, EvolvesKeep
  <2>6. CASE w' = IdleWrite
    BY <1>0, <2>4, <2>6, WriterIdle, EvolvesKeep DEF IdleWrite
  <2> QED BY <2>2, <2>5, <2>6 DEF Answered
<1>6. CASE SendDeleteNotFound
  <2>1. /\ UNCHANGED external /\ w.op = "delete" /\ Dead(w.row)
        /\ w' = [w EXCEPT !.pc = "store", !.gone = {w.row}]
    BY <1>6, <1>w DEF SendDeleteNotFound, local, WriterGone, Dead
  <2>2. w'.row = w.row /\ w'.op = "delete" /\ w'.gone = {w.row} /\ w'.pc = "store"
    BY <1>w, <2>1 DEF WriteType
  <2>3. WriterNewer' /\ WriterGone'
    BY <2>1, <2>2 DEF WriterNewer, WriterGone, Dead, Born, Live, external
  <2> QED BY <1>q, <2>1, <2>3
<1>7. CASE Reread
  <2>1. /\ UNCHANGED external /\ w.op # "delete" /\ w.row \in Rows /\ Live(w.row)
        /\ w' = [w EXCEPT !.pc = "store", !.value = proton[w.row]]
    BY <1>7, <1>w DEF Reread, local, WriterGone
  <2>2. w'.row = w.row /\ w'.op = w.op /\ w'.value = proton[w.row]
    BY <1>w, <2>1 DEF WriteType
  <2>3. proton[w.row].ver = touched[w.row] /\ proton[w.row].ver # 0
    BY <2>1 DEF KeepInv, AckParts, LogOK, Live
  <2>4. WriterNewer' /\ WriterGone'
    BY <1>0, <1>t, <2>1, <2>2, <2>3 DEF WriterNewer, WriterGone
  <2> QED BY <1>q, <2>1, <2>4
<1>8. CASE RereadFails
  <2>1. UNCHANGED external /\ w.op # "delete" /\ w.pc = "reread"
    BY <1>8, <1>w DEF RereadFails, local, WriterGone
  <2>2. w'.row = w.row /\ w'.op = w.op /\ w'.value = w.value
    BY <1>w, <1>8 DEF RereadFails, WriteType
  <2>3. WriterNewer' /\ WriterGone'
    BY <1>0, <1>w, <2>1, <2>2 DEF WriterNewer, WriterGone
  <2> QED BY <1>q, <2>1, <2>3
<1>9. CASE RsvpUnread
  BY <1>9, <1>q, WriterIdle DEF RsvpUnread, IdleWrite
<1> QED BY <1>1, <1>2, <1>3, <1>4, <1>5, <1>6, <1>7, <1>8, <1>9 DEF Sending

-----------------------------------------------------------------------------
(* The write-through.                                                       *)

\* What the two write-throughs leave of the store.
LEMMA UpsertStored ==
  ASSUME TypeInv, WriteThrough
  PROVE  /\ w.row \in Rows /\ w.op # "delete" /\ w.pc = "store" /\ w' = IdleWrite
         /\ UNCHANGED <<external, poller>> /\ disk' \in {disk, mem'}
         /\ \A r \in Rows : mem'.events[r] = IF r = w.row THEN w.value ELSE mem.events[r]
         /\ \A r \in Rows : mem'.acked[r] = IF r = w.row THEN w.value.ver ELSE mem.acked[r]
         /\ \A c \in Cals : mem'.gen[c] = IF c = Cal[w.row] THEN mem.gen[c] + 1
                                          ELSE mem.gen[c]
         /\ mem'.cursor = mem.cursor
<1>0. /\ w.row \in Rows /\ w.value \in Event /\ mem \in HStoreType
      /\ touched \in [Rows -> Nat] /\ mem.acked \in [Rows -> Nat]
  BY DEF TypeInv, WriteOK, WriteType, StoresOK, HStoreType, ExternalOK, WriteThrough
<1> DEFINE u == UpsertEvent(mem, w.row, w.value)
           v == WithDrift(u, {w.row})
           st == [v EXCEPT !.acked = [mem.acked EXCEPT ![w.row] = w.value.ver]]
<1>1. u \in HStoreType BY <1>0, WriteTyped
<1>2. /\ \A r \in Rows : u.events[r] = IF r = w.row THEN w.value ELSE mem.events[r]
      /\ \A c \in Cals : u.gen[c] = IF c = Cal[w.row] THEN mem.gen[c] + 1 ELSE mem.gen[c]
      /\ u.cursor = mem.cursor
  BY <1>0, UpsertFacts
<1>3. Persist(st) BY DEF WriteThrough
<1> HIDE DEF u
<1>4. v \in HStoreType /\ v.events = u.events /\ v.gen = u.gen /\ v.cursor = u.cursor
  BY <1>0, <1>1, HistoryTyped, DriftFacts DEF SameServed
<1> HIDE DEF v
<1>5. /\ st.events = u.events /\ st.gen = u.gen /\ st.cursor = u.cursor
      /\ st.acked = [mem.acked EXCEPT ![w.row] = w.value.ver]
  BY <1>4 DEF HStoreType
<1>6. mem' = st /\ disk' \in {disk, mem'} BY <1>3 DEF Persist
<1> HIDE DEF st
<1> QED BY <1>0, <1>2, <1>5, <1>6 DEF WriteThrough, unpolled

Purged ==
  IF w.group THEN {s \in Siblings(w.row) : Known(mem, s)} ELSE {w.row}

LEMMA DeleteStored ==
  ASSUME TypeInv, WriteThroughDelete
  PROVE  /\ w.row \in Rows /\ w.op = "delete" /\ w.pc = "store" /\ w' = IdleWrite
         /\ UNCHANGED <<external, poller>> /\ disk' \in {disk, mem'}
         /\ \A r \in Rows : mem'.events[r] = IF r \in Purged THEN NoEvent ELSE mem.events[r]
         /\ \A r \in Rows :
              mem'.acked[r] = IF r \in (IF w.group THEN w.gone ELSE {w.row}) THEN touched[r]
                              ELSE IF r \in (IF w.group THEN Siblings(w.row) ELSE {}) THEN 0
                              ELSE mem.acked[r]
         /\ \A c \in Cals : mem'.gen[c] = IF c = Cal[w.row] THEN mem.gen[c] + 1
                                          ELSE mem.gen[c]
         /\ mem'.cursor = mem.cursor
<1>0. /\ w.row \in Rows /\ mem \in HStoreType
      /\ touched \in [Rows -> Nat] /\ Cal[w.row] \in Cals
  BY CalAssumption DEF TypeInv, WriteOK, WriteType, StoresOK, ExternalOK, WriteThroughDelete
<1> DEFINE u == Bump(Forget(mem, Purged), Cal[w.row])
           v == WithDrift(u, Siblings(w.row))
           R == IF w.group THEN w.gone ELSE {w.row}
           V == IF w.group THEN Siblings(w.row) ELSE {}
           st == WithAck(v, R, V)
<1>1. u = IF w.group THEN DeleteEventsByUID(mem, w.row) ELSE DeleteEvent(mem, w.row)
  BY DEF DeleteEventsByUID, DeleteEvent, Purged
<1>2. Persist(st) BY <1>1 DEF WriteThroughDelete
<1>3. u \in HStoreType BY <1>0, ForgetTyped, BumpTyped
<1>4. /\ \A r \in Rows : u.events[r] = IF r \in Purged THEN NoEvent ELSE mem.events[r]
      /\ \A c \in Cals : u.gen[c] = IF c = Cal[w.row] THEN mem.gen[c] + 1 ELSE mem.gen[c]
      /\ u.cursor = mem.cursor
  <2>1. u = Bump(Forget(mem, Purged), Cal[w.row]) OBVIOUS
  <2> HIDE DEF u
  <2> QED BY <1>0, <2>1, ForgetFacts
<1> HIDE DEF u
<1>5. v \in HStoreType /\ v.events = u.events /\ v.gen = u.gen /\ v.cursor = u.cursor
  BY <1>0, <1>3, HistoryTyped, DriftFacts DEF SameServed
<1> HIDE DEF v
<1>6. /\ st.events = v.events /\ st.gen = v.gen /\ st.cursor = v.cursor
      /\ st.acked = [r \in Rows |-> IF r \in R THEN touched[r]
                                    ELSE IF r \in V THEN 0 ELSE v.acked[r]]
  BY <1>5, AckFacts
<1>7. v.acked = mem.acked
  <2>1. u.acked = mem.acked
    <3>1. u = Bump(Forget(mem, Purged), Cal[w.row]) BY DEF u
    <3> QED BY <1>0, <3>1, ForgetFacts
  <2> QED BY <1>3, <2>1, DriftFacts DEF SameServed, v
<1>8. mem' = st /\ disk' \in {disk, mem'} BY <1>2 DEF Persist
<1> HIDE DEF st
<1> QED BY <1>0, <1>4, <1>5, <1>6, <1>7, <1>8 DEF WriteThroughDelete, unpolled

\* A write-through counts: the fetches of its calendar lose their generation,
\* those of another hold nothing of what it changed.
LEMMA BumpedFetch ==
  ASSUME KeepInv, UNCHANGED <<external, poller>>, NEW c \in Cals,
         mem'.gen[c] = mem.gen[c] + 1,
         \A o \in Cals \ {c} : mem'.gen[o] = mem.gen[o],
         \A r \in Rows \ RowsOf(c) : /\ mem'.events[r] = mem.events[r]
                                     /\ mem'.acked[r] = mem.acked[r]
  PROVE  FetchNewer' /\ FetchKept'
<1>1. UNCHANGED <<pc, cal, gen, base, slices, got, proton, touched>>
  BY DEF poller, fetch, external
<1>2. cal \in Cals /\ gen \in Nat /\ gen <= mem.gen[cal] /\ mem.gen[cal] \in Nat
  BY DEF KeepInv, TypeInv, PollerOK, StoresOK, HStoreType, AckParts, FetchAcked
<1>3. CASE cal = c
  <2>1. gen # mem'.gen[cal] BY <1>2, <1>3
  <2> QED BY <1>1, <2>1 DEF FetchNewer, FetchKept
<1>4. CASE cal # c
  <2>1. mem'.gen[cal] = mem.gen[cal] BY <1>2, <1>4
  <2>2. \A r \in RowsOf(cal) : mem'.events[r] = mem.events[r] /\ mem'.acked[r] = mem.acked[r]
    BY <1>4 DEF RowsOf
  <2>3. FetchNewer'
    BY <1>1, <2>1, <2>2 DEF KeepInv, KeepParts, FetchNewer, RowsOf
  <2>4. FetchKept'
    BY <1>1, <2>1, <2>2 DEF KeepInv, KeepParts, FetchKept, Current, Listed, Live, RowsOf
  <2> QED BY <2>3, <2>4
<1> QED BY <1>3, <1>4

\* A step that leaves Proton alone: what is said of the memory is said of a
\* disk it was persisted to.
LEMMA KeptOnDisk ==
  ASSUME KeepInv, UNCHANGED external, disk' \in {disk, mem'},
         EmptyOK(mem)', Kept(mem)', NoSynth', FetchNewer', FetchKept',
         WriterNewer', WriterGone'
  PROVE  KeepParts'
<1>1. EmptyOK(disk)' BY DEF KeepInv, KeepParts, EmptyOK, Known
<1>2. Kept(disk)' BY DEF KeepInv, KeepParts, Kept, Current, Known, external
<1> QED BY <1>1, <1>2 DEF KeepParts

LEMMA StoringKept == KeepInv /\ (WriteThrough \/ WriteThroughDelete) => KeepParts'
<1> SUFFICES ASSUME KeepInv, WriteThrough \/ WriteThroughDelete PROVE KeepParts' OBVIOUS
<1> USE DEF KeepInv
<1>1. CASE WriteThrough
  <2>1. /\ w.row \in Rows /\ w.op # "delete" /\ w.pc = "store" /\ w' = IdleWrite
        /\ UNCHANGED <<external, poller>> /\ disk' \in {disk, mem'}
        /\ \A r \in Rows : mem'.events[r] = IF r = w.row THEN w.value ELSE mem.events[r]
        /\ \A r \in Rows : mem'.acked[r] = IF r = w.row THEN w.value.ver ELSE mem.acked[r]
        /\ \A c \in Cals : mem'.gen[c] = IF c = Cal[w.row] THEN mem.gen[c] + 1
                                         ELSE mem.gen[c]
    BY <1>1, UpsertStored
  <2>2. w.value.ver # 0 BY <2>1 DEF KeepParts, WriterNewer
  <2>3. EmptyOK(mem)' BY <2>1, <2>2 DEF KeepParts, EmptyOK, Known
  <2>4. Kept(mem)' BY <2>1, <2>2 DEF KeepParts, Kept, Current, Known, external
  <2>5. FetchNewer' /\ FetchKept'
    <3>1. Cal[w.row] \in Cals BY <2>1, CalAssumption
    <3>2. w.row \in RowsOf(Cal[w.row]) BY <2>1 DEF RowsOf
    <3> QED BY <2>1, <3>1, <3>2, BumpedFetch
  <2>6. NoSynth' BY <2>1 DEF KeepParts, NoSynth, external, poller, fetch
  <2>7. WriterNewer' /\ WriterGone' BY <2>1, WriterIdle DEF IdleWrite
  <2> QED BY <2>1, <2>3, <2>4, <2>5, <2>6, <2>7, KeptOnDisk
<1>2. CASE WriteThroughDelete
  <2> DEFINE R == IF w.group THEN w.gone ELSE {w.row}
             V == IF w.group THEN Siblings(w.row) ELSE {}
  <2>1. /\ w.row \in Rows /\ w.op = "delete" /\ w.pc = "store" /\ w' = IdleWrite
        /\ UNCHANGED <<external, poller>> /\ disk' \in {disk, mem'}
        /\ \A r \in Rows : mem'.events[r] = IF r \in Purged THEN NoEvent ELSE mem.events[r]
        /\ \A r \in Rows : mem'.acked[r] = IF r \in R THEN touched[r]
                                           ELSE IF r \in V THEN 0 ELSE mem.acked[r]
        /\ \A c \in Cals : mem'.gen[c] = IF c = Cal[w.row] THEN mem.gen[c] + 1
                                         ELSE mem.gen[c]
    BY <1>2, DeleteStored
  <2>2. /\ w.row \in w.gone /\ \A r \in w.gone : Dead(r)
        /\ w.gone \subseteq Siblings(w.row)
    BY <2>1 DEF KeepParts, WriterGone, TypeInv, WriteOK
  <2>3. EmptyOK(mem)' BY <2>1 DEF KeepParts, EmptyOK, Known, NoEvent
  <2>4. Kept(mem)'
    <3> SUFFICES ASSUME NEW r \in Rows, Current(mem, r)'
                 PROVE  Known(mem, r)' \/ proton[r].slice = Outside
      BY <2>1 DEF Kept, external
    <3>1. CASE r \in R
      <4>1. ~Live(r) BY <2>2, <3>1 DEF Dead
      <4> QED BY <4>1 DEF MirrorParts, DeadOK, NoEvent
    <3>2. CASE r \notin R
      <4>1. r \notin V BY <2>1, <3>2 DEF Current
      <4>2. r \notin Purged BY <3>2, <4>1 DEF Purged
      <4>3. mem'.acked[r] = mem.acked[r] /\ mem'.events[r] = mem.events[r]
        BY <2>1, <3>2, <4>1, <4>2
      <4> QED BY <2>1, <4>3 DEF KeepParts, Kept, Current, Known, external
    <3> QED BY <3>1, <3>2
  <2>5. FetchNewer' /\ FetchKept'
    <3>1. Cal[w.row] \in Cals BY <2>1, CalAssumption
    <3>2. Siblings(w.row) \subseteq RowsOf(Cal[w.row]) /\ w.row \in RowsOf(Cal[w.row])
      BY <2>1 DEF RowsOf, Siblings
    <3>3. Purged \subseteq RowsOf(Cal[w.row]) BY <3>2 DEF Purged
    <3>4. \A r \in Rows \ RowsOf(Cal[w.row]) : r \notin R /\ r \notin V
      BY <2>2, <3>2
    <3>5. \A r \in Rows \ RowsOf(Cal[w.row]) : /\ mem'.events[r] = mem.events[r]
                                               /\ mem'.acked[r] = mem.acked[r]
      BY <2>1, <3>3, <3>4
    <3> QED BY <2>1, <3>1, <3>5, BumpedFetch
  <2>6. NoSynth' BY <2>1 DEF KeepParts, NoSynth, external, poller, fetch
  <2>7. WriterNewer' /\ WriterGone' BY <2>1, WriterIdle DEF IdleWrite
  <2> QED BY <2>1, <2>3, <2>4, <2>5, <2>6, <2>7, KeptOnDisk
<1> QED BY <1>1, <1>2

-----------------------------------------------------------------------------
(* The poller.                                                              *)

\* What the poller's steps may do to the store: rows of its calendar become what
\* was fetched, under the generation the fetch started from.
LEMMA PollerApplies ==
  ASSUME TypeInv, Poller
  PROVE  /\ mem'.acked = mem.acked /\ mem'.gen = mem.gen /\ disk' \in {disk, mem'}
         /\ \A r \in Rows :
              \/ mem'.events[r] = mem.events[r]
              \/ /\ gen = mem.gen[cal] /\ r \in RowsOf(cal) /\ mem'.events[r] = got[r]
                 /\ (pc = "apply" /\ r \in changed) \/ pc = "replace"
<1>t. /\ mem \in HStoreType /\ cal \in Cals /\ base \in Nat \cup {NoCursor}
      /\ got \in [Rows -> Event] /\ changed \subseteq RowsOf(cal)
  BY DEF TypeInv, StoresOK, PollerOK
<1>1. CASE \/ CycleAborts \/ CycleStarts \/ (\E cs \in SUBSET Cals : CycleStartsOnBlip(cs))
           \/ CycleEnds
  <2>1. /\ \/ UNCHANGED mem \/ (\E cs : mem' = ReplaceCalendars(mem, cs))
           \/ mem' = MarkSynced(mem)
        /\ disk' \in {disk, mem'}
    BY <1>1 DEF CycleAborts, CycleStarts, CycleStartsOnBlip, CycleEnds, Persist, NoPersist
  <2> QED BY <1>t, <2>1 DEF ReplaceCalendars, MarkSynced, HStoreType
<1>2. CASE \/ (\E c \in Cals : NextCalendar(c)) \/ FetchFails \/ DeltaPages \/ DeltaRefresh
           \/ (\E r \in Rows : DeltaGet(r)) \/ Baseline \/ SnapshotRefused
           \/ (\E s \in 1..NSlices : ListSlice(s))
  BY <1>2 DEF NextCalendar, FetchFails, DeltaPages, DeltaRefresh, DeltaGet, Baseline,
              SnapshotRefused, ListSlice, NoPersist
<1>3. CASE DeltaApply
  <2> DEFINE a == ApplyCalendarDelta(mem, cal, changed, got, base)
             st == WithoutDrift(a, changed)
  <2>1. a \in HStoreType BY <1>t, ApplyTyped
  <2>2. /\ a.events = [r \in Rows |-> IF r \in changed THEN got[r] ELSE mem.events[r]]
        /\ a.gen = mem.gen /\ a.acked = mem.acked
    BY <1>t, DeltaFacts
  <2> HIDE DEF a
  <2>3. st.events = a.events /\ st.acked = a.acked /\ st.gen = a.gen
    BY <2>1, DriftFacts DEF SameServed
  <2> HIDE DEF st
  <2>4. CASE GenHeld(mem, cal, gen) /\ Persist(st)
    BY <1>t, <1>3, <2>2, <2>3, <2>4 DEF DeltaApply, GenHeld, Persist
  <2>5. CASE NoPersist BY <2>5 DEF NoPersist
  <2> QED BY <1>3, <2>4, <2>5 DEF DeltaApply, st, a
<1>4. CASE SnapshotReplace
  <2> DEFINE a == ReplaceCalendarEvents(mem, cal, got)
             st == WithoutDrift(a, RowsOf(cal))
  <2>1. a \in HStoreType BY <1>t, ApplyTyped
  <2>2. /\ a.events = [r \in Rows |-> IF r \in RowsOf(cal) THEN got[r] ELSE mem.events[r]]
        /\ a.gen = mem.gen /\ a.acked = mem.acked
    BY <1>t, ReplaceFacts
  <2>3. Persist(st) BY <1>4 DEF SnapshotReplace
  <2> HIDE DEF a
  <2>4. st.events = a.events /\ st.acked = a.acked /\ st.gen = a.gen
    BY <2>1, DriftFacts DEF SameServed
  <2> HIDE DEF st
  <2> QED BY <1>4, <2>2, <2>3, <2>4 DEF SnapshotReplace, GenHeld, Persist
<1>5. CASE SnapshotSetCursor
  <2>1. SameServed(SetCursor(mem, cal, base), mem) /\ SetCursor(mem, cal, base).gen = mem.gen
    BY <1>t, CursorFacts
  <2>2. CASE Persist(SetCursor(mem, cal, base)) BY <2>1, <2>2 DEF Persist, SameServed
  <2>3. CASE NoPersist BY <2>3 DEF NoPersist
  <2> QED BY <1>5, <2>2, <2>3 DEF SnapshotSetCursor
<1> QED BY <1>1, <1>2, <1>3, <1>4, <1>5 DEF Poller

\* A fetch that is over, or has not begun, holds nothing against the store.
LEMMA FetchOver ==
  pc' \in {"idle", "next", "setcursor"} => FetchNewer' /\ FetchKept'
BY DEF FetchNewer, FetchKept

\* What is fetched now is no older than what is served, and is no approximation.
LEMMA FetchedNewer ==
  ASSUME KeepInv, NEW r \in Rows
  PROVE  ~proton[r].synth /\ (proton[r].ver # 0 => proton[r].ver >= mem.events[r].ver)
BY DEF KeepInv, TypeInv, ExternalOK, StoresOK, HStoreType, Event, AckParts, LogOK, AckedOK,
       Known, Live, KeepParts, NoSynth

\* The steps of the poller keep what is said of a fetch.
LEMMA FetchKeeps == KeepInv /\ Poller => NoSynth' /\ FetchNewer' /\ FetchKept'
<1> SUFFICES ASSUME KeepInv, Poller PROVE NoSynth' /\ FetchNewer' /\ FetchKept' OBVIOUS
<1> USE DEF KeepInv
<1>u. UNCHANGED <<proton, touched, clock>> BY PollerFrame DEF unwritten, external
<1>t. /\ cal \in Cals /\ base \in Nat \cup {NoCursor} /\ got \in [Rows -> Event]
      /\ \A r \in RowsOf(cal) : /\ r \in Rows /\ mem.acked[r] \in Nat
                                /\ touched[r] \in Nat /\ clock[cal] \in Nat
                                /\ mem.acked[r] <= touched[r] /\ touched[r] <= clock[cal]
      /\ NoSynth /\ FetchNewer /\ FetchKept /\ FreshFetch
  BY DEF TypeInv, PollerOK, StoresOK, HStoreType, ExternalOK, AckParts, AckedOK, LogOK,
         RowsOf, KeepParts, MirrorParts
<1>s. ASSUME got' = got \/ got' = NoRows PROVE NoSynth'
  BY <1>s, <1>t, <1>u DEF NoSynth, NoRows, NoEvent
<1>1. CASE \/ CycleAborts \/ CycleStarts \/ (\E cs \in SUBSET Cals : CycleStartsOnBlip(cs))
           \/ CycleEnds \/ SnapshotReplace
  BY <1>1, <1>s, FetchOver
     DEF CycleAborts, CycleStarts, CycleStartsOnBlip, CycleEnds, SnapshotReplace, EndCycle, fetch
<1>2. CASE FetchFails \/ DeltaApply \/ SnapshotRefused \/ SnapshotSetCursor
  BY <1>2, <1>s, FetchOver
     DEF FetchFails, DeltaApply, SnapshotRefused, SnapshotSetCursor, CalendarDone
<1>3. ASSUME NEW c \in Cals, NextCalendar(c) PROVE NoSynth' /\ FetchNewer' /\ FetchKept'
  <2>1. got' = NoRows /\ pc' \in {"delta", "baseline"} BY <1>3 DEF NextCalendar
  <2> QED BY <1>s, <2>1 DEF FetchNewer, FetchKept, NoRows, NoEvent, RowsOf
<1>4. CASE DeltaPages
  <2>1. /\ pc = "delta" /\ base' = clock[cal] /\ pc' \in {"get", "apply"}
        /\ UNCHANGED <<mem, cal, gen, got>>
    BY <1>4 DEF DeltaPages, NoPersist
  <2> QED BY <1>t, <1>s, <2>1 DEF FetchNewer, FetchKept, RowsOf
<1>5. CASE DeltaRefresh
  <2>1. pc = "delta" /\ pc' = "baseline" /\ UNCHANGED <<mem, cal, gen, got>>
    BY <1>5 DEF DeltaRefresh, fetch
  <2> QED BY <1>t, <1>s, <2>1 DEF FetchNewer, FetchKept, RowsOf
<1>6. ASSUME NEW q \in Rows, DeltaGet(q) PROVE NoSynth' /\ FetchNewer' /\ FetchKept'
  <2>1. /\ pc = "get" /\ pc' \in {"get", "apply"} /\ got' = [got EXCEPT ![q] = proton[q]]
        /\ UNCHANGED <<mem, cal, gen, base>>
    BY <1>6 DEF DeltaGet, NoPersist
  <2> QED BY <1>t, <1>u, <2>1, FetchedNewer DEF NoSynth, FetchNewer, FetchKept, RowsOf
<1>7. CASE Baseline
  <2>1. /\ pc = "baseline" /\ pc' = "list" /\ slices' = 1..NSlices
        /\ UNCHANGED <<mem, cal, gen, got>>
    BY <1>7 DEF Baseline
  <2>2. \A r \in RowsOf(cal) : got[r] = Listed(r, slices)'
    BY <1>t, <2>1 DEF FreshFetch, NoRows, Listed, RowsOf
  <2> QED BY <1>t, <1>s, <2>1, <2>2 DEF FetchNewer, FetchKept, RowsOf
<1>8. ASSUME NEW s \in 1..NSlices, ListSlice(s) PROVE NoSynth' /\ FetchNewer' /\ FetchKept'
  <2>1. /\ pc = "list" /\ s \in slices /\ slices' = slices \ {s}
        /\ pc' \in {"list", "replace"} /\ UNCHANGED <<mem, cal, gen>>
        /\ got' = [r \in Rows |->
                     IF r \in RowsOf(cal) /\ Live(r) /\ proton[r].slice = s
                          /\ (got[r].ver = 0 \/ s < got[r].slice)
                     THEN proton[r] ELSE got[r]]
    BY <1>8, <1>t DEF ListSlice, NoPersist
  <2>2. NoSynth' /\ FetchNewer'
    BY <1>t, <1>u, <2>1, FetchedNewer DEF NoSynth, FetchNewer, RowsOf
  <2>3. ASSUME NEW r \in RowsOf(cal), got[r] = Listed(r, slices)
        PROVE  got'[r] = Listed(r, slices)'
    <3>1. Listed(r, slices)' = IF Live(r) /\ proton[r].slice \in (1..NSlices) \ slices'
                               THEN proton[r] ELSE NoEvent
      BY <1>u DEF Listed, Live
    <3>2. CASE Live(r) /\ proton[r].slice = s
      <4>1. got[r] = NoEvent BY <2>1, <2>3, <3>2 DEF Listed
      <4> QED BY <1>t, <2>1, <3>1, <3>2, <4>1 DEF NoEvent
    <3>3. CASE ~(Live(r) /\ proton[r].slice = s)
      <4>1. got'[r] = got[r] BY <1>t, <2>1, <3>3
      <4> QED BY <2>1, <2>3, <3>1, <3>3, <4>1 DEF Listed
    <3> QED BY <3>2, <3>3
  <2>4. FetchKept' BY <1>t, <1>u, <2>1, <2>3 DEF FetchKept, Current, RowsOf
  <2> QED BY <2>2, <2>4
<1> QED BY <1>1, <1>2, <1>3, <1>4, <1>5, <1>6, <1>7, <1>8 DEF Poller

\* A row that carries the client's last word is fetched as Proton has it.
LEMMA AppliedKeeps ==
  ASSUME KeepInv, NEW r \in RowsOf(cal), gen = mem.gen[cal], Current(mem, r),
         (pc = "apply" /\ r \in changed) \/ pc = "replace"
  PROVE  got[r].ver # 0 \/ proton[r].slice = Outside
<1> USE DEF KeepInv, KeepParts
<1>t. /\ r \in Rows /\ base \in Nat \cup {NoCursor} /\ touched[r] \in Nat
      /\ proton[r] \in Event
  BY DEF TypeInv, PollerOK, ExternalOK, RowsOf
<1>1. Live(r) \/ proton[r].slice = Outside BY <1>t DEF MirrorParts, DeadOK, NoEvent
<1>2. CASE pc = "apply"
  <2>1. touched[r] <= base BY <1>2 DEF FetchKept, Current
  <2>2. got[r] = proton[r]
    BY <1>t, <1>2, <2>1 DEF MirrorParts, DeltaOK, NoCursor
  <2> QED BY <1>1, <2>2 DEF Live
<1>3. CASE pc = "replace"
  <2>1. got[r] = Listed(r, slices) /\ slices = {}
    BY <1>3 DEF FetchKept, MirrorParts, ListOK
  <2>2. proton[r].slice \in 1..NSlices \/ proton[r].slice = Outside
    BY <1>t, NSlicesAssumption DEF Event, Outside
  <2> QED BY <1>1, <2>1, <2>2 DEF Listed, Live
<1> QED BY <1>2, <1>3

LEMMA PollerKept == KeepInv /\ Poller => KeepParts'
<1> SUFFICES ASSUME KeepInv, Poller PROVE KeepParts' OBVIOUS
<1>u. UNCHANGED <<external, w>> BY PollerFrame DEF unwritten
<1>1. /\ mem'.acked = mem.acked /\ mem'.gen = mem.gen /\ disk' \in {disk, mem'}
      /\ \A r \in Rows :
           \/ mem'.events[r] = mem.events[r]
           \/ /\ gen = mem.gen[cal] /\ r \in RowsOf(cal) /\ mem'.events[r] = got[r]
              /\ (pc = "apply" /\ r \in changed) \/ pc = "replace"
  BY PollerApplies DEF KeepInv
<1>2. NoSynth' /\ FetchNewer' /\ FetchKept' BY FetchKeeps
<1>3. WriterNewer' /\ WriterGone'
  BY <1>u, <1>1 DEF KeepInv, KeepParts, WriterNewer, WriterGone, Dead, Born, Live, external
<1>4. EmptyOK(mem)' BY <1>1 DEF KeepInv, KeepParts, EmptyOK, NoSynth, Known
<1>5. Kept(mem)'
  <2> SUFFICES ASSUME NEW r \in Rows, Current(mem, r)
               PROVE  mem'.events[r].ver # 0 \/ proton[r].slice = Outside
    BY <1>u, <1>1 DEF Kept, Current, Known, external
  <2>1. CASE mem'.events[r] = mem.events[r]
    BY <2>1 DEF KeepInv, KeepParts, Kept, Known
  <2>2. CASE mem'.events[r] # mem.events[r] BY <1>1, <2>2, AppliedKeeps
  <2> QED BY <2>1, <2>2
<1> QED BY <1>u, <1>1, <1>2, <1>3, <1>4, <1>5, KeptOnDisk

LEMMA AliasKept ==
  ASSUME KeepInv, NEW r \in Rows, RecordAlias(r)
  PROVE  KeepParts'
<1>1. UNCHANGED <<external, poller, w>> BY DEF RecordAlias, unpolled
<1>2. /\ mem'.events = mem.events /\ mem'.acked = mem.acked /\ mem'.gen = mem.gen
      /\ mem'.cursor = mem.cursor /\ disk' \in {disk, mem'}
  BY DEF RecordAlias, Persist, NoPersist, SetAlias, KeepInv, TypeInv, StoresOK, HStoreType
<1>3. EmptyOK(mem)' /\ Kept(mem)' /\ NoSynth'
  BY <1>1, <1>2 DEF KeepInv, KeepParts, EmptyOK, Kept, NoSynth, Known, Current, external,
                    poller, fetch
<1>4. FetchNewer' /\ FetchKept'
  BY <1>1, <1>2 DEF KeepInv, KeepParts, FetchNewer, FetchKept, Current, Listed, Live,
                    external, poller, fetch, RowsOf
<1>5. WriterNewer' /\ WriterGone'
  BY <1>1, <1>2 DEF KeepInv, KeepParts, WriterNewer, WriterGone, Dead, Born, Live, external
<1> QED BY <1>1, <1>2, <1>3, <1>4, <1>5, KeptOnDisk

-----------------------------------------------------------------------------
(* The invariant.                                                           *)

LEMMA EmptyKept == EmptyOK(NewStore) /\ Kept(NewStore)
BY DEF EmptyOK, Kept, Current, NewStore, EmptyStore, NoEvent

LEMMA RestartKept == KeepInv /\ Restart => KeepParts'
<1> SUFFICES ASSUME KeepInv, Restart PROVE KeepParts' OBVIOUS
<1>1. PICK st \in {disk, NewStore} : Booted(st) /\ UNCHANGED external BY DEF Restart
<1>2. /\ mem' = st /\ disk' = st /\ w' = IdleWrite /\ pc' = "idle" /\ got' = NoRows
      /\ UNCHANGED <<proton, touched>>
  BY <1>1 DEF Booted, external
<1>3. EmptyOK(st) /\ Kept(st) BY <1>1, EmptyKept DEF KeepInv, KeepParts
<1>4. EmptyOK(mem)' /\ EmptyOK(disk)' BY <1>2, <1>3 DEF EmptyOK, Known
<1>5. Kept(mem)' /\ Kept(disk)' BY <1>2, <1>3 DEF Kept, Current, Known
<1>6. NoSynth' BY <1>2 DEF KeepInv, KeepParts, NoSynth, NoRows, NoEvent
<1> QED BY <1>2, <1>4, <1>5, <1>6, WriterIdle, FetchOver DEF KeepParts, IdleWrite

LEMMA InitKept == Init => KeepInv
<1> SUFFICES ASSUME Init PROVE KeepInv OBVIOUS
<1>1. TypeInv /\ AckParts /\ MirrorParts
  BY InitAcked, InitMirrored DEF AckInv, AckParts, MirrorInv
<1>2. PICK R \in SUBSET Rows :
        proton = [r \in Rows |-> IF r \in R THEN [ver |-> 1, slice |-> 1, synth |-> FALSE]
                                ELSE NoEvent]
  BY DEF Init
<1>3. NoSynth BY <1>2 DEF Init, NoSynth, NoRows, NoEvent
<1>4. WriterNewer /\ WriterGone /\ FetchNewer /\ FetchKept
  BY DEF Init, IdleWrite, WriterNewer, WriterGone, FetchNewer, FetchKept
<1> QED BY <1>1, <1>3, <1>4, EmptyKept DEF Init, KeepInv, KeepParts

LEMMA NextKept == KeepInv /\ [Next]_vars => KeepInv'
<1> SUFFICES ASSUME KeepInv, [Next]_vars PROVE KeepInv' OBVIOUS
<1>1. TypeInv' /\ AckParts' /\ MirrorParts'
  BY NextAcked, NextMirrored DEF KeepInv, AckInv, AckParts, MirrorInv
<1> SUFFICES KeepParts' BY <1>1 DEF KeepInv
<1>2. CASE Others BY <1>2, OthersKept
<1>3. CASE Requests BY <1>3, RequestsKept
<1>4. CASE Writer BY <1>4, SendingKept, StoringKept DEF Writer, Sending
<1>5. ASSUME NEW r \in Rows, RecordAlias(r) PROVE KeepParts' BY <1>5, AliasKept
<1>6. CASE Poller BY <1>6, PollerKept
<1>7. CASE (\E c \in Cals : FullDeadline(c)) \/ UNCHANGED vars
  <2>1. UNCHANGED <<external, mem, disk, w, poller>>
    BY <1>7 DEF FullDeadline, NoPersist, unwritten, vars
  <2> QED BY <2>1, StillEvolves, WriterWaits, EvolvesKeep
<1>8. CASE Restart BY <1>8, RestartKept
<1> QED BY <1>2, <1>3, <1>4, <1>5, <1>6, <1>7, <1>8 DEF Next

LEMMA KeepInvariant == Spec => []KeepInv
BY InitKept, NextKept, PTL DEF Spec

\* What a client wrote and nobody touched since is what it reads back, whatever
\* snapshot or delta was applied in between: a fetch that began before the write
\* is refused by its generation, one that began after it has the row.
THEOREM ClientsReadTheirWrites == Spec => []ReadYourWrites
<1>1. KeepInv => ReadYourWrites BY KeepInvGivesProperty
<1> QED BY <1>1, KeepInvariant, PTL

\* The poller never replaces a row by an older version of it: not one a
\* write-through stored, and not one an earlier cycle fetched.
THEOREM NoRegress == Spec => PollerNeverRegresses
<1>1. ASSUME KeepInv, [Next]_vars
      PROVE  [Poller => \A r \in Rows : Known(mem', r) =>
                          mem'.events[r].ver >= mem.events[r].ver]_vars
  <2> SUFFICES ASSUME Poller, NEW r \in Rows, Known(mem', r)
               PROVE  mem'.events[r].ver >= mem.events[r].ver
    OBVIOUS
  <2>1. CASE mem'.events[r] = mem.events[r]
    BY <1>1, <2>1 DEF KeepInv, TypeInv, StoresOK, HStoreType, Event
  <2>2. CASE mem'.events[r] # mem.events[r]
    BY <1>1, <2>2, PollerApplies DEF KeepInv, KeepParts, FetchNewer, Known
  <2> QED BY <2>1, <2>2
<1> QED BY <1>1, KeepInvariant, PTL DEF Spec, PollerNeverRegresses

-----------------------------------------------------------------------------
(* The refinement.                                                          *)

\* What the mirror sees of a row, in the protocol's terms.
RightNow(r) ==
  \/ mem.events[r].ver = touched[r] /\ mem.events[r].synth = FALSE
  \/ mem.events[r].ver = 0 /\ ~(Live(r) /\ proton[r].slice # Outside)

OwedNow == {r \in Rows : ~RightNow(r) /\ touched[r] <= Reached(mem, Cal[r])}

LEMMA RightMeans == TypeInv => \A r \in Rows : M!Right(r) <=> RightNow(r)
<1> SUFFICES ASSUME TypeInv, NEW r \in Rows PROVE M!Right(r) <=> RightNow(r) OBVIOUS
<1>1. SeenIn(mem)[r] = [at |-> mem.events[r].ver, approx |-> mem.events[r].synth]
  BY DEF SeenIn
<1>2. /\ Truths[r].at = touched[r]
      /\ Truths[r].shown <=> Live(r) /\ proton[r].slice # Outside
  BY DEF Truths
<1>3. SeenIn(mem)[r].at = mem.events[r].ver /\ SeenIn(mem)[r].approx = mem.events[r].synth
  BY <1>1
<1>4. SeenIn(mem)[r] = [at |-> Truths[r].at, approx |-> FALSE]
        <=> mem.events[r].ver = touched[r] /\ mem.events[r].synth = FALSE
  <2>1. ASSUME SeenIn(mem)[r] = [at |-> Truths[r].at, approx |-> FALSE]
        PROVE  SeenIn(mem)[r].at = touched[r] /\ SeenIn(mem)[r].approx = FALSE
    BY <1>2, <2>1
  <2>2. ASSUME mem.events[r].ver = touched[r], mem.events[r].synth = FALSE
        PROVE  SeenIn(mem)[r] = [at |-> Truths[r].at, approx |-> FALSE]
    BY <1>1, <1>2, <2>2
  <2> QED BY <1>3, <2>1, <2>2
<1> QED BY <1>2, <1>3, <1>4 DEF M!Right, RightNow

LEMMA OwedMeans == TypeInv => M!Owed = OwedNow
<1> SUFFICES ASSUME TypeInv PROVE M!Owed = OwedNow OBVIOUS
<1>1. ASSUME NEW r \in Rows PROVE r \notin Told <=> touched[r] <= Reached(mem, Cal[r])
  BY CalAssumption
     DEF Told, Ahead, Reached, TypeInv, ExternalOK, StoresOK, HStoreType, PollerOK, NoCursor
<1> QED BY <1>1, RightMeans DEF M!Owed, OwedNow

\* A row that is as Proton has it is right.
SamesRight == \A r \in Rows : Same(mem.events[r], proton[r]) => RightNow(r)

LEMMA SameIsRight == KeepInv => SamesRight
<1> SUFFICES ASSUME KeepInv, NEW r \in Rows, Same(mem.events[r], proton[r])
             PROVE  RightNow(r)
  BY DEF SamesRight
<1>1. CASE Live(r) /\ mem.events[r] = proton[r]
  <2>1. proton[r].ver = touched[r] /\ proton[r].synth = FALSE
    BY <1>1 DEF KeepInv, AckParts, LogOK, KeepParts, NoSynth, TypeInv, ExternalOK, Event
  <2> QED BY <1>1, <2>1 DEF RightNow
<1>2. CASE ~Live(r) /\ mem.events[r] = proton[r] BY <1>2 DEF Live, RightNow
<1>3. CASE mem.events[r].ver = 0 /\ proton[r].slice = Outside BY <1>3 DEF RightNow
<1> QED BY <1>1, <1>2, <1>3 DEF Same

\* A persist that succeeds saves no more than is served.
LEMMA Saves ==
  ASSUME KeepInv, KeepInv', UNCHANGED external, disk' \in {disk, mem'}
  PROVE  M!MaySave
<1>1. CASE disk' = disk
  <2>1. Saved' = Saved BY <1>1 DEF Saved, SeenIn, Ahead, external
  <2> QED BY <2>1 DEF M!MaySave
<1>2. CASE disk' = mem'
  <2>1. /\ Saved'.seen = SeenIn(mem)' /\ Saved'.acked = mem'.acked
        /\ Saved'.told = {r \in Rows : touched'[r] > mem'.cursor[Cal[r]]}
    BY <1>2 DEF Saved, SeenIn, Ahead
  <2>2. ASSUME NEW r \in Rows, touched'[r] > Reached(mem, Cal[r])'
        PROVE  touched'[r] > mem'.cursor[Cal[r]]
    <3>1. /\ touched'[r] \in Nat /\ mem'.cursor[Cal[r]] \in Nat \cup {NoCursor}
          /\ Reached(mem, Cal[r])' >= mem'.cursor[Cal[r]]
          /\ Reached(mem, Cal[r])' \in Nat \cup {NoCursor}
      BY CalAssumption DEF Reached, BaseOK, KeepInv, MirrorParts, TypeInv, PollerOK,
                           ExternalOK, StoresOK, HStoreType, NoCursor
    <3> QED BY <2>2, <3>1 DEF NoCursor
  <2>3. Told' \subseteq Saved'.told BY <2>1, <2>2 DEF Told, Ahead
  <2> QED BY <2>1, <2>3 DEF M!MaySave
<1> QED BY <1>1, <1>2

\* A step that catches up with Proton: every row keeps its place, or becomes what
\* was fetched of it, and is right or still to be heard of unless it was owed.
LEMMA CatchUp ==
  ASSUME KeepInv, KeepInv', UNCHANGED external, mem'.acked = mem.acked,
         disk' \in {disk, mem'},
         \A r \in Rows :
           /\ \/ mem'.events[r] = mem.events[r]
              \/ /\ gen = mem.gen[cal] /\ r \in RowsOf(cal) /\ mem'.events[r] = got[r]
                 /\ pc \in {"apply", "replace"}
           /\ Reached(mem, Cal[r])' >= Reached(mem, Cal[r])
           /\ \/ Same(mem'.events[r], proton[r])
              \/ touched[r] > Reached(mem, Cal[r])'
              \/ mem'.events[r] = mem.events[r] /\ touched[r] <= Reached(mem, Cal[r])
  PROVE  M!Refresh
<1>u. UNCHANGED <<proton, touched, clock>> BY DEF external
<1>t. /\ \A r \in Rows : /\ touched[r] \in Nat
                         /\ Reached(mem, Cal[r]) \in Nat \cup {NoCursor}
                         /\ Reached(mem, Cal[r])' \in Nat \cup {NoCursor}
  BY CalAssumption DEF KeepInv, TypeInv, ExternalOK, StoresOK, HStoreType, PollerOK, Reached
<1>1. Truths' = Truths BY <1>u DEF Truths, Live
<1>2. Told' \subseteq Told BY <1>u, <1>t DEF Told, Ahead, NoCursor
<1>3. ASSUME NEW r \in Rows
      PROVE  \/ SeenIn(mem)'[r] \in {SeenIn(mem)[r], M!Nothing}
             \/ /\ ~SeenIn(mem)'[r].approx
                /\ SeenIn(mem)'[r].at \in SeenIn(mem)[r].at .. Truths'[r].at
                /\ SeenIn(mem)'[r].at >= mem.acked[r]
  <2>1. /\ SeenIn(mem)'[r] = [at |-> mem'.events[r].ver, approx |-> mem'.events[r].synth]
        /\ SeenIn(mem)[r] = [at |-> mem.events[r].ver, approx |-> mem.events[r].synth]
        /\ Truths'[r].at = touched[r]
    BY <1>u DEF SeenIn, Truths
  <2>2. CASE mem'.events[r] = mem.events[r] BY <2>1, <2>2
  <2>3. CASE mem'.events[r] # mem.events[r]
    <3>1. /\ gen = mem.gen[cal] /\ r \in RowsOf(cal) /\ mem'.events[r] = got[r]
          /\ pc \in {"apply", "replace"}
      BY <2>3
    <3>2. /\ got[r].ver \in Nat /\ got[r].synth = FALSE /\ got[r].ver <= touched[r]
          /\ mem.events[r].ver \in Nat /\ mem.acked[r] \in Nat
      BY <3>1 DEF KeepInv, TypeInv, PollerOK, StoresOK, HStoreType, Event, KeepParts, NoSynth,
                  AckParts, FetchAcked
    <3>3. CASE got[r].ver = 0 BY <2>1, <3>1, <3>2, <3>3 DEF M!Nothing
    <3>4. CASE got[r].ver # 0
      <4>1. got[r].ver >= mem.events[r].ver /\ got[r].ver >= mem.acked[r]
        BY <3>1, <3>4 DEF KeepInv, KeepParts, FetchNewer, AckParts, FetchAcked
      <4>2. SeenIn(mem)'[r].at = got[r].ver /\ SeenIn(mem)[r].at = mem.events[r].ver
        BY <2>1, <3>1
      <4>3. SeenIn(mem)'[r].approx = FALSE BY <2>1, <3>1, <3>2
      <4>4. SeenIn(mem)'[r].at \in SeenIn(mem)[r].at .. Truths'[r].at
        BY <1>t, <2>1, <3>2, <4>1, <4>2
      <4> QED BY <4>1, <4>2, <4>3, <4>4
    <3> QED BY <3>3, <3>4
  <2> QED BY <2>2, <2>3
<1>4. M!Owed' \subseteq M!Owed
  <2>1. M!Owed = OwedNow BY OwedMeans DEF KeepInv
  <2>2. M!Owed' = OwedNow'
    <3>1. (TypeInv => M!Owed = OwedNow)' BY OwedMeans, PTL
    <3> QED BY <3>1 DEF KeepInv
  <2>3. SamesRight'
    <3>1. KeepInv' => SamesRight' BY SameIsRight, PTL
    <3> QED BY <3>1
  <2>4. ASSUME NEW r \in Rows, ~RightNow(r)', touched[r] <= Reached(mem, Cal[r])'
        PROVE  ~RightNow(r) /\ touched[r] <= Reached(mem, Cal[r])
    <3>1. ~Same(mem'.events[r], proton[r]) BY <1>u, <2>3, <2>4 DEF SamesRight, Same
    <3>2. mem'.events[r] = mem.events[r] /\ touched[r] <= Reached(mem, Cal[r])
      BY <1>t, <2>4, <3>1 DEF NoCursor
    <3> QED BY <1>u, <2>4, <3>2 DEF RightNow, Live
  <2> QED BY <1>u, <2>1, <2>2, <2>4 DEF OwedNow
<1>5. M!MaySave BY Saves
<1> QED BY <1>1, <1>2, <1>3, <1>4, <1>5 DEF M!Refresh

\* Where no row moves, no cursor moves either, or moves to where it was laid.
LEMMA NothingCaughtUp ==
  ASSUME KeepInv, KeepInv', UNCHANGED external, mem'.acked = mem.acked,
         disk' \in {disk, mem'}, mem'.events = mem.events,
         \A r \in Rows : Reached(mem, Cal[r])' = Reached(mem, Cal[r])
  PROVE  M!Refresh
<1>1. ASSUME NEW r \in Rows
      PROVE  /\ Reached(mem, Cal[r])' >= Reached(mem, Cal[r])
             /\ \/ touched[r] > Reached(mem, Cal[r])'
                \/ touched[r] <= Reached(mem, Cal[r])
  BY CalAssumption
     DEF KeepInv, TypeInv, ExternalOK, StoresOK, HStoreType, PollerOK, Reached, NoCursor
<1> QED BY <1>1, CatchUp

LEMMA DeltaRefreshes == KeepInv /\ KeepInv' /\ DeltaApply => M!Refresh
<1> SUFFICES ASSUME KeepInv, KeepInv', DeltaApply PROVE M!Refresh OBVIOUS
<1>u. UNCHANGED external BY DEF DeltaApply, unwritten
<1>t. /\ mem \in HStoreType /\ mem.cursor \in [Cals -> Nat \cup {NoCursor}]
      /\ touched \in [Rows -> Nat] /\ cal \in Cals /\ base \in Nat \cup {NoCursor}
      /\ got \in [Rows -> Event] /\ changed \subseteq RowsOf(cal) /\ Cal \in [Rows -> Cals]
  BY CalAssumption DEF KeepInv, TypeInv, PollerOK, ExternalOK, StoresOK, HStoreType
<1>p. /\ pc = "apply" /\ pc' = "next" /\ base # NoCursor
      /\ base >= mem.cursor[cal]
      /\ \A r \in RowsOf(cal) :
           IF r \in changed THEN touched[r] > base \/ got[r] = proton[r]
           ELSE touched[r] <= mem.cursor[cal] \/ touched[r] > base
  BY DEF DeltaApply, CalendarDone, KeepInv, MirrorParts, DeltaOK, BaseOK
<1>1. CASE NoPersist
  <2>1. \A r \in Rows : Reached(mem, Cal[r])' = Reached(mem, Cal[r])
    BY <1>1, <1>p DEF Reached, NoPersist
  <2> QED BY <1>1, <1>u, <2>1, NothingCaughtUp DEF NoPersist
<1>2. CASE /\ GenHeld(mem, cal, gen)
           /\ Persist(WithoutDrift(ApplyCalendarDelta(mem, cal, changed, got, base), changed))
  <2> DEFINE a == ApplyCalendarDelta(mem, cal, changed, got, base)
             st == WithoutDrift(a, changed)
  <2>1. a \in HStoreType BY <1>t, ApplyTyped
  <2>2. /\ a.events = [r \in Rows |-> IF r \in changed THEN got[r] ELSE mem.events[r]]
        /\ a.acked = mem.acked
        /\ \A c \in Cals : a.cursor[c] = IF c = cal THEN base ELSE mem.cursor[c]
    BY <1>t, DeltaFacts
  <2> HIDE DEF a
  <2>3. st.events = a.events /\ st.cursor = a.cursor /\ st.acked = a.acked
    BY <2>1, DriftFacts DEF SameServed
  <2>4. mem' = st /\ disk' \in {disk, mem'} BY <1>2 DEF Persist, a
  <2> HIDE DEF st
  <2>5. ASSUME NEW r \in Rows
        PROVE  /\ \/ mem'.events[r] = mem.events[r]
                  \/ /\ gen = mem.gen[cal] /\ r \in RowsOf(cal) /\ mem'.events[r] = got[r]
                     /\ pc \in {"apply", "replace"}
               /\ Reached(mem, Cal[r])' >= Reached(mem, Cal[r])
               /\ \/ Same(mem'.events[r], proton[r])
                  \/ touched[r] > Reached(mem, Cal[r])'
                  \/ mem'.events[r] = mem.events[r] /\ touched[r] <= Reached(mem, Cal[r])
    <3>1. /\ Reached(mem, Cal[r]) = mem.cursor[Cal[r]]
          /\ Reached(mem, Cal[r])' = IF Cal[r] = cal THEN base ELSE mem.cursor[Cal[r]]
      BY <1>p, <1>t, <2>2, <2>3, <2>4 DEF Reached
    <3>2. touched[r] \in Nat /\ mem.cursor[Cal[r]] \in Nat \cup {NoCursor} BY <1>t
    <3>3. CASE r \in changed
      <4>1. r \in RowsOf(cal) /\ Cal[r] = cal /\ mem'.events[r] = got[r]
        BY <1>t, <2>2, <2>3, <2>4, <3>3 DEF RowsOf
      <4> QED BY <1>p, <1>2, <3>1, <3>3, <4>1 DEF Same, GenHeld
    <3>4. CASE r \notin changed
      <4>1. mem'.events[r] = mem.events[r] BY <2>2, <2>3, <2>4, <3>4
      <4>2. Cal[r] = cal => touched[r] <= mem.cursor[cal] \/ touched[r] > base
        BY <1>p, <3>4 DEF RowsOf
      <4> QED BY <1>p, <1>t, <3>1, <3>2, <4>1, <4>2 DEF NoCursor
    <3> QED BY <3>3, <3>4
  <2> QED BY <1>u, <2>2, <2>3, <2>4, <2>5, CatchUp
<1> QED BY <1>1, <1>2 DEF DeltaApply

LEMMA ReplaceRefreshes == KeepInv /\ KeepInv' /\ SnapshotReplace => M!Refresh
<1> SUFFICES ASSUME KeepInv, KeepInv', SnapshotReplace PROVE M!Refresh OBVIOUS
<1>u. UNCHANGED external /\ UNCHANGED fetch BY DEF SnapshotReplace, unwritten
<1>t. /\ mem \in HStoreType /\ mem.cursor \in [Cals -> Nat \cup {NoCursor}]
      /\ cal \in Cals /\ got \in [Rows -> Event] /\ base \in Nat \cup {NoCursor}
      /\ proton \in [Rows -> Event] /\ Cal \in [Rows -> Cals] /\ touched \in [Rows -> Nat]
  BY CalAssumption DEF KeepInv, TypeInv, PollerOK, StoresOK, ExternalOK, HStoreType
<1>p. /\ pc = "replace" /\ pc' = "setcursor" /\ slices = {} /\ GenHeld(mem, cal, gen)
      /\ DeadOK /\ (base # NoCursor => base >= mem.cursor[cal])
      /\ \A r \in RowsOf(cal) : touched[r] > Floor \/ got[r] = Listed(r, {})
  BY DEF SnapshotReplace, KeepInv, MirrorParts, ListOK, BaseOK
<1> DEFINE a == ReplaceCalendarEvents(mem, cal, got)
           st == WithoutDrift(a, RowsOf(cal))
<1>1. a \in HStoreType BY <1>t, ApplyTyped
<1>2. /\ a.events = [r \in Rows |-> IF r \in RowsOf(cal) THEN got[r] ELSE mem.events[r]]
      /\ a.acked = mem.acked /\ a.cursor = mem.cursor
  BY <1>t, ReplaceFacts
<1>3. mem' = st /\ disk' \in {disk, mem'} BY DEF SnapshotReplace, Persist
<1> HIDE DEF a
<1>4. st.events = a.events /\ st.cursor = a.cursor /\ st.acked = a.acked
  BY <1>1, DriftFacts DEF SameServed
<1> HIDE DEF st
<1>5. ASSUME NEW r \in Rows
      PROVE  /\ \/ mem'.events[r] = mem.events[r]
                \/ /\ gen = mem.gen[cal] /\ r \in RowsOf(cal) /\ mem'.events[r] = got[r]
                   /\ pc \in {"apply", "replace"}
             /\ Reached(mem, Cal[r])' >= Reached(mem, Cal[r])
             /\ \/ Same(mem'.events[r], proton[r])
                \/ touched[r] > Reached(mem, Cal[r])'
                \/ mem'.events[r] = mem.events[r] /\ touched[r] <= Reached(mem, Cal[r])
  <2>1. Reached(mem, Cal[r]) = mem.cursor[Cal[r]] BY <1>p DEF Reached
  <2>2. touched[r] \in Nat /\ mem.cursor[Cal[r]] \in Nat \cup {NoCursor} BY <1>t
  <2>3. CASE r \in RowsOf(cal)
    <3>1. Cal[r] = cal /\ Reached(mem, Cal[r])' = Floor /\ Floor >= mem.cursor[cal]
      BY <1>p, <1>t, <1>u, <1>2, <1>3, <1>4, <2>3 DEF Reached, Floor, RowsOf, fetch, NoCursor
    <3>2. mem'.events[r] = got[r] BY <1>2, <1>3, <1>4, <2>3
    <3>3. Same(Listed(r, {}), proton[r])
      <4>1. CASE Live(r) /\ proton[r].slice \in 1..NSlices BY <4>1 DEF Listed, Same
      <4>2. CASE Live(r) /\ proton[r].slice \notin 1..NSlices
        <5>1. proton[r].slice = Outside
          BY <1>t, <4>2, NSlicesAssumption DEF Event, Outside
        <5> QED BY <4>2, <5>1 DEF Listed, Same, NoEvent
      <4>3. CASE ~Live(r) BY <1>p, <4>3 DEF DeadOK, Listed, Same
      <4> QED BY <4>1, <4>2, <4>3
    <3> QED BY <1>p, <2>1, <2>3, <3>1, <3>2, <3>3 DEF GenHeld
  <2>4. CASE r \notin RowsOf(cal)
    <3>1. Cal[r] # cal /\ mem'.events[r] = mem.events[r]
      BY <1>2, <1>3, <1>4, <2>4 DEF RowsOf
    <3>2. Reached(mem, Cal[r])' = mem.cursor[Cal[r]]
      BY <1>u, <1>2, <1>3, <1>4, <3>1 DEF Reached, fetch
    <3> QED BY <2>1, <2>2, <3>1, <3>2 DEF NoCursor
  <2> QED BY <2>3, <2>4
<1> QED BY <1>u, <1>2, <1>3, <1>4, <1>5, CatchUp

LEMMA SetCursorRefreshes == KeepInv /\ KeepInv' /\ SnapshotSetCursor => M!Refresh
<1> SUFFICES ASSUME KeepInv, KeepInv', SnapshotSetCursor PROVE M!Refresh OBVIOUS
<1>u. UNCHANGED external BY DEF SnapshotSetCursor, unwritten
<1>t. /\ mem \in HStoreType /\ cal \in Cals /\ Cal \in [Rows -> Cals]
      /\ base \in Nat \cup {NoCursor}
  BY CalAssumption DEF KeepInv, TypeInv, PollerOK, StoresOK
<1>p. pc = "setcursor" /\ pc' = "next" BY DEF SnapshotSetCursor, CalendarDone
<1>1. /\ mem'.events = mem.events /\ mem'.acked = mem.acked /\ disk' \in {disk, mem'}
      /\ \A c \in Cals : mem'.cursor[c] = IF c = cal /\ base # NoCursor THEN base
                                           ELSE mem.cursor[c]
  <2>1. CASE Persist(SetCursor(mem, cal, base)) /\ base # NoCursor
    <3>1. mem' = SetCursor(mem, cal, base) /\ disk' \in {disk, mem'} BY <2>1 DEF Persist
    <3> QED BY <1>t, <2>1, <3>1, CursorFacts, CursorMoves DEF SameServed
  <2>2. CASE NoPersist /\ (base = NoCursor \/ base = mem.cursor[cal])
    BY <2>2 DEF NoPersist
  <2> QED BY <2>1, <2>2 DEF SnapshotSetCursor
<1>2. \A r \in Rows : Reached(mem, Cal[r])' = Reached(mem, Cal[r])
  BY <1>p, <1>1, <1>t DEF Reached
<1> QED BY <1>u, <1>1, <1>2, NothingCaughtUp

LEMMA PollerRefreshes == KeepInv /\ KeepInv' /\ Poller => M!Refresh
<1> SUFFICES ASSUME KeepInv, KeepInv', Poller PROVE M!Refresh OBVIOUS
<1>u. UNCHANGED external BY PollerFrame DEF unwritten
<1>q. ASSUME pc # "setcursor", pc' # "setcursor", mem'.events = mem.events,
             mem'.cursor = mem.cursor
      PROVE  M!Refresh
  <2>1. mem'.acked = mem.acked /\ disk' \in {disk, mem'} BY PollerApplies DEF KeepInv
  <2> QED BY <1>u, <1>q, <2>1, NothingCaughtUp DEF Reached
<1>1. CASE \/ CycleAborts \/ CycleStarts \/ (\E cs \in SUBSET Cals : CycleStartsOnBlip(cs))
           \/ CycleEnds
  <2>1. \/ UNCHANGED mem \/ (\E cs : mem' = ReplaceCalendars(mem, cs))
        \/ mem' = MarkSynced(mem)
    BY <1>1 DEF CycleAborts, CycleStarts, CycleStartsOnBlip, CycleEnds, Persist, NoPersist
  <2>2. mem'.events = mem.events /\ mem'.cursor = mem.cursor
    BY <2>1 DEF ReplaceCalendars, MarkSynced, KeepInv, TypeInv, StoresOK, HStoreType
  <2> QED BY <1>1, <1>q, <2>2
             DEF CycleAborts, CycleStarts, CycleStartsOnBlip, CycleEnds, EndCycle
<1>2. CASE \/ (\E c \in Cals : NextCalendar(c)) \/ FetchFails \/ DeltaPages \/ DeltaRefresh
           \/ (\E r \in Rows : DeltaGet(r)) \/ Baseline \/ SnapshotRefused
           \/ (\E s \in 1..NSlices : ListSlice(s))
  <2>1. pc # "setcursor" /\ pc' # "setcursor" /\ UNCHANGED mem
    BY <1>2 DEF NextCalendar, FetchFails, DeltaPages, DeltaRefresh, DeltaGet, Baseline,
                SnapshotRefused, ListSlice, NoPersist, CalendarDone
  <2> QED BY <1>q, <2>1
<1> QED BY <1>1, <1>2, DeltaRefreshes, ReplaceRefreshes, SetCursorRefreshes DEF Poller

LEMMA ToldReplaced ==
  ASSUME NEW a, NEW b, NEW c, NEW s, NEW R,
         s = [seen |-> a, acked |-> b, told |-> c]
  PROVE  [s EXCEPT !.told = s.told \cup R] = [seen |-> a, acked |-> b, told |-> c \cup R]
OBVIOUS

\* The rows that get an entry of the log are the rows the mirror is to hear of.
LEMMA ChangeStep ==
  ASSUME KeepInv, KeepInv', UNCHANGED <<mem, disk, poller>>, NEW R \in SUBSET Rows,
         \A r \in R : touched'[r] > clock[Cal[r]],
         \A r \in Rows \ R : touched'[r] = touched[r] /\ proton'[r] = proton[r]
  PROVE  M!Change(R)
<1>t. ASSUME NEW r \in Rows
      PROVE  /\ touched[r] \in Nat /\ touched'[r] \in Nat /\ clock[Cal[r]] \in Nat
             /\ touched[r] <= clock[Cal[r]]
             /\ Reached(mem, Cal[r]) \in Nat \cup {NoCursor}
             /\ Reached(mem, Cal[r]) <= clock[Cal[r]]
             /\ disk.cursor[Cal[r]] \in Nat \cup {NoCursor}
             /\ disk.cursor[Cal[r]] <= clock[Cal[r]]
  BY CalAssumption
     DEF KeepInv, TypeInv, ExternalOK, StoresOK, HStoreType, PollerOK, Reached, MirrorParts,
         LogBound, CursorOK, BaseOK
<1>1. ASSUME NEW r \in Rows
      PROVE  IF r \in R THEN Truths'[r].at > Truths[r].at ELSE Truths'[r] = Truths[r]
  <2>1. Truths'[r].at = touched'[r] /\ Truths[r].at = touched[r] BY DEF Truths
  <2>2. CASE r \in R BY <1>t, <2>1, <2>2
  <2>3. CASE r \notin R BY <2>3 DEF Truths, Live
  <2> QED BY <2>2, <2>3
<1>2. UNCHANGED <<SeenIn(mem), mem.acked>> BY DEF SeenIn
<1>3. Told' = Told \cup R
  <2>1. \A r \in Rows : Reached(mem, Cal[r])' = Reached(mem, Cal[r])
    BY DEF Reached, poller, fetch
  <2>2. ASSUME NEW r \in Rows
        PROVE  touched'[r] > Reached(mem, Cal[r]) <=>
                 touched[r] > Reached(mem, Cal[r]) \/ r \in R
    BY <1>t DEF NoCursor
  <2> QED BY <2>1, <2>2 DEF Told, Ahead
<1>4. Saved' = [Saved EXCEPT !.told = Saved.told \cup R]
  <2>1. ASSUME NEW r \in Rows
        PROVE  touched'[r] > disk.cursor[Cal[r]] <=>
                 touched[r] > disk.cursor[Cal[r]] \/ r \in R
    BY <1>t DEF NoCursor
  <2> DEFINE ahead == {r \in Rows : Ahead(r, disk.cursor[Cal[r]])}
  <2>2. ahead' = ahead \cup R BY <2>1 DEF Ahead
  <2>3. Saved = [seen |-> SeenIn(disk), acked |-> disk.acked, told |-> ahead] BY DEF Saved
  <2>4. Saved' = [seen |-> SeenIn(disk), acked |-> disk.acked, told |-> ahead']
    BY DEF Saved, SeenIn
  <2>5. [Saved EXCEPT !.told = Saved.told \cup R] =
          [seen |-> SeenIn(disk), acked |-> disk.acked, told |-> ahead \cup R]
    <3> HIDE DEF ahead
    <3> QED BY <2>3, ToldReplaced
  <2> HIDE DEF ahead
  <2> QED BY <2>2, <2>4, <2>5
<1> QED BY <1>1, <1>2, <1>3, <1>4 DEF M!Change

LEMMA PutChanges ==
  ASSUME KeepInv, KeepInv', UNCHANGED <<mem, disk, poller>>,
         NEW r \in Rows, NEW s \in 0..NSlices, PutRow(r, s)
  PROVE  M!Change({r})
<1>1. /\ touched' = [q \in Rows |-> IF q = r THEN clock[Cal[r]] + 1 ELSE touched[q]]
      /\ proton' = [proton EXCEPT ![r] = Written(r, s)] /\ proton \in [Rows -> Event]
      /\ clock[Cal[r]] \in Nat
  BY CalAssumption DEF PutRow, Logged, KeepInv, TypeInv, ExternalOK
<1> QED BY <1>1, ChangeStep

LEMMA DropChanges ==
  ASSUME KeepInv, KeepInv', UNCHANGED <<mem, disk, poller>>,
         NEW c \in Cals, NEW R \in SUBSET RowsOf(c), DropRows(c, R)
  PROVE  R \in SUBSET Rows /\ M!Change(R)
<1>1. /\ touched' = [r \in Rows |-> IF r \in R THEN clock[c] + 1 ELSE touched[r]]
      /\ proton' = [r \in Rows |-> IF r \in R THEN NoEvent ELSE proton[r]]
      /\ clock[c] \in Nat
  BY DEF DropRows, Logged, KeepInv, TypeInv, ExternalOK
<1>2. R \in SUBSET Rows /\ \A r \in R : Cal[r] = c BY DEF RowsOf
<1>3. /\ \A r \in R : touched'[r] > clock[Cal[r]]
      /\ \A r \in Rows \ R : touched'[r] = touched[r] /\ proton'[r] = proton[r]
  BY <1>1, <1>2
<1> QED BY <1>2, <1>3, ChangeStep

LEMMA OthersChange == KeepInv /\ KeepInv' /\ Others => \E R \in SUBSET Rows : M!Change(R)
<1> SUFFICES ASSUME KeepInv, KeepInv', Others PROVE \E R \in SUBSET Rows : M!Change(R)
  OBVIOUS
<1>1. UNCHANGED <<mem, disk, poller>>
  BY DEF Others, ProtonPut, ProtonDelete, ProtonOther, internal
<1>2. ASSUME NEW r \in Rows, ProtonPut(r) PROVE \E R \in SUBSET Rows : M!Change(R)
  BY <1>1, <1>2, PutChanges DEF ProtonPut
<1>3. ASSUME NEW r \in Rows, ProtonDelete(r) PROVE \E R \in SUBSET Rows : M!Change(R)
  <2>1. Cal[r] \in Cals /\ {r} \in SUBSET RowsOf(Cal[r]) BY CalAssumption DEF RowsOf
  <2> QED BY <1>1, <1>3, <2>1, DropChanges DEF ProtonDelete
<1>4. ASSUME NEW c \in Cals, ProtonOther(c) PROVE \E R \in SUBSET Rows : M!Change(R)
  <2>1. touched' = touched /\ proton' = proton
    BY <1>4 DEF ProtonOther, Logged, KeepInv, TypeInv, ExternalOK
  <2>2. M!Change({}) BY <1>1, <2>1, ChangeStep
  <2> QED BY <2>2
<1> QED BY <1>2, <1>3, <1>4 DEF Others

LEMMA StillStutters == UNCHANGED <<proton, touched, mem, disk, poller>> => UNCHANGED M!vars
BY DEF M!vars, Truths, SeenIn, Told, Saved, Live, Ahead, Reached, poller, fetch

LEMMA SendingChanges ==
  KeepInv /\ KeepInv' /\ Sending => (\E R \in SUBSET Rows : M!Change(R)) \/ UNCHANGED M!vars
<1> SUFFICES ASSUME KeepInv, KeepInv', Sending
             PROVE  (\E R \in SUBSET Rows : M!Change(R)) \/ UNCHANGED M!vars
  OBVIOUS
<1>0. UNCHANGED <<mem, disk, poller>> BY SendingFrame DEF unpolled
<1>w. w.pc # "idle" => w.row \in Rows BY DEF KeepInv, TypeInv, WriteOK
<1>1. CASE \E r \in Rows : SendCreate(r)
  BY <1>0, <1>1, PutChanges DEF SendCreate
<1>2. CASE SendUpdate
  <2>1. PICK s \in 0..NSlices : w.row \in Rows /\ PutRow(w.row, s)
    BY <1>w, <1>2 DEF SendUpdate, KeepInv, TypeInv, ExternalOK, Event
  <2> QED BY <1>0, <2>1, PutChanges
<1>3. CASE SendDelete
  <2>1. w.row \in Rows BY <1>w, <1>3 DEF SendDelete
  <2>2. PICK targets \in SUBSET Siblings(w.row) : DropRows(Cal[w.row], targets)
    BY <1>3, <2>1, SiblingsFacts DEF SendDelete
  <2>3. targets \in SUBSET RowsOf(Cal[w.row]) /\ Cal[w.row] \in Cals
    BY <2>1, CalAssumption DEF Siblings
  <2> QED BY <1>0, <2>2, <2>3, DropChanges
<1>4. CASE RecheckFound \/ RecheckPassed \/ SendFails \/ SendDeleteNotFound \/ Reread
           \/ RereadFails \/ RsvpUnread
  <2>1. UNCHANGED external
    BY <1>4 DEF RecheckFound, RecheckPassed, SendFails, SendDeleteNotFound, Reread,
                RereadFails, RsvpUnread, local
  <2> QED BY <1>0, <2>1, StillStutters DEF external
<1> QED BY <1>1, <1>2, <1>3, <1>4 DEF Sending

LEMMA UpsertWrites == KeepInv /\ KeepInv' /\ WriteThrough => M!Write(w.row) /\ w.row \in Rows
<1> SUFFICES ASSUME KeepInv, KeepInv', WriteThrough PROVE M!Write(w.row) /\ w.row \in Rows
  OBVIOUS
<1>1. /\ w.row \in Rows /\ w.op # "delete" /\ w.pc = "store"
      /\ UNCHANGED <<external, poller>> /\ disk' \in {disk, mem'}
      /\ \A r \in Rows : mem'.events[r] = IF r = w.row THEN w.value ELSE mem.events[r]
      /\ \A r \in Rows : mem'.acked[r] = IF r = w.row THEN w.value.ver ELSE mem.acked[r]
      /\ mem'.cursor = mem.cursor
  BY UpsertStored DEF KeepInv
<1>2. /\ w.value.ver \in Nat /\ w.value.ver # 0 /\ w.value.ver >= mem.acked[w.row]
      /\ w.value.ver <= touched[w.row] /\ touched[w.row] \in Nat
  BY <1>1 DEF KeepInv, KeepParts, WriterNewer, AckParts, WriterAcked, TypeInv, WriteOK,
              WriteType, Event, ExternalOK
<1>3. Truths' = Truths /\ Told' = Told
  BY <1>1 DEF Truths, Told, Live, Ahead, Reached, external, poller, fetch
<1>4. SeenIn(mem)' = [SeenIn(mem) EXCEPT ![w.row] = SeenIn(mem)'[w.row]]
  BY <1>1 DEF SeenIn
<1>5. SeenIn(mem)'[w.row].at = w.value.ver /\ Truths[w.row].at = touched[w.row]
  BY <1>1 DEF SeenIn, Truths
<1>6. mem'.acked = [mem.acked EXCEPT ![w.row] = SeenIn(mem)'[w.row].at]
  <2>1. mem.acked \in [Rows -> Nat] /\ mem'.acked \in [Rows -> Nat]
    BY DEF KeepInv, TypeInv, StoresOK, HStoreType
  <2> QED BY <1>1, <1>5, <2>1
<1>7. M!MaySave BY <1>1, Saves
<1>8. SeenIn(mem)'[w.row].at \in 1..Truths[w.row].at
      /\ SeenIn(mem)'[w.row].at >= mem.acked[w.row]
  BY <1>2, <1>5
<1> QED BY <1>1, <1>3, <1>4, <1>6, <1>7, <1>8 DEF M!Write

LEMMA DeleteRemoves ==
  KeepInv /\ KeepInv' /\ WriteThroughDelete => \E R \in SUBSET Rows : M!Remove(R)
<1> SUFFICES ASSUME KeepInv, KeepInv', WriteThroughDelete
             PROVE  \E R \in SUBSET Rows : M!Remove(R)
  OBVIOUS
<1> DEFINE G == IF w.group THEN Siblings(w.row) ELSE {w.row}
           R == IF w.group THEN w.gone ELSE {w.row}
           V == IF w.group THEN Siblings(w.row) ELSE {}
<1>1. /\ w.row \in Rows
      /\ UNCHANGED <<external, poller>> /\ disk' \in {disk, mem'}
      /\ \A r \in Rows : mem'.events[r] = IF r \in Purged THEN NoEvent ELSE mem.events[r]
      /\ \A r \in Rows : mem'.acked[r] = IF r \in R THEN touched[r]
                                         ELSE IF r \in V THEN 0 ELSE mem.acked[r]
      /\ mem'.cursor = mem.cursor
  BY DeleteStored DEF KeepInv
<1>2. G \subseteq Rows /\ Purged \subseteq G /\ w.gone \subseteq Siblings(w.row)
  BY <1>1, SiblingsFacts DEF Purged, KeepInv, TypeInv, WriteOK
<1>3. Truths' = Truths /\ Told' = Told
  BY <1>1 DEF Truths, Told, Live, Ahead, Reached, external, poller, fetch
<1>4. SeenIn(mem)' = [r \in Rows |-> IF r \in G THEN M!Nothing ELSE SeenIn(mem)[r]]
  <2>1. ASSUME NEW r \in Rows
        PROVE  [at |-> mem'.events[r].ver, approx |-> mem'.events[r].synth] =
                 IF r \in G THEN M!Nothing ELSE SeenIn(mem)[r]
    <3>1. CASE r \in Purged
      <4>1. r \in G BY <1>2, <3>1
      <4>2. mem'.events[r].ver = 0 /\ mem'.events[r].synth = FALSE
        BY <1>1, <3>1 DEF NoEvent
      <4> HIDE DEF G
      <4> QED BY <4>1, <4>2 DEF M!Nothing
    <3>2. CASE r \in G /\ r \notin Purged
      <4>1. ~Known(mem, r) BY <3>2 DEF Purged
      <4>2. mem.events[r].ver = 0 /\ mem.events[r].synth = FALSE
        BY <4>1 DEF Known, KeepInv, KeepParts, EmptyOK, TypeInv, StoresOK, HStoreType, Event
      <4> QED BY <1>1, <3>2, <4>2 DEF M!Nothing
    <3>3. CASE r \notin G BY <1>1, <1>2, <3>3 DEF SeenIn
    <3> QED BY <3>1, <3>2, <3>3
  <2> HIDE DEF G
  <2> QED BY <2>1 DEF SeenIn
<1>5. \A r \in Rows : IF r \in G THEN mem'.acked[r] \in {0, Truths[r].at}
                                 ELSE mem'.acked[r] = mem.acked[r]
  <2>1. \A r \in Rows : Truths[r].at = touched[r] BY DEF Truths
  <2>2. R \subseteq G /\ (\A r \in G : r \in R \/ r \in V) /\ V \subseteq G BY <1>2
  <2> HIDE DEF G, R, V
  <2> QED BY <1>1, <2>1, <2>2
<1>6. M!MaySave BY <1>1, Saves
<1>7. M!Remove(G)
  <2> HIDE DEF G, R, V
  <2> QED BY <1>3, <1>4, <1>5, <1>6 DEF M!Remove
<1> QED BY <1>2, <1>7

LEMMA BlankOf ==
  /\ SeenIn(NewStore) = M!Blank.seen /\ NewStore.acked = M!Blank.acked
  /\ \A c \in Cals : NewStore.cursor[c] = NoCursor
  /\ M!Blank = [seen |-> M!Blank.seen, acked |-> M!Blank.acked, told |-> Rows]
BY DEF SeenIn, NewStore, EmptyStore, NoEvent, M!Blank, M!Nothing

LEMMA RestartRestarts == KeepInv /\ KeepInv' /\ Restart => M!Restart
<1> SUFFICES ASSUME KeepInv, KeepInv', Restart PROVE M!Restart OBVIOUS
<1>1. PICK st \in {disk, NewStore} : Booted(st) /\ UNCHANGED external BY DEF Restart
<1>2. /\ mem' = st /\ disk' = st /\ pc' = "idle" /\ UNCHANGED <<proton, touched>>
  BY <1>1 DEF Booted, external
<1>3. Truths' = Truths BY <1>2 DEF Truths, Live
<1>4. Saved' = [seen |-> SeenIn(st), acked |-> st.acked,
                told |-> {r \in Rows : touched[r] > st.cursor[Cal[r]]}]
  BY <1>2 DEF Saved, Ahead, SeenIn
<1>5. Saved' \in {Saved, M!Blank}
  <2>1. CASE st = disk BY <1>4, <2>1 DEF Saved, Ahead
  <2>2. CASE st = NewStore
    <3>1. \A r \in Rows : touched[r] > st.cursor[Cal[r]]
      BY <2>2, BlankOf, CalAssumption DEF KeepInv, TypeInv, ExternalOK, NoCursor
    <3>2. {r \in Rows : touched[r] > st.cursor[Cal[r]]} = Rows BY <3>1
    <3> QED BY <1>4, <2>2, <3>2, BlankOf
  <2> QED BY <1>1, <2>1, <2>2
<1>6. SeenIn(mem)' = SeenIn(st) /\ mem'.acked = st.acked
  BY <1>2 DEF SeenIn
<1>7. Told' = {r \in Rows : touched[r] > st.cursor[Cal[r]]}
  BY <1>2 DEF Told, Ahead, Reached
<1> QED BY <1>3, <1>4, <1>5, <1>6, <1>7 DEF M!Restart

LEMMA AliasRefreshes ==
  ASSUME KeepInv, KeepInv', NEW r \in Rows, RecordAlias(r)
  PROVE  M!Refresh
<1>1. UNCHANGED <<external, poller>> BY DEF RecordAlias, unpolled
<1>2. /\ mem'.events = mem.events /\ mem'.acked = mem.acked /\ mem'.cursor = mem.cursor
      /\ disk' \in {disk, mem'}
  BY DEF RecordAlias, Persist, NoPersist, SetAlias, KeepInv, TypeInv, StoresOK, HStoreType
<1>3. \A q \in Rows : Reached(mem, Cal[q])' = Reached(mem, Cal[q])
  BY <1>1, <1>2 DEF Reached, poller, fetch
<1> QED BY <1>1, <1>2, <1>3, NothingCaughtUp

LEMMA InitMapped == Init => M!Init
<1> SUFFICES ASSUME Init PROVE M!Init OBVIOUS
<1>1. TypeInv BY InitTyped
<1>2. Truths \in [Rows -> M!Truth]
  BY <1>1 DEF Truths, M!Truth, TypeInv, ExternalOK, Live
<1>3. mem = NewStore /\ disk = NewStore /\ pc = "idle" BY DEF Init
<1>4. \A r \in Rows : touched[r] > NewStore.cursor[Cal[r]]
  BY <1>1, BlankOf, CalAssumption DEF TypeInv, ExternalOK, NoCursor
<1>5. Told = Rows /\ Saved.told = Rows BY <1>3, <1>4 DEF Told, Saved, Ahead, Reached
<1>6. Saved = [seen |-> SeenIn(NewStore), acked |-> NewStore.acked, told |-> Saved.told]
  BY <1>3 DEF Saved
<1>7. M!Blank.told = Rows BY DEF M!Blank
<1> QED BY <1>2, <1>3, <1>5, <1>6, <1>7, BlankOf DEF M!Init

LEMMA NextMapped == KeepInv /\ KeepInv' /\ [Next]_vars => [M!Next]_M!vars
<1> SUFFICES ASSUME KeepInv, KeepInv', [Next]_vars PROVE [M!Next]_M!vars OBVIOUS
<1>1. CASE Others BY <1>1, OthersChange DEF M!Next
<1>2. CASE Requests \/ (\E c \in Cals : FullDeadline(c)) \/ UNCHANGED vars
  <2>1. UNCHANGED <<proton, touched, mem, disk, poller>>
    BY <1>2 DEF Requests, BeginCreate, BeginUpdate, BeginDelete, local, unpolled, external,
                FullDeadline, NoPersist, unwritten, vars
  <2> QED BY <2>1, StillStutters
<1>3. CASE Writer
  BY <1>3, SendingChanges, UpsertWrites, DeleteRemoves DEF Writer, Sending, M!Next
<1>4. CASE \E r \in Rows : RecordAlias(r) BY <1>4, AliasRefreshes DEF M!Next
<1>5. CASE Poller BY <1>5, PollerRefreshes DEF M!Next
<1>6. CASE Restart BY <1>6, RestartRestarts DEF M!Next
<1> QED BY <1>1, <1>2, <1>3, <1>4, <1>5, <1>6 DEF Next

\* A client cannot tell the gateway's cache from the mirror: every step of the
\* poller is a refresh that takes no row back and makes none owed, every change
\* at Proton is one the mirror is still to hear of, only a client's own write
\* or deletion leaves a row owed, and a restart comes back to what was saved.
THEOREM Refinement == Spec => ImplementsMirror
<1>1. Init => M!Init BY InitMapped
<1>2. KeepInv /\ KeepInv' /\ [Next]_vars => [M!Next]_M!vars BY NextMapped
<1> QED BY <1>1, <1>2, KeepInvariant, PTL DEF Spec, ImplementsMirror, M!Spec
=============================================================================
