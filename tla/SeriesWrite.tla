---------------------------- MODULE SeriesWrite ----------------------------
(***************************************************************************)
(* The CalDAV write path of one resource: internal/caldav's backend over   *)
(* CachedSource, for one recurring series (one UID of one calendar), that  *)
(* is a master row and one exception row per edited occurrence.            *)
(*                                                                         *)
(* A PUT carries the whole resource.  The handler reads Proton's rows,     *)
(* checks the preconditions against them and against the served rows, and  *)
(* then writes row by row: master, overrides, deletions.  Only each of     *)
(* these calls holds writeMu; requests of other clients, the poller and    *)
(* Proton's own clients act between any two of them, and a call that fails *)
(* ends the request with what is already written.                          *)
(*                                                                         *)
(* The served rows (mirror) follow Proton as GatewaySync shows: by the     *)
(* write-through of a call, or later by the poller, row by row.            *)
(***************************************************************************)
EXTENDS Integers, FiniteSets, FiniteSetsExt

CONSTANTS
  Clients,    \* CalDAV clients, one request at a time each
  Other,      \* the writer of what Proton's own clients write
  NoOne,      \* nobody holds writeMu
  MaxRow,     \* bound: row IDs are 1..MaxRow
  Occs,       \* occurrences (epochs of their original start), not 0
  PastOccs,   \* those before today
  Beyond,     \* those whose rows are beyond the window of a full snapshot
  Payloads,   \* the resources a PUT may carry
  MaxNow,     \* bound: seconds
  MaxRequests,\* bound: PUTs (retries aside) and DELETEs
  MaxEdits,   \* bound: changes by Proton's own clients
  MaxFaults   \* bound: failed calls

ASSUME BoundsAssumption ==
  MaxRow \in Nat /\ MaxNow \in Nat /\ MaxRequests \in Nat /\ MaxEdits \in Nat /\ MaxFaults \in Nat
ASSUME WritersAssumption == Other \notin Clients /\ NoOne \notin Clients
ASSUME OccsAssumption == 0 \notin Occs /\ PastOccs \subseteq Occs /\ Beyond \subseteq Occs

Ids == 1..MaxRow

\* A resource as a PUT carries it: with or without its master, the master's
\* EXDATEs, and the occurrences that have an override.
PayloadType == [master : BOOLEAN, ex : SUBSET Occs, kids : SUBSET Occs]

ASSUME PayloadsAssumption ==
  Payloads \subseteq {p \in PayloadType : p.master \/ p.kids # {}}

\* A row: the occurrence it overrides (0 = master), its last writer, the
\* master's EXDATEs, the second of its last edit.
Row == [occ : Occs \cup {0}, by : Clients \cup {Other}, ex : SUBSET Occs, edit : 0..MaxNow]
None == [occ |-> 0, by |-> Other, ex |-> {}, edit |-> -1]

VARIABLES
  proton,     \* Proton's row of every ID
  used,       \* the IDs given out
  mirror,     \* the served row of every ID
  drift,      \* served rows that only a full snapshot will correct
  now,        \* the current second
  mu,         \* who holds writeMu between two steps
  req,        \* the request of every client
  held,       \* the ETag of every client's copy
  made,       \* history: the rows the gateway created
  disturbed,  \* history: somebody else wrote since the request read Proton
  blind,      \* history: a re-check failed
  requests, edits, faults

served == <<mirror, drift>>
history == <<made, disturbed, blind>>
vars == <<proton, used, served, now, mu, req, held, history, requests, edits, faults>>

Fault == faults < MaxFaults /\ faults' = faults + 1
NoFault == UNCHANGED faults

RowsIn(view) == {r \in Ids : view[r] # None}
At(view, occ) == {r \in RowsIn(view) : view[r].occ = occ}
Clean(view) == \A o \in Occs \cup {0} : Cardinality(At(view, o)) <= 1

\* The first master in folding order, and the exception that routing keeps of
\* every occurrence (the last one); 0 if there is none.
MasterOf(view) == IF At(view, 0) = {} THEN 0 ELSE Min(At(view, 0))
ExceptionOf(view, o) == IF At(view, o) = {} THEN 0 ELSE Max(At(view, o))

\* foldGroup: the first master with all the exceptions is one resource, every
\* other master a resource of its own.
Extras(view) == At(view, 0) \ {MasterOf(view)}
Folded(view) == RowsIn(view) \ Extras(view)

\* groupETag: a single row shows the second of its edit only.
NoTag == {}
NowTag == {<<-1, now>>}
Tag(view, R) ==
  IF Cardinality(R) = 1 THEN {<<0, view[r].edit>> : r \in R}
                        ELSE {<<r, view[r].edit>> : r \in R}

NoPayload == [master |-> FALSE, ex |-> {}, kids |-> {}]

\* Between requests a client may send one (idle), or its PUT of p was refused or
\* has failed: it reads the resource again (resync), then sends p again (retry).
Rest(pc, p) ==
  [pc |-> pc, pay |-> p, cond |-> "any", match |-> FALSE, empty |-> TRUE,
   clean |-> TRUE, master |-> 0, exc |-> [o \in Occs |-> 0], past |-> {},
   head |-> "done", kids |-> {}, dels |-> {}, turn |-> 0]

RequestType ==
  [pc : {"idle", "resync", "retry", "check", "apply", "locked"},
   pay : Payloads \cup {NoPayload}, cond : {"match", "create", "any"},
   match : BOOLEAN, empty : BOOLEAN, clean : BOOLEAN, master : Ids \cup {0},
   exc : [Occs -> Ids \cup {0}], past : SUBSET Occs,
   head : {"create", "update", "done"}, kids : SUBSET Occs, dels : SUBSET Ids,
   turn : Occs \cup {0}]

-----------------------------------------------------------------------------
(* Time, Proton's own clients, the poller. *)

\* What somebody writes disturbs the requests of the other clients.
WrittenBy(c) ==
  disturbed' = [d \in Clients |-> disturbed[d] \/ (d # c /\ req[d].pc \in {"check", "apply", "locked"})]

Tick ==
  /\ now < MaxNow
  /\ now' = now + 1
  /\ UNCHANGED <<proton, used, served, mu, req, held, history, requests, edits, faults>>

OtherWrites(new) ==
  /\ edits < MaxEdits /\ edits' = edits + 1
  /\ proton' = new
  /\ WrittenBy(Other)
  /\ UNCHANGED <<mirror, now, mu, req, held, made, blind, requests, faults>>

\* Proton's web client edits a row, whose change the next delta will show.
OtherEdits(r) ==
  /\ proton[r] # None
  /\ \E ex \in IF proton[r].occ = 0 THEN SUBSET Occs ELSE {{}} :
       OtherWrites([proton EXCEPT ![r] = [@ EXCEPT !.by = Other, !.ex = ex, !.edit = now]])
  /\ drift' = drift \ {r}
  /\ UNCHANGED used

\* ... or one more occurrence of the series.
OtherEditsOccurrence(o, r) ==
  /\ At(proton, 0) # {} /\ At(proton, o) = {} /\ r \notin used
  /\ OtherWrites([proton EXCEPT ![r] = [occ |-> o, by |-> Other, ex |-> {}, edit |-> now]])
  /\ used' = used \cup {r}
  /\ UNCHANGED drift

\* ... or deletes rows: one exception, or the series.
OtherDeletes(R) ==
  /\ R # {}
  /\ R = RowsIn(proton) \/ (\E r \in R : R = {r} /\ proton[r] # None /\ proton[r].occ # 0)
  /\ OtherWrites([r \in Ids |-> IF r \in R THEN None ELSE proton[r]])
  /\ drift' = drift \ R
  /\ UNCHANGED used

\* A delta of the poller reaches a row whose change it can see.
Poll(r) ==
  /\ r \notin drift /\ mirror[r] # proton[r]
  /\ mirror' = [mirror EXCEPT ![r] = proton[r]]
  /\ UNCHANGED <<proton, used, drift, now, mu, req, held, history, requests, edits, faults>>

\* A full snapshot serves what Proton holds within the window; the rest stays
\* away until a delta shows a change of it.
Snapshot ==
  LET beyond == {r \in RowsIn(proton) : proton[r].occ \in Beyond}
  IN  /\ mirror' = [r \in Ids |-> IF r \in beyond THEN None ELSE proton[r]]
      /\ drift' = beyond
      /\ UNCHANGED <<proton, used, now, mu, req, held, history, requests, edits, faults>>

-----------------------------------------------------------------------------
(* Reading. *)

\* GET or REPORT: a resource is served from the mirror, with its ETag.
Get(c) ==
  /\ req[c].pc \in {"idle", "resync"}
  /\ \E R \in {Folded(mirror)} \cup {{x} : x \in Extras(mirror)} :
       held' = [held EXCEPT ![c] = Tag(mirror, R)]
  /\ req' = IF req[c].pc = "resync" THEN [req EXCEPT ![c].pc = "retry"] ELSE req
  /\ UNCHANGED <<proton, used, served, now, mu, made, disturbed, blind, requests, edits, faults>>

-----------------------------------------------------------------------------
(* PUT: PutCalendarObject, checkPreconditions, reconcileSeriesWrite.        *)

untouched == <<proton, used, served, made, blind>>

GiveUp(c) == req' = [req EXCEPT ![c] = Rest("idle", NoPayload)]
Fail(c) == req' = [req EXCEPT ![c] = Rest("resync", req[c].pay)]

\* What the handler of c's PUT of p keeps of Proton's rows, as it reads them.
Routed(c, p, cond) ==
  [Rest("check", p) EXCEPT
     !.cond = cond,
     !.match = held[c] = Tag(proton, RowsIn(proton)),
     !.empty = RowsIn(proton) = {},
     !.clean = Clean(proton),
     !.master = MasterOf(proton),
     !.exc = [o \in Occs |-> ExceptionOf(proton, o)],
     !.past = IF At(proton, 0) = {} THEN {} ELSE proton[MasterOf(proton)].ex \cap PastOccs]

\* The payload is parsed and Proton's rows of the UID are read (an error ends
\* the request: it never becomes a creation).
PutStart(c) ==
  /\ \/ /\ req[c].pc = "idle"
        /\ requests < MaxRequests /\ requests' = requests + 1
     \/ req[c].pc = "retry" /\ UNCHANGED requests
  /\ \E p \in IF req[c].pc = "idle" THEN Payloads ELSE {req[c].pay},
        cond \in IF held[c] = NoTag THEN {"create", "any"} ELSE {"match"} :
       req' = [req EXCEPT ![c] = Routed(c, p, cond)]
  /\ disturbed' = [disturbed EXCEPT ![c] = FALSE]
  /\ UNCHANGED <<proton, used, served, now, mu, held, made, blind, edits, faults>>

\* Mutant: only the authoritative ETag is accepted.
HonouredAuthoritativeOnly(c) == req[c].match

\* If-Match holds if it is the ETag of Proton's rows, or that of the served ones.
Honoured(c) ==
  \/ req[c].match
  \/ RowsIn(mirror) # {} /\ held[c] = Tag(mirror, RowsIn(mirror))

Conflict(c) ==
  \/ req[c].cond = "match" /\ (req[c].empty \/ ~Honoured(c))
  \/ req[c].cond = "create" /\ ~req[c].empty

\* A body without its master is only the round trip of exceptions without one.
Incomplete(c) ==
  /\ ~req[c].pay.master
  /\ req[c].master # 0 \/ \A o \in Occs : req[c].exc[o] = 0

\* 412, or 403 which a client does not send again; nothing is written.
PutRefused(c) ==
  /\ req[c].pc = "check"
  /\ IF Conflict(c) THEN Fail(c) ELSE Incomplete(c) /\ GiveUp(c)
  /\ UNCHANGED <<untouched, now, mu, held, disturbed, requests, edits, faults>>

\* Mutant: the overrides that left the payload are not deleted.
PutAcceptedKeepsOverrides(c) ==
  /\ req[c].pc = "check"
  /\ ~Conflict(c) /\ ~Incomplete(c)
  /\ LET q == req[c]
     IN  req' = [req EXCEPT ![c] =
           [q EXCEPT !.pc = "apply",
                     !.head = IF ~q.pay.master THEN "done"
                              ELSE IF q.master = 0 THEN "create" ELSE "update",
                     !.kids = q.pay.kids]]
  /\ UNCHANGED <<untouched, now, mu, held, disturbed, requests, edits, faults>>

\* The calls to make: the master, the overrides of the payload, and the
\* deletion of the exceptions it no longer has.
PutAccepted(c) ==
  /\ req[c].pc = "check"
  /\ ~Conflict(c) /\ ~Incomplete(c)
  /\ LET q == req[c]
     IN  req' = [req EXCEPT ![c] =
           [q EXCEPT !.pc = "apply",
                     !.head = IF ~q.pay.master THEN "done"
                              ELSE IF q.master = 0 THEN "create" ELSE "update",
                     !.kids = q.pay.kids,
                     !.dels = {q.exc[o] : o \in Occs \ q.pay.kids} \ {0}]]
  /\ UNCHANGED <<untouched, now, mu, held, disturbed, requests, edits, faults>>

\* The occurrence the next write is about, and the row to update (0: create).
Turn(c, o) ==
  /\ req[c].pc = "apply" /\ mu = NoOne
  /\ IF req[c].head # "done" THEN o = 0 ELSE o \in req[c].kids

Target(c, o) == IF o = 0 THEN req[c].master ELSE req[c].exc[o]

\* The call about o is done with.
Advance(c, o) ==
  req' = [req EXCEPT ![c].pc = "apply", ![c].turn = 0,
                     ![c].head = "done", ![c].kids = @ \ {o}]

\* An override to create in a resource without a master: 403, but the overrides
\* before it are written.
PutOrphan(c, o) ==
  /\ Turn(c, o) /\ o # 0 /\ Target(c, o) = 0
  /\ ~req[c].pay.master /\ req[c].master = 0
  /\ GiveUp(c)
  /\ UNCHANGED <<untouched, now, mu, held, disturbed, requests, edits, faults>>

Creates(c, o) ==
  /\ Turn(c, o) /\ Target(c, o) = 0
  /\ req[c].pay.master \/ req[c].master # 0

\* CreateEvent's re-check finds the row: the call succeeds and writes nothing.
RecheckFound(c, o) ==
  /\ Creates(c, o)
  /\ At(proton, o) # {}
  /\ Advance(c, o)
  /\ UNCHANGED <<untouched, now, mu, held, disturbed, requests, edits, faults>>

\* Mutant: the re-check and the creation are not under writeMu.
RecheckUnlocked(c, o) ==
  /\ Creates(c, o)
  /\ (At(proton, o) = {} /\ NoFault /\ UNCHANGED blind) \/ (Fault /\ blind' = TRUE)
  /\ req' = [req EXCEPT ![c].pc = "locked", ![c].turn = o]
  /\ UNCHANGED <<mu, proton, used, served, made, now, held, disturbed, requests, edits>>

\* Nothing found, or the re-check failed and the creation is attempted anyway:
\* writeMu is held until the creation is done.
RecheckPassed(c, o) ==
  /\ Creates(c, o)
  /\ (At(proton, o) = {} /\ NoFault /\ UNCHANGED blind) \/ (Fault /\ blind' = TRUE)
  /\ req' = [req EXCEPT ![c].pc = "locked", ![c].turn = o]
  /\ mu' = c
  /\ UNCHANGED <<proton, used, served, made, now, held, disturbed, requests, edits>>

\* Mutant: the EXDATEs of the payload replace those in Proton.
ContentUnmerged(c, o) ==
  [occ |-> o, by |-> c, ex |-> IF o = 0 THEN req[c].pay.ex ELSE {}, edit |-> now]

\* Mutant: a written row is dated ahead of the clock.
ContentDatedAhead(c, o) ==
  [occ |-> o, by |-> c, ex |-> IF o = 0 THEN req[c].pay.ex \cup req[c].past ELSE {},
   edit |-> now + 1]

\* What c's payload writes for o: past EXDATEs of the master survive.
Content(c, o) ==
  [occ |-> o, by |-> c, ex |-> IF o = 0 THEN req[c].pay.ex \cup req[c].past ELSE {},
   edit |-> now]

\* Proton has row r from c now.  Either the answer and the re-read come back and
\* the row is served; or the re-read fails and the synthesized row, dated by the
\* gateway's clock, is served, maybe behind the poller's cursor; or the answer
\* is lost, and the request fails.
Stored(c, o, r) ==
  /\ proton' = [proton EXCEPT ![r] = Content(c, o)]
  /\ WrittenBy(c)
  /\ \/ /\ mirror' = [mirror EXCEPT ![r] = Content(c, o)]
        /\ drift' = drift \ {r}
        /\ Advance(c, o) /\ NoFault
     \/ /\ \E t \in now..MaxNow :
             mirror' = [mirror EXCEPT ![r] = [Content(c, o) EXCEPT !.edit = t]]
        /\ drift' \in {drift \cup {r}, drift \ {r}}
        /\ Advance(c, o) /\ Fault
     \/ /\ UNCHANGED mirror
        /\ drift' = drift \ {r}
        /\ Fail(c) /\ Fault

\* The call does not reach Proton.
CallFails(c) ==
  /\ req[c].pc = "locked" \/ (req[c].pc = "apply" /\ mu = NoOne)
  /\ Fault
  /\ Fail(c)
  /\ mu' = IF req[c].pc = "locked" THEN NoOne ELSE mu
  /\ UNCHANGED <<untouched, now, held, disturbed, requests, edits>>

SendCreate(c, r) ==
  /\ req[c].pc = "locked"
  /\ r \notin used
  /\ Stored(c, req[c].turn, r)
  /\ used' = used \cup {r} /\ made' = made \cup {r}
  /\ mu' = NoOne
  /\ UNCHANGED <<now, held, blind, requests, edits>>

SendUpdate(c, o) ==
  /\ Turn(c, o) /\ Target(c, o) # 0
  /\ proton[Target(c, o)] # None
  /\ Stored(c, o, Target(c, o))
  /\ UNCHANGED <<used, made, now, mu, held, blind, requests, edits>>

\* The row to update is gone: 404, with what is already written.
UpdateNotFound(c, o) ==
  /\ Turn(c, o) /\ Target(c, o) # 0
  /\ proton[Target(c, o)] = None
  /\ Fail(c)
  /\ UNCHANGED <<untouched, now, mu, held, disturbed, requests, edits, faults>>

\* The rows of R leave Proton by a call of c, unless the call changes nothing.
Dropped(c, R) ==
  /\ proton' = [r \in Ids |-> IF r \in R THEN None ELSE proton[r]]
  /\ IF proton' = proton THEN UNCHANGED disturbed ELSE WrittenBy(c)

Purged(R) ==
  /\ mirror' = [r \in Ids |-> IF r \in R THEN None ELSE mirror[r]]
  /\ drift' = drift \ R

\* An exception that left the payload is deleted; one already gone is no error.
SendDelete(c, r) ==
  /\ req[c].pc = "apply" /\ mu = NoOne
  /\ req[c].head = "done" /\ req[c].kids = {} /\ r \in req[c].dels
  /\ Dropped(c, {r})
  /\ \/ Purged({r}) /\ req' = [req EXCEPT ![c].dels = @ \ {r}] /\ NoFault
     \/ UNCHANGED served /\ Fail(c) /\ Fault
  /\ UNCHANGED <<used, made, now, mu, held, blind, requests, edits>>

Done(c) ==
  /\ req[c].pc = "apply"
  /\ req[c].head = "done" /\ req[c].kids = {} /\ req[c].dels = {}

\* putResponse: 2xx with the ETag the resource is served under now.
PutRespond(c) ==
  /\ Done(c)
  /\ held' = [held EXCEPT ![c] =
       IF RowsIn(mirror) = {} THEN NowTag ELSE Tag(mirror, Folded(mirror))]
  /\ req' = [req EXCEPT ![c] = Rest("idle", NoPayload)]
  /\ UNCHANGED <<untouched, now, mu, disturbed, requests, edits, faults>>

-----------------------------------------------------------------------------
(* DELETE: DeleteCalendarObject over CachedSource.DeleteEvent.              *)

\* The href names a row, of which a client may have heard at any time.  A row
\* that is a master in Proton takes along the others of its UID, as far as they
\* could be enumerated and the entries of the sync call succeeded; the mirror
\* loses the whole group if it knows the row as a master.
Delete(c, r) ==
  /\ req[c].pc = "idle" /\ mu = NoOne /\ r \in used
  /\ requests < MaxRequests /\ requests' = requests + 1
  /\ LET others == IF r \in At(proton, 0) THEN RowsIn(proton) \ {r} ELSE {}
         group == IF r \in At(mirror, 0) THEN RowsIn(mirror) ELSE {r}
     IN  \/ Dropped(c, {r} \cup others) /\ Purged(group) /\ NoFault
         \/ \E some \in SUBSET others :
              Dropped(c, {r} \cup some) /\ Purged(group) /\ Fault
         \/ Dropped(c, {r} \cup others) /\ UNCHANGED served /\ Fault
  /\ held' = [held EXCEPT ![c] = NoTag]
  /\ req' = [req EXCEPT ![c] = Rest("idle", NoPayload)]
  /\ UNCHANGED <<used, made, now, mu, blind, edits>>

-----------------------------------------------------------------------------
(* The series as it is when the gateway starts: none, or as one of the      *)
(* payloads left it, served as Proton has it.                               *)

InitialRows ==
  {[r \in Ids |-> None]} \cup
  {[r \in Ids |->
      IF r = 1 /\ p.master THEN [occ |-> 0, by |-> Other, ex |-> p.ex, edit |-> 0]
      ELSE IF r - 1 \in p.kids THEN [occ |-> r - 1, by |-> Other, ex |-> {}, edit |-> 0]
      ELSE None] : p \in Payloads}

Init ==
  /\ proton \in InitialRows
  /\ used = RowsIn(proton)
  /\ mirror = proton /\ drift = {}
  /\ now = 0 /\ mu = NoOne
  /\ req = [c \in Clients |-> Rest("idle", NoPayload)]
  /\ held = [c \in Clients |-> NoTag]
  /\ made = {}
  /\ disturbed = [c \in Clients |-> FALSE] /\ blind = FALSE
  /\ requests = 0 /\ edits = 0 /\ faults = 0

Others ==
  \/ \E r \in Ids : OtherEdits(r)
  \/ \E o \in Occs, r \in Ids : OtherEditsOccurrence(o, r)
  \/ \E R \in SUBSET Ids : OtherDeletes(R)

\* The steps of the handler once the request of c is in.
Handler(c) ==
  \/ PutRefused(c) \/ PutAccepted(c)
  \/ \E o \in Occs \cup {0} :
       \/ PutOrphan(c, o) \/ RecheckFound(c, o) \/ RecheckPassed(c, o)
       \/ SendUpdate(c, o) \/ UpdateNotFound(c, o)
  \/ \E r \in Ids : SendCreate(c, r) \/ SendDelete(c, r)
  \/ CallFails(c)
  \/ PutRespond(c)

Next ==
  \/ Tick
  \/ Others
  \/ \E r \in Ids : Poll(r)
  \/ Snapshot
  \/ \E c \in Clients :
       Get(c) \/ PutStart(c) \/ Handler(c) \/ \E r \in Ids : Delete(c, r)

Spec == Init /\ [][Next]_vars

-----------------------------------------------------------------------------
(* Properties. *)

TypeOK ==
  /\ proton \in [Ids -> Row \cup {None}] /\ mirror \in [Ids -> Row \cup {None}]
  /\ used \subseteq Ids /\ drift \subseteq Ids /\ made \subseteq used
  /\ now \in 0..MaxNow
  /\ mu \in Clients \cup {NoOne}
  /\ req \in [Clients -> RequestType]
  /\ held \in [Clients -> SUBSET ((-1..MaxRow) \X (0..MaxNow))]
  /\ disturbed \in [Clients -> BOOLEAN]
  /\ blind \in BOOLEAN
  /\ requests \in 0..MaxRequests /\ edits \in 0..MaxEdits /\ faults \in 0..MaxFaults

\* However requests race, are cut short or are sent again, the gateway creates
\* no second row of an occurrence (or of the master) -- the anti-duplicate
\* re-check under writeMu, where it could be made.
NoDuplicate ==
  ~blind => \A r, s \in made :
    proton[r] # None /\ proton[s] # None /\ proton[r].occ = proton[s].occ => r = s

\* Proton holds c's payload: its master with its EXDATEs and the past ones it
\* found, its overrides, and no other row.
Holds(c) ==
  LET p == req[c].pay
  IN  /\ {proton[r].occ : r \in RowsIn(proton)} = p.kids \cup (IF p.master THEN {0} ELSE {})
      /\ Clean(proton)
      /\ \A r \in RowsIn(proton) :
           /\ proton[r].by = c
           /\ proton[r].ex = IF proton[r].occ = 0 THEN p.ex \cup req[c].past ELSE {}

\* A PUT that is answered 2xx, and that nobody else wrote during, left in Proton
\* exactly the resource it carried, whatever an earlier request that failed
\* half-way had left there.
PutStored ==
  [][\A c \in Clients :
       PutRespond(c) /\ req[c].clean /\ ~disturbed[c] => Holds(c)]_vars

\* "never an exception-row created out of nothing" (backend.go:721-722): an
\* override is created in a series that has its master.
NoOrphanCreated ==
  [][\A r \in Ids :
       r \in made' \ made /\ proton'[r].occ # 0 => At(proton, 0) # {}]_vars

\* "The client did nothing wrong; it echoed our own ETag. So accept either"
\* (backend.go:417): a PUT that carries the ETag the resource is served
\* under, of a resource that Proton has, is not refused for it.
EchoHonoured ==
  [][\A c \in Clients :
       PutRefused(c) /\ Conflict(c) /\ ~req[c].empty
         => held[c] # Tag(mirror, Folded(mirror)) \/ req[c].cond # "match"]_vars

\* "Apple's immediate re-read must see exactly what it just wrote"
\* (backend.go:749-750): what is served when a PUT nobody disturbed is answered
\* has the overrides of its payload and no other.
ReadBack ==
  [][\A c \in Clients :
       PutRespond(c) /\ req[c].clean /\ ~disturbed[c] =>
         {mirror[r].occ : r \in Folded(mirror)} \ {0} = req[c].pay.kids]_vars

-----------------------------------------------------------------------------
(* A client that re-reads when it is refused and then sends its resource    *)
(* again, the server behind it, and the deltas of the poller make progress; *)
(* full snapshots and Proton's other clients owe nothing.                   *)

Fairness ==
  /\ \A c \in Clients :
       /\ WF_vars(Get(c) /\ req[c].pc = "resync")
       /\ WF_vars(PutStart(c))
       /\ WF_vars(Handler(c))
  /\ \A r \in Ids : WF_vars(Poll(r))

FairSpec == Spec /\ Fairness

\* A PUT that is sent again whenever it is refused or fails ends in a 2xx, even
\* where what is served stays different from what Proton holds until a full
\* snapshot: no client is refused for ever ("every conditional PUT 412s forever",
\* backend.go:414).
PutSucceeds == \A c \in Clients : req[c].pc = "check" ~> Done(c) \/ req[c].pc = "idle"
=============================================================================
