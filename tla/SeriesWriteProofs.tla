------------------------- MODULE SeriesWriteProofs -------------------------
(***************************************************************************)
(* Theorems about SeriesWrite, for any clients, occurrences, payloads and  *)
(* bounds: its types, that the gateway duplicates no row, and what a PUT   *)
(* that nobody disturbs leaves in Proton.                                  *)
(*                                                                         *)
(* The re-check of a create and the create itself are two steps, with      *)
(* whatever other clients and Proton's own clients do in between.  What    *)
(* keeps them together is writeMu; what keeps an update from becoming a    *)
(* second row is that a row ID stands for one occurrence for ever.         *)
(***************************************************************************)
EXTENDS SeriesWrite, FiniteSetTheorems, TLAPS

USE DEF Fault, NoFault

-----------------------------------------------------------------------------
(* The operators of the model.                                             *)

\* A set of naturals below a bound has a least and a greatest element.
LEMMA Extremes ==
  ASSUME NEW n \in Nat, NEW T \in SUBSET (0..n), T # {}
  PROVE  Min(T) \in T /\ Max(T) \in T
<1> DEFINE Rel == StrictSubsetOrdering(0..n)
<1>1. IsWellFoundedOn(Rel, SUBSET (0..n))
  <2>1. IsFiniteSet(0..n) BY FS_Interval
  <2>2. FiniteSubsetsOf(0..n) = SUBSET (0..n) BY <2>1, FS_FiniteSubsetsOfFinite
  <2> QED BY <2>2, FS_StrictSubsetOrderingWellFounded
<1>2. ASSUME NEW F \in SUBSET SUBSET (0..n), F # {}
      PROVE  \E A \in F : \A B \in F : ~(B \subseteq A /\ B # A)
  <2>1. PICK A \in F : \A B \in F : ~(<<B, A>> \in Rel)
    <3> HIDE DEF Rel
    <3> QED BY <1>1, <1>2, WFMin
  <2> QED BY <2>1, <1>2 DEF StrictSubsetOrdering
<1>e. PICK e \in T : TRUE OBVIOUS
<1>3. \E x \in T : \A y \in T : x <= y
  <2> DEFINE F == {0..x : x \in T}
  <2>1. F \in SUBSET SUBSET (0..n) /\ 0..e \in F BY <1>e
  <2>2. PICK A \in F : \A B \in F : ~(B \subseteq A /\ B # A)
    <3> HIDE DEF F
    <3> QED BY <1>2, <2>1
  <2>3. PICK x \in T : A = 0..x OBVIOUS
  <2>4. ASSUME NEW y \in T, y < x PROVE FALSE
    <3>1. 0..y \in F /\ 0..y \subseteq 0..x /\ x \in 0..x /\ x \notin 0..y BY <2>4
    <3> QED BY <3>1, <2>2, <2>3
  <2> QED BY <2>4
<1>4. \E x \in T : \A y \in T : x >= y
  <2> DEFINE F == {x..n : x \in T}
  <2>1. F \in SUBSET SUBSET (0..n) /\ e..n \in F BY <1>e
  <2>2. PICK A \in F : \A B \in F : ~(B \subseteq A /\ B # A)
    <3> HIDE DEF F
    <3> QED BY <1>2, <2>1
  <2>3. PICK x \in T : A = x..n OBVIOUS
  <2>4. ASSUME NEW y \in T, y > x PROVE FALSE
    <3>1. y..n \in F /\ y..n \subseteq x..n /\ x \in x..n /\ x \notin y..n BY <2>4
    <3> QED BY <3>1, <2>2, <2>3
  <2> QED BY <2>4
<1> QED BY <1>3, <1>4 DEF Min, Max

LEMMA NoneNoRow == None \notin Row
BY BoundsAssumption DEF None, Row

LEMMA RowsInIds ==
  ASSUME NEW view, NEW o
  PROVE  RowsIn(view) \subseteq Ids /\ At(view, o) \subseteq RowsIn(view)
BY DEF RowsIn, At

\* Routing finds a row of the occurrence, or none: it never invents one.
LEMMA Found ==
  ASSUME NEW view, NEW o
  PROVE  /\ MasterOf(view) \in At(view, 0) \cup {0}
         /\ ExceptionOf(view, o) \in At(view, o) \cup {0}
<1>1. \A T \in SUBSET Ids : T # {} => Min(T) \in T /\ Max(T) \in T
  <2> SUFFICES ASSUME NEW T \in SUBSET Ids, T # {} PROVE Min(T) \in T /\ Max(T) \in T
    OBVIOUS
  <2>1. T \in SUBSET (0..MaxRow) /\ MaxRow \in Nat BY BoundsAssumption DEF Ids
  <2> QED BY <2>1, Extremes
<1>2. At(view, 0) \in SUBSET Ids /\ At(view, o) \in SUBSET Ids BY RowsInIds
<1>3. MasterOf(view) \in At(view, 0) \cup {0} BY <1>1, <1>2 DEF MasterOf
<1>4. ExceptionOf(view, o) \in At(view, o) \cup {0} BY <1>1, <1>2 DEF ExceptionOf
<1> QED BY <1>3, <1>4

LEMMA ContentRow ==
  ASSUME NEW c \in Clients, NEW o \in Occs \cup {0}, TypeOK
  PROVE  Content(c, o) \in Row /\ Content(c, o).occ = o
<1>1. req[c] \in RequestType BY DEF TypeOK
<1>2. req[c].past \subseteq Occs /\ req[c].pay \in Payloads \cup {NoPayload}
  BY <1>1 DEF RequestType
<1>3. req[c].pay.ex \subseteq Occs
  BY <1>2, PayloadsAssumption DEF NoPayload, PayloadType
<1>4. now \in 0..MaxNow BY DEF TypeOK
<1> HIDE DEF TypeOK
<1> QED BY <1>2, <1>3, <1>4 DEF Content, Row

Tags == SUBSET ((-1..MaxRow) \X (0..MaxNow))

\* An ETag shows rows with the second of their edit.
LEMMA TagType ==
  ASSUME NEW view \in [Ids -> Row \cup {None}], NEW R \in SUBSET RowsIn(view)
  PROVE  Tag(view, R) \in Tags
<1>1. \A r \in R : r \in 1..MaxRow /\ view[r].edit \in 0..MaxNow
  BY NoneNoRow DEF RowsIn, Row, Ids
<1>2. {<<0, view[r].edit>> : r \in R} \in Tags BY <1>1, BoundsAssumption DEF Tags
<1>3. {<<r, view[r].edit>> : r \in R} \in Tags BY <1>1 DEF Tags
<1> QED BY <1>2, <1>3 DEF Tag

-----------------------------------------------------------------------------
(* Types. *)

RowsOK ==
  /\ proton \in [Ids -> Row \cup {None}] /\ mirror \in [Ids -> Row \cup {None}]
  /\ used \subseteq Ids /\ drift \subseteq Ids /\ made \subseteq used
RequestsOK == req \in [Clients -> RequestType]
ClientsOK == held \in [Clients -> Tags] /\ disturbed \in [Clients -> BOOLEAN]
CountsOK ==
  /\ now \in 0..MaxNow /\ mu \in Clients \cup {NoOne}
  /\ requests \in 0..MaxRequests /\ edits \in 0..MaxEdits /\ faults \in 0..MaxFaults

LEMMA TypeParts == TypeOK <=> RowsOK /\ RequestsOK /\ ClientsOK /\ CountsOK /\ blind \in BOOLEAN
BY DEF TypeOK, RowsOK, RequestsOK, ClientsOK, CountsOK, Tags

LEMMA RestType ==
  ASSUME NEW pc \in {"idle", "resync", "check"}, NEW p \in Payloads \cup {NoPayload}
  PROVE  Rest(pc, p) \in RequestType
BY DEF Rest, RequestType

LEMMA GivenUpType ==
  ASSUME RequestsOK, NEW c \in Clients, GiveUp(c) \/ Fail(c)
  PROVE  RequestsOK'
<1>1. req[c].pay \in Payloads \cup {NoPayload} BY DEF RequestsOK, RequestType
<1> QED BY <1>1, RestType DEF GiveUp, Fail, RequestsOK

LEMMA MovedType ==
  ASSUME NEW q \in RequestType, NEW pc \in {"resync", "retry", "apply", "locked"},
         NEW turn \in Occs \cup {0}, NEW head \in {"create", "update", "done"},
         NEW kids \in SUBSET Occs, NEW dels \in SUBSET Ids
  PROVE  /\ [q EXCEPT !.pc = pc] \in RequestType
         /\ [q EXCEPT !.pc = pc, !.turn = turn] \in RequestType
         /\ [q EXCEPT !.pc = pc, !.turn = turn, !.head = head, !.kids = kids] \in RequestType
         /\ [q EXCEPT !.pc = pc, !.head = head, !.kids = kids, !.dels = dels] \in RequestType
         /\ [q EXCEPT !.dels = dels] \in RequestType
<1>1. [q EXCEPT !.pc = pc] \in RequestType BY DEF RequestType
<1>2. [q EXCEPT !.pc = pc, !.turn = turn] \in RequestType BY DEF RequestType
<1>3. [q EXCEPT !.pc = pc, !.turn = turn, !.head = head, !.kids = kids] \in RequestType
  BY DEF RequestType
<1>4. [q EXCEPT !.pc = pc, !.head = head, !.kids = kids, !.dels = dels] \in RequestType
  BY DEF RequestType
<1>5. [q EXCEPT !.dels = dels] \in RequestType BY DEF RequestType
<1> QED BY <1>1, <1>2, <1>3, <1>4, <1>5

LEMMA RequestFields ==
  ASSUME NEW q \in RequestType
  PROVE  /\ q.pay \in Payloads \cup {NoPayload} /\ q.pay.kids \subseteq Occs
         /\ q.kids \subseteq Occs /\ q.dels \subseteq Ids /\ q.turn \in Occs \cup {0}
         /\ q.master \in Ids \cup {0} /\ q.exc \in [Occs -> Ids \cup {0}]
<1>1. q.pay \in Payloads \cup {NoPayload} BY DEF RequestType
<1>2. q.pay.kids \subseteq Occs BY <1>1, PayloadsAssumption DEF NoPayload, PayloadType
<1> QED BY <1>1, <1>2 DEF RequestType

LEMMA AdvanceType ==
  ASSUME RequestsOK, NEW c \in Clients, NEW o, Advance(c, o)
  PROVE  RequestsOK'
<1>1. req[c] \in RequestType /\ req[c].kids \ {o} \in SUBSET Occs
  BY RequestFields DEF RequestsOK
<1>2. [req[c] EXCEPT !.pc = "apply", !.turn = 0, !.head = "done", !.kids = req[c].kids \ {o}]
        \in RequestType
  BY <1>1, MovedType
<1> QED BY <1>2 DEF Advance, RequestsOK

LEMMA WrittenType == ASSUME TypeOK, NEW c, WrittenBy(c)
                     PROVE  disturbed' \in [Clients -> BOOLEAN]
BY DEF TypeOK, WrittenBy

\* A count that a step raises stays within its bound.
LEMMA Raised == ASSUME NEW n \in Nat, NEW k \in 0..n, k < n PROVE k + 1 \in 0..n
OBVIOUS

LEMMA InitTypes == Init => TypeOK
<1> SUFFICES ASSUME Init PROVE TypeOK OBVIOUS
<1>1. proton \in [Ids -> Row \cup {None}]
  <2>1. CASE proton = [r \in Ids |-> None] BY <2>1
  <2>2. ASSUME NEW p \in Payloads,
               proton = [r \in Ids |->
                 IF r = 1 /\ p.master THEN [occ |-> 0, by |-> Other, ex |-> p.ex, edit |-> 0]
                 ELSE IF r - 1 \in p.kids THEN [occ |-> r - 1, by |-> Other, ex |-> {}, edit |-> 0]
                 ELSE None]
        PROVE  proton \in [Ids -> Row \cup {None}]
    <3>1. p.ex \subseteq Occs /\ p.kids \subseteq Occs BY PayloadsAssumption DEF PayloadType
    <3>2. 0 \in 0..MaxNow BY BoundsAssumption
    <3> QED BY <2>2, <3>1, <3>2 DEF Row
  <2> QED BY <2>1, <2>2 DEF Init, InitialRows
<1>2. RowsOK BY <1>1, RowsInIds DEF Init, RowsOK
<1>3. RequestsOK BY RestType DEF Init, RequestsOK
<1>4. ClientsOK BY DEF Init, ClientsOK, NoTag, Tags
<1>5. CountsOK BY BoundsAssumption DEF Init, CountsOK
<1>6. blind \in BOOLEAN BY DEF Init
<1> QED BY <1>2, <1>3, <1>4, <1>5, <1>6, TypeParts

LEMMA OthersType ==
  ASSUME TypeOK, Others
  PROVE  TypeOK'
<1>w. PICK new : OtherWrites(new)
  BY DEF Others, OtherEdits, OtherEditsOccurrence, OtherDeletes
<1>1. edits' \in 0..MaxEdits /\ WrittenBy(Other)
  BY <1>w, BoundsAssumption DEF OtherWrites, TypeOK
<1>2. UNCHANGED <<mirror, now, mu, req, held, made, blind, requests, faults>>
  BY <1>w DEF OtherWrites
<1>3. proton' \in [Ids -> Row \cup {None}] /\ used' \subseteq Ids /\ used \subseteq used'
      /\ drift' \subseteq drift
  <2>0. now \in 0..MaxNow /\ proton \in [Ids -> Row \cup {None}] BY DEF TypeOK
  <2>1. ASSUME NEW r \in Ids, OtherEdits(r) PROVE proton' \in [Ids -> Row \cup {None}]
    <3>1. PICK ex \in SUBSET Occs :
            proton' = [proton EXCEPT ![r] = [@ EXCEPT !.by = Other, !.ex = ex, !.edit = now]]
      BY <2>1 DEF OtherEdits, OtherWrites
    <3>2. proton[r] \in Row BY <2>0, <2>1 DEF OtherEdits
    <3>3. [proton[r] EXCEPT !.by = Other, !.ex = ex, !.edit = now] \in Row
      BY <2>0, <3>2 DEF Row
    <3> QED BY <2>0, <3>1, <3>3
  <2>2. ASSUME NEW o \in Occs, NEW r \in Ids, OtherEditsOccurrence(o, r)
        PROVE  proton' \in [Ids -> Row \cup {None}]
    <3>1. [occ |-> o, by |-> Other, ex |-> {}, edit |-> now] \in Row BY <2>0 DEF Row
    <3> QED BY <2>0, <2>2, <3>1 DEF OtherEditsOccurrence, OtherWrites
  <2>3. ASSUME NEW R \in SUBSET Ids, OtherDeletes(R)
        PROVE  proton' \in [Ids -> Row \cup {None}]
    BY <2>0, <2>3 DEF OtherDeletes, OtherWrites
  <2>4. used' \subseteq Ids /\ used \subseteq used' /\ drift' \subseteq drift
    BY DEF Others, OtherEdits, OtherEditsOccurrence, OtherDeletes, TypeOK
  <2> QED BY <2>1, <2>2, <2>3, <2>4 DEF Others
<1>4. disturbed' \in [Clients -> BOOLEAN] BY <1>1, WrittenType
<1> QED BY <1>1, <1>2, <1>3, <1>4 DEF TypeOK

LEMMA PollerType ==
  ASSUME TypeOK, Tick \/ Snapshot \/ \E r \in Ids : Poll(r)
  PROVE  TypeOK'
<1>1. /\ UNCHANGED <<proton, used, mu, req, held, history, requests, edits, faults>>
      /\ now' \in 0..MaxNow
  BY BoundsAssumption DEF Tick, Snapshot, Poll, TypeOK
<1>2. mirror' \in [Ids -> Row \cup {None}] /\ drift' \subseteq Ids
  <2>1. CASE Tick BY <2>1 DEF Tick, served, TypeOK
  <2>2. CASE Snapshot BY <2>2, RowsInIds DEF Snapshot, TypeOK
  <2>3. CASE \E r \in Ids : Poll(r) BY <2>3 DEF Poll, TypeOK
  <2> QED BY <2>1, <2>2, <2>3
<1> QED BY <1>1, <1>2 DEF TypeOK, history

LEMMA FoldedRows == \A view : Folded(view) \subseteq RowsIn(view) /\ Extras(view) \subseteq RowsIn(view)
BY RowsInIds DEF Folded, Extras

LEMMA GetType ==
  ASSUME TypeOK, NEW c \in Clients, Get(c)
  PROVE  TypeOK'
<1>1. held' \in [Clients -> Tags]
  <2>1. PICK R \in {Folded(mirror)} \cup {{x} : x \in Extras(mirror)} :
          held' = [held EXCEPT ![c] = Tag(mirror, R)]
    BY DEF Get
  <2>2. R \in SUBSET RowsIn(mirror) BY FoldedRows
  <2>3. Tag(mirror, R) \in Tags BY <2>2, TagType DEF TypeOK
  <2> QED BY <2>1, <2>3 DEF TypeOK, Tags
<1>2. req' \in [Clients -> RequestType]
  <2>1. req[c] \in RequestType BY DEF TypeOK
  <2>2. [req[c] EXCEPT !.pc = "retry"] \in RequestType BY <2>1 DEF RequestType
  <2> QED BY <2>2 DEF Get, TypeOK
<1> QED BY <1>1, <1>2 DEF Get, TypeOK, served, Tags

LEMMA RoutedType ==
  ASSUME TypeOK, NEW c \in Clients, NEW p \in Payloads \cup {NoPayload},
         NEW cond \in {"match", "create", "any"}
  PROVE  Routed(c, p, cond) \in RequestType
<1> DEFINE match == held[c] = Tag(proton, RowsIn(proton))
           empty == RowsIn(proton) = {}
           clean == Clean(proton)
           past == IF At(proton, 0) = {} THEN {} ELSE proton[MasterOf(proton)].ex \cap PastOccs
           exc == [o \in Occs |-> ExceptionOf(proton, o)]
           m == MasterOf(proton)
<1>1. match \in BOOLEAN /\ empty \in BOOLEAN /\ clean \in BOOLEAN BY DEF Clean
<1>2. past \in SUBSET Occs BY OccsAssumption
<1>3. exc \in [Occs -> Ids \cup {0}] /\ m \in Ids \cup {0} BY Found, RowsInIds
<1>4. Routed(c, p, cond) =
        [Rest("check", p) EXCEPT !.cond = cond, !.match = match, !.empty = empty,
           !.clean = clean, !.master = m, !.exc = exc, !.past = past]
  BY DEF Routed
<1> HIDE DEF match, empty, clean, past, exc, m
<1>5. Rest("check", p) \in RequestType BY RestType
<1> QED BY <1>1, <1>2, <1>3, <1>4, <1>5 DEF RequestType

LEMMA PutStartType ==
  ASSUME TypeOK, NEW c \in Clients, PutStart(c)
  PROVE  TypeOK'
<1>1. requests' \in 0..MaxRequests BY BoundsAssumption DEF PutStart, TypeOK
<1>2. disturbed' \in [Clients -> BOOLEAN] BY DEF PutStart, TypeOK
<1>3. req' \in [Clients -> RequestType]
  <2>1. req[c].pay \in Payloads \cup {NoPayload} BY RequestFields DEF TypeOK
  <2>2. PICK p \in Payloads \cup {NoPayload}, cond \in {"match", "create", "any"} :
          req' = [req EXCEPT ![c] = Routed(c, p, cond)]
    BY <2>1 DEF PutStart
  <2> QED BY <2>2, RoutedType DEF TypeOK
<1> QED BY <1>1, <1>2, <1>3 DEF PutStart, TypeOK, served

\* A request that ends, or moves to its next call, without writing.
LEMMA HandlerType ==
  ASSUME TypeOK, NEW c \in Clients,
         \/ PutRefused(c) \/ PutAccepted(c) \/ CallFails(c)
         \/ \E o \in Occs \cup {0} :
              PutOrphan(c, o) \/ RecheckFound(c, o) \/ RecheckPassed(c, o) \/ UpdateNotFound(c, o)
  PROVE  TypeOK'
<1>1. req[c] \in RequestType /\ RequestsOK BY DEF TypeOK, RequestsOK
<1>2. UNCHANGED <<proton, used, served, made, now, held, disturbed, requests, edits>>
  BY DEF PutRefused, PutAccepted, CallFails, PutOrphan, RecheckFound, RecheckPassed,
         UpdateNotFound, untouched
<1>3. mu' \in Clients \cup {NoOne} /\ faults' \in 0..MaxFaults /\ blind' \in BOOLEAN
  <2>1. CASE \/ PutRefused(c) \/ PutAccepted(c)
             \/ \E o \in Occs \cup {0} :
                  PutOrphan(c, o) \/ RecheckFound(c, o) \/ UpdateNotFound(c, o)
    BY <2>1 DEF PutRefused, PutAccepted, PutOrphan, RecheckFound, UpdateNotFound, untouched, TypeOK
  <2>2. CASE CallFails(c) BY <2>2, BoundsAssumption DEF CallFails, untouched, TypeOK
  <2>3. CASE \E o \in Occs \cup {0} : RecheckPassed(c, o)
    <3>1. blind' \in BOOLEAN /\ mu' \in Clients \cup {NoOne} BY <2>3 DEF RecheckPassed, TypeOK
    <3>2. UNCHANGED faults \/ Fault BY <2>3 DEF RecheckPassed
    <3>3. faults' \in 0..MaxFaults BY <3>2, BoundsAssumption DEF TypeOK
    <3> QED BY <3>1, <3>3
  <2> QED BY <2>1, <2>2, <2>3
<1>4. RequestsOK'
  <2>1. CASE GiveUp(c) \/ Fail(c) BY <1>1, <2>1, GivenUpType
  <2>2. CASE PutAccepted(c)
    <3> DEFINE q == req[c]
               head == IF ~q.pay.master THEN "done"
                       ELSE IF q.master = 0 THEN "create" ELSE "update"
               dels == {q.exc[o] : o \in Occs \ q.pay.kids} \ {0}
    <3>1. head \in {"create", "update", "done"} OBVIOUS
    <3>2. dels \in SUBSET Ids /\ q.pay.kids \in SUBSET Occs BY <1>1, RequestFields
    <3>3. req' = [req EXCEPT ![c] = [q EXCEPT !.pc = "apply", !.head = head,
                                              !.kids = q.pay.kids, !.dels = dels]]
      BY <2>2 DEF PutAccepted
    <3> HIDE DEF head, dels
    <3>4. [q EXCEPT !.pc = "apply", !.head = head, !.kids = q.pay.kids, !.dels = dels]
            \in RequestType
      BY <1>1, <3>1, <3>2, MovedType, OccsAssumption
    <3> QED BY <1>1, <3>3, <3>4 DEF RequestsOK
  <2>3. ASSUME NEW o \in Occs \cup {0}, RecheckFound(c, o) PROVE RequestsOK'
    BY <1>1, <2>3, AdvanceType DEF RecheckFound
  <2>4. ASSUME NEW o \in Occs \cup {0}, RecheckPassed(c, o) PROVE RequestsOK'
    <3>1. [req[c] EXCEPT !.pc = "locked", !.turn = o] \in RequestType
      BY <1>1 DEF RequestType
    <3> QED BY <1>1, <2>4, <3>1 DEF RecheckPassed, RequestsOK
  <2> QED BY <2>1, <2>2, <2>3, <2>4 DEF PutRefused, CallFails, PutOrphan, UpdateNotFound
<1> QED BY <1>2, <1>3, <1>4 DEF TypeOK, RequestsOK, served

LEMMA StoredType ==
  ASSUME TypeOK, NEW c \in Clients, NEW o \in Occs \cup {0}, NEW r \in Ids, Stored(c, o, r)
  PROVE  /\ proton' \in [Ids -> Row \cup {None}] /\ mirror' \in [Ids -> Row \cup {None}]
         /\ drift' \subseteq Ids /\ req' \in [Clients -> RequestType]
         /\ disturbed' \in [Clients -> BOOLEAN] /\ faults' \in 0..MaxFaults
<1>1. Content(c, o) \in Row BY ContentRow
<1>2. \A t \in now..MaxNow : [Content(c, o) EXCEPT !.edit = t] \in Row
  BY <1>1 DEF Row, TypeOK
<1>3. proton' \in [Ids -> Row \cup {None}] BY <1>1 DEF Stored, TypeOK
<1>4. mirror' \in [Ids -> Row \cup {None}] BY <1>1, <1>2 DEF Stored, TypeOK
<1>5. drift' \subseteq Ids BY DEF Stored, TypeOK
<1>6. disturbed' \in [Clients -> BOOLEAN] BY WrittenType DEF Stored
<1>7. faults' \in 0..MaxFaults BY BoundsAssumption DEF Stored, TypeOK
<1>8. Advance(c, o) \/ Fail(c) BY DEF Stored
<1>9. req' \in [Clients -> RequestType]
  <2>1. RequestsOK BY DEF TypeOK, RequestsOK
  <2>2. RequestsOK' BY <1>8, <2>1, AdvanceType, GivenUpType
  <2> QED BY <2>2 DEF RequestsOK
<1> QED BY <1>3, <1>4, <1>5, <1>6, <1>7, <1>9

LEMMA WritesType ==
  ASSUME TypeOK, NEW c \in Clients,
         (\E r \in Ids : SendCreate(c, r)) \/ (\E o \in Occs \cup {0} : SendUpdate(c, o))
  PROVE  TypeOK'
<1>1. ASSUME NEW r \in Ids, SendCreate(c, r) PROVE TypeOK'
  <2>1. req[c].turn \in Occs \cup {0} BY RequestFields DEF TypeOK
  <2> QED BY <1>1, <2>1, StoredType DEF SendCreate, TypeOK
<1>2. ASSUME NEW o \in Occs \cup {0}, SendUpdate(c, o) PROVE TypeOK'
  <2>1. Target(c, o) \in Ids
    BY <1>2, RequestFields DEF SendUpdate, Target, TypeOK
  <2> QED BY <1>2, <2>1, StoredType DEF SendUpdate, TypeOK
<1> QED BY <1>1, <1>2

LEMMA DroppedType ==
  ASSUME TypeOK, NEW c, NEW R, Dropped(c, R)
  PROVE  proton' \in [Ids -> Row \cup {None}] /\ disturbed' \in [Clients -> BOOLEAN]
<1>1. proton' \in [Ids -> Row \cup {None}] BY DEF Dropped, TypeOK
<1>2. disturbed' \in [Clients -> BOOLEAN] BY WrittenType DEF Dropped, TypeOK
<1> QED BY <1>1, <1>2

LEMMA PurgedType ==
  ASSUME TypeOK, NEW R, Purged(R) \/ UNCHANGED served
  PROVE  mirror' \in [Ids -> Row \cup {None}] /\ drift' \subseteq Ids
BY DEF Purged, served, TypeOK

LEMMA DeletesType ==
  ASSUME TypeOK, NEW c \in Clients, NEW r \in Ids, SendDelete(c, r) \/ Delete(c, r)
  PROVE  TypeOK'
<1>0. req[c] \in RequestType /\ RequestsOK BY DEF TypeOK, RequestsOK
<1>1. CASE SendDelete(c, r)
  <2>1. (\E R : Dropped(c, R)) /\ (\E R : Purged(R) \/ UNCHANGED served)
    BY <1>1 DEF SendDelete
  <2>2. req' \in [Clients -> RequestType]
    <3>1. CASE Fail(c) BY <1>0, <3>1, GivenUpType DEF RequestsOK
    <3>2. CASE req' = [req EXCEPT ![c].dels = @ \ {r}]
      <4>1. req[c].dels \ {r} \in SUBSET Ids BY <1>0, RequestFields
      <4>2. [req[c] EXCEPT !.dels = req[c].dels \ {r}] \in RequestType
        BY <1>0, <4>1 DEF RequestType
      <4> QED BY <1>0, <3>2, <4>2 DEF RequestsOK
    <3> QED BY <1>1, <3>1, <3>2 DEF SendDelete
  <2>3. faults' \in 0..MaxFaults BY <1>1, BoundsAssumption DEF SendDelete, TypeOK
  <2>4. UNCHANGED <<used, made, now, mu, held, blind, requests, edits>>
    BY <1>1 DEF SendDelete
  <2> QED BY <2>1, <2>2, <2>3, <2>4, DroppedType, PurgedType DEF TypeOK
<1>2. CASE Delete(c, r)
  <2>1. (\E R : Dropped(c, R)) /\ (\E R : Purged(R) \/ UNCHANGED served)
    BY <1>2 DEF Delete
  <2>2. req' \in [Clients -> RequestType] /\ held' \in [Clients -> Tags]
    BY <1>0, <1>2, RestType DEF Delete, RequestsOK, NoTag, Tags, TypeOK
  <2>3. faults' \in 0..MaxFaults /\ requests' \in 0..MaxRequests
    <3>1. /\ UNCHANGED faults \/ Fault
          /\ requests < MaxRequests /\ requests' = requests + 1
      BY <1>2 DEF Delete
    <3> QED BY <3>1, BoundsAssumption DEF TypeOK
  <2>4. UNCHANGED <<used, made, now, mu, blind, edits>>
    BY <1>2 DEF Delete
  <2> QED BY <2>1, <2>2, <2>3, <2>4, DroppedType, PurgedType DEF TypeOK, Tags
<1> QED BY <1>1, <1>2

LEMMA RespondType ==
  ASSUME TypeOK, NEW c \in Clients, PutRespond(c)
  PROVE  TypeOK'
<1>1. held' \in [Clients -> Tags]
  <2>1. NowTag \in Tags BY BoundsAssumption DEF NowTag, Tags, TypeOK
  <2>2. Tag(mirror, Folded(mirror)) \in Tags BY FoldedRows, TagType DEF TypeOK
  <2> QED BY <2>1, <2>2 DEF PutRespond, TypeOK, Tags
<1>2. req' \in [Clients -> RequestType] BY RestType DEF PutRespond, TypeOK
<1> QED BY <1>1, <1>2 DEF PutRespond, TypeOK, untouched, served, Tags

LEMMA NextTypes == TypeOK /\ [Next]_vars => TypeOK'
<1> SUFFICES ASSUME TypeOK, [Next]_vars PROVE TypeOK' OBVIOUS
<1>1. CASE Others BY <1>1, OthersType
<1>2. CASE Tick \/ Snapshot \/ \E r \in Ids : Poll(r) BY <1>2, PollerType
<1>3. ASSUME NEW c \in Clients, Get(c) \/ PutStart(c) PROVE TypeOK'
  BY <1>3, GetType, PutStartType
<1>4. ASSUME NEW c \in Clients, Handler(c) PROVE TypeOK'
  BY <1>4, HandlerType, WritesType, DeletesType, RespondType DEF Handler
<1>5. ASSUME NEW c \in Clients, NEW r \in Ids, Delete(c, r) PROVE TypeOK'
  BY <1>5, DeletesType
<1>6. CASE UNCHANGED vars BY <1>6 DEF vars, served, history, TypeOK
<1> QED BY <1>1, <1>2, <1>3, <1>4, <1>5, <1>6 DEF Next

\* Every variable keeps its type: routing never points a write at a row that is
\* none, an ETag shows seconds that have been, and what is created is in use.
THEOREM SeriesTypes == Spec => []TypeOK
<1> QED BY InitTypes, NextTypes, PTL DEF Spec

-----------------------------------------------------------------------------
(* No duplicates. *)

\* Who is between its re-check and its create holds writeMu.
Locking == \A c \in Clients : req[c].pc = "locked" <=> mu = c

\* A row ID was given out once, for one occurrence: what a request has routed to
\* an ID is that occurrence's row, or gone.
Means(r, o) == r \in used /\ (proton[r] = None \/ proton[r].occ = o)
Routing ==
  /\ RowsIn(proton) \subseteq used
  /\ \A c \in Clients :
       /\ req[c].master # 0 => Means(req[c].master, 0)
       /\ \A o \in Occs : req[c].exc[o] # 0 => Means(req[c].exc[o], o)

\* What a re-check has found missing is still missing, as far as the gateway is
\* concerned.
Rechecked ==
  ~blind => \A c \in Clients, r \in made :
    req[c].pc = "locked" /\ proton[r] # None => proton[r].occ # req[c].turn

SeriesInv == TypeOK /\ Locking /\ Routing /\ Rechecked /\ NoDuplicate

LEMMA InitSeries == Init => SeriesInv
<1> SUFFICES ASSUME Init PROVE SeriesInv OBVIOUS
<1>1. TypeOK BY InitTypes
<1>2. \A c \in Clients : /\ req[c].pc = "idle" /\ req[c].master = 0
                        /\ \A o \in Occs : req[c].exc[o] = 0
  BY DEF Init, Rest
<1>3. Locking BY <1>2, WritersAssumption DEF Init, Locking
<1>4. Routing BY <1>2 DEF Init, Routing
<1>5. Rechecked /\ NoDuplicate BY DEF Init, Rechecked, NoDuplicate
<1> QED BY <1>1, <1>3, <1>4, <1>5 DEF SeriesInv

\* No step brings a row back under its old ID, or gives a row another occurrence.
Evolves ==
  /\ used \subseteq used'
  /\ \A r \in Ids : proton'[r] # None =>
       \/ proton[r] # None /\ proton'[r].occ = proton[r].occ
       \/ r \notin used /\ r \in used'

\* The request of c keeps what it routed, or is over.
KeepsRoutes(c) ==
  /\ req'[c].master \in {0, req[c].master}
  /\ \A o \in Occs : req'[c].exc[o] \in {0, req[c].exc[o]}

LEMMA MeaningKept ==
  ASSUME TypeOK, Evolves, NEW r \in Ids, NEW o, Means(r, o)
  PROVE  r \in used' /\ (proton'[r] = None \/ proton'[r].occ = o)
BY DEF Evolves, Means

LEMMA UsedKept ==
  ASSUME Routing, Evolves
  PROVE  RowsIn(proton') \subseteq used'
BY DEF Routing, Evolves, RowsIn

LEMMA RoutingKept ==
  ASSUME TypeOK, Routing, Evolves, \A c \in Clients : KeepsRoutes(c)
  PROVE  Routing'
<1>1. ASSUME NEW c \in Clients
      PROVE  /\ (req[c].master # 0 => Means(req[c].master, 0))'
             /\ (\A o \in Occs : req[c].exc[o] # 0 => Means(req[c].exc[o], o))'
  <2>1. req[c].master \in Ids \cup {0} /\ \A o \in Occs : req[c].exc[o] \in Ids \cup {0}
    BY RequestFields DEF TypeOK
  <2>2. ASSUME req'[c].master # 0
        PROVE  /\ req'[c].master \in used'
               /\ proton'[req'[c].master] = None \/ proton'[req'[c].master].occ = 0
    <3>1. req'[c].master = req[c].master /\ Means(req[c].master, 0)
      BY <2>2 DEF KeepsRoutes, Routing
    <3> QED BY <2>1, <2>2, <3>1, MeaningKept
  <2>3. ASSUME NEW o \in Occs, req'[c].exc[o] # 0
        PROVE  /\ req'[c].exc[o] \in used'
               /\ proton'[req'[c].exc[o]] = None \/ proton'[req'[c].exc[o]].occ = o
    <3>1. req'[c].exc[o] = req[c].exc[o] /\ Means(req[c].exc[o], o)
      BY <2>3 DEF KeepsRoutes, Routing
    <3> QED BY <2>1, <2>3, <3>1, MeaningKept
  <2> QED BY <2>2, <2>3 DEF Means
<1>2. (RowsIn(proton) \subseteq used)' BY UsedKept DEF RowsIn
<1> QED BY <1>1, <1>2 DEF Routing

\* A step that creates nothing and takes nobody past a re-check.
LEMMA Uncreative ==
  ASSUME SeriesInv, TypeOK', Evolves, UNCHANGED made, blind => blind',
         \A c \in Clients : req'[c].pc = "locked" =>
            req[c].pc = "locked" /\ req'[c].turn = req[c].turn
  PROVE  Rechecked' /\ NoDuplicate'
<1>1. \A r \in made : proton'[r] # None =>
        proton[r] # None /\ proton'[r].occ = proton[r].occ
  BY DEF SeriesInv, TypeOK, Evolves
<1>2. Rechecked' BY <1>1 DEF SeriesInv, Rechecked
<1>3. NoDuplicate' BY <1>1 DEF SeriesInv, NoDuplicate
<1> QED BY <1>2, <1>3

\* The step moves the request of c alone; it did not hold writeMu, nor does it now.
MovesOnly(c) ==
  /\ \A d \in Clients \ {c} : req'[d] = req[d]
  /\ req[c].pc # "locked" /\ req'[c].pc # "locked"
  /\ UNCHANGED mu
  /\ KeepsRoutes(c)

LEMMA MoveKeeps ==
  ASSUME SeriesInv, TypeOK', Evolves, UNCHANGED made, blind => blind',
         NEW c \in Clients, MovesOnly(c)
  PROVE  SeriesInv'
<1>1. \A d \in Clients : KeepsRoutes(d) BY DEF MovesOnly, KeepsRoutes
<1>2. Routing' BY <1>1, RoutingKept DEF SeriesInv
<1>3. Locking' BY DEF MovesOnly, SeriesInv, Locking
<1>4. Rechecked' /\ NoDuplicate' BY Uncreative DEF MovesOnly
<1> QED BY <1>2, <1>3, <1>4 DEF SeriesInv

LEMMA EndsOnly ==
  ASSUME TypeOK, NEW c \in Clients, GiveUp(c) \/ Fail(c), req[c].pc # "locked", UNCHANGED mu
  PROVE  MovesOnly(c)
<1>3. PICK pc \in {"idle", "resync"} : \E p : req' = [req EXCEPT ![c] = Rest(pc, p)]
  BY DEF GiveUp, Fail
<1>1. PICK p : req' = [req EXCEPT ![c] = Rest(pc, p)]
  BY <1>3
<1>2. /\ req'[c].pc = pc /\ req'[c].master = 0 /\ \A o \in Occs : req'[c].exc[o] = 0
      /\ \A d \in Clients \ {c} : req'[d] = req[d]
  BY <1>1 DEF Rest, TypeOK
<1> QED BY <1>2 DEF MovesOnly, KeepsRoutes

LEMMA AdvancesOnly ==
  ASSUME TypeOK, NEW c \in Clients, NEW o, Advance(c, o)
  PROVE  /\ \A d \in Clients \ {c} : req'[d] = req[d]
         /\ req'[c].pc = "apply" /\ KeepsRoutes(c)
<1>1. req[c] \in RequestType BY DEF TypeOK
<1> QED BY <1>1 DEF Advance, KeepsRoutes, TypeOK, RequestType

LEMMA Still == ASSUME UNCHANGED <<proton, used>> PROVE Evolves
BY DEF Evolves

LEMMA WorldKeeps ==
  ASSUME SeriesInv, TypeOK', Others \/ Tick \/ Snapshot \/ \E r \in Ids : Poll(r)
  PROVE  SeriesInv'
<1>1. UNCHANGED <<made, blind, req, mu>>
  <2>1. CASE Others
    BY <2>1 DEF Others, OtherEdits, OtherEditsOccurrence, OtherDeletes, OtherWrites
  <2>2. CASE Tick \/ Snapshot \/ \E r \in Ids : Poll(r)
    BY <2>2 DEF Tick, Snapshot, Poll, history
  <2> QED BY <2>1, <2>2
<1>2. Evolves
  <2>1. ASSUME NEW r \in Ids, OtherEdits(r) PROVE Evolves
    <3>1. PICK ex : proton' = [proton EXCEPT ![r] = [@ EXCEPT !.by = Other, !.ex = ex, !.edit = now]]
      BY <2>1 DEF OtherEdits, OtherWrites
    <3>2. proton[r] \in Row BY <2>1 DEF OtherEdits, SeriesInv, TypeOK
    <3>3. proton'[r].occ = proton[r].occ /\ \A s \in Ids \ {r} : proton'[s] = proton[s]
      BY <3>1, <3>2 DEF Row, SeriesInv, TypeOK
    <3> QED BY <2>1, <3>2, <3>3 DEF OtherEdits, Evolves
  <2>2. ASSUME NEW o \in Occs, NEW r \in Ids, OtherEditsOccurrence(o, r) PROVE Evolves
    BY <2>2 DEF OtherEditsOccurrence, OtherWrites, Evolves, SeriesInv, TypeOK
  <2>3. ASSUME NEW R \in SUBSET Ids, OtherDeletes(R) PROVE Evolves
    BY <2>3 DEF OtherDeletes, OtherWrites, Evolves
  <2>4. CASE Tick \/ Snapshot \/ \E r \in Ids : Poll(r)
    BY <2>4, Still DEF Tick, Snapshot, Poll
  <2> QED BY <2>1, <2>2, <2>3, <2>4 DEF Others
<1>3. Routing' BY <1>1, <1>2, RoutingKept DEF SeriesInv, KeepsRoutes
<1>4. Locking' BY <1>1 DEF SeriesInv, Locking
<1>5. Rechecked' /\ NoDuplicate' BY <1>1, <1>2, Uncreative
<1> QED BY <1>3, <1>4, <1>5 DEF SeriesInv

\* A PUT routes its writes to the rows Proton has when it is read.
LEMMA PutStartKeeps ==
  ASSUME SeriesInv, TypeOK', NEW c \in Clients, PutStart(c)
  PROVE  SeriesInv'
<1>1. PICK p, cond : req' = [req EXCEPT ![c] = Routed(c, p, cond)] BY DEF PutStart
<1>2. req \in [Clients -> RequestType] BY DEF SeriesInv, TypeOK
<1>3. /\ req'[c].pc = "check" /\ req'[c].master = MasterOf(proton)
      /\ \A o \in Occs : req'[c].exc[o] = ExceptionOf(proton, o)
      /\ \A d \in Clients \ {c} : req'[d] = req[d]
  BY <1>1, <1>2 DEF Routed, Rest
<1>4. UNCHANGED <<proton, used, mu, made, blind>> /\ Evolves BY Still DEF PutStart
<1>5. req[c].pc # "locked" BY DEF PutStart
<1>6. Locking' BY <1>3, <1>4, <1>5 DEF SeriesInv, Locking
<1>7. Rechecked' /\ NoDuplicate' BY <1>3, <1>4, Uncreative
<1>8. Routing'
  <2>1. /\ MasterOf(proton) # 0 => Means(MasterOf(proton), 0)
        /\ \A o \in Occs : ExceptionOf(proton, o) # 0 => Means(ExceptionOf(proton, o), o)
    BY Found DEF SeriesInv, Routing, Means, At
  <2> QED BY <1>3, <1>4, <2>1 DEF SeriesInv, Routing, Means
<1> QED BY <1>6, <1>7, <1>8 DEF SeriesInv

LEMMA HandlerKeeps ==
  ASSUME SeriesInv, TypeOK', NEW c \in Clients,
         \/ Get(c) \/ PutRefused(c) \/ PutAccepted(c) \/ PutRespond(c)
         \/ \E o \in Occs \cup {0} : PutOrphan(c, o) \/ RecheckFound(c, o) \/ UpdateNotFound(c, o)
  PROVE  SeriesInv'
<1>1. TypeOK /\ req[c] \in RequestType /\ req \in [Clients -> RequestType]
  BY DEF SeriesInv, TypeOK
<1>2. UNCHANGED <<proton, used, mu, made, blind>> /\ req[c].pc # "locked"
  BY DEF Get, PutRefused, PutAccepted, PutRespond, PutOrphan, RecheckFound, UpdateNotFound,
         untouched, Turn, Creates, Done
<1>3. Evolves BY <1>2, Still
<1>4. MovesOnly(c)
  <2>1. CASE GiveUp(c) \/ Fail(c) BY <1>1, <1>2, <2>1, EndsOnly
  <2>2. CASE Get(c) BY <1>1, <1>2, <2>2 DEF Get, MovesOnly, KeepsRoutes, RequestType
  <2>3. CASE PutAccepted(c)
    BY <1>1, <1>2, <2>3 DEF PutAccepted, MovesOnly, KeepsRoutes, RequestType
  <2>4. CASE PutRespond(c)
    <3>1. GiveUp(c) BY <2>4 DEF PutRespond, GiveUp
    <3> QED BY <1>1, <1>2, <3>1, EndsOnly
  <2>5. ASSUME NEW o \in Occs \cup {0}, RecheckFound(c, o) PROVE MovesOnly(c)
    <3>1. Advance(c, o) BY <2>5 DEF RecheckFound
    <3> QED BY <1>1, <1>2, <3>1, AdvancesOnly DEF MovesOnly
  <2> QED BY <2>1, <2>2, <2>3, <2>4, <2>5 DEF PutRefused, PutOrphan, UpdateNotFound
<1> QED BY <1>2, <1>3, <1>4, MoveKeeps

\* The row is missing and writeMu is held from here on.
LEMMA RecheckKeeps ==
  ASSUME SeriesInv, TypeOK', NEW c \in Clients, NEW o \in Occs \cup {0}, RecheckPassed(c, o)
  PROVE  SeriesInv'
<1>1. req \in [Clients -> RequestType] BY DEF SeriesInv, TypeOK
<1>2. /\ req'[c].pc = "locked" /\ req'[c].turn = o
      /\ req'[c].master = req[c].master /\ req'[c].exc = req[c].exc
      /\ \A d \in Clients \ {c} : req'[d] = req[d]
  BY <1>1 DEF RecheckPassed, RequestType
<1>3. /\ UNCHANGED <<proton, used, made>> /\ mu = NoOne /\ mu' = c
      /\ blind' \/ (At(proton, o) = {} /\ UNCHANGED blind)
  BY DEF RecheckPassed, Creates, Turn
<1>4. \A d \in Clients : req[d].pc # "locked"
  BY <1>3, WritersAssumption DEF SeriesInv, Locking
<1>5. Locking' BY <1>2, <1>3, <1>4 DEF Locking
<1>6. Routing' BY <1>2, <1>3, Still, RoutingKept DEF SeriesInv, KeepsRoutes
<1>7. Rechecked'
  <2>1. CASE blind' BY <2>1 DEF Rechecked
  <2>2. CASE At(proton, o) = {}
    <3>1. \A r \in made : proton[r] # None => proton[r].occ # o
      BY <2>2 DEF At, RowsIn, SeriesInv, TypeOK
    <3> QED BY <1>2, <1>3, <1>4, <3>1 DEF Rechecked
  <2> QED BY <1>3, <2>1, <2>2
<1>8. NoDuplicate' BY <1>3 DEF SeriesInv, NoDuplicate
<1> QED BY <1>5, <1>6, <1>7, <1>8 DEF SeriesInv

LEMMA CallFailsKeeps ==
  ASSUME SeriesInv, TypeOK', NEW c \in Clients, CallFails(c)
  PROVE  SeriesInv'
<1>1. TypeOK /\ UNCHANGED <<proton, used, made, blind>> /\ Evolves
  BY Still DEF CallFails, untouched, SeriesInv
<1>2. CASE req[c].pc # "locked"
  <2>1. MovesOnly(c) BY <1>1, <1>2, EndsOnly DEF CallFails
  <2> QED BY <1>1, <2>1, MoveKeeps
<1>3. CASE req[c].pc = "locked"
  <2>1. /\ req'[c].pc = "resync" /\ req'[c].master = 0 /\ \A o \in Occs : req'[c].exc[o] = 0
        /\ \A d \in Clients \ {c} : req'[d] = req[d]
    BY <1>1 DEF CallFails, Fail, Rest, TypeOK
  <2>2. mu = c /\ mu' = NoOne BY <1>3 DEF CallFails, SeriesInv, Locking
  <2>3. Locking' BY <2>1, <2>2, WritersAssumption DEF SeriesInv, Locking
  <2>4. Routing' BY <1>1, <2>1, RoutingKept DEF SeriesInv, KeepsRoutes
  <2>5. Rechecked' /\ NoDuplicate' BY <1>1, <2>1, Uncreative
  <2> QED BY <2>3, <2>4, <2>5 DEF SeriesInv
<1> QED BY <1>2, <1>3

\* What a write of o puts in Proton, and who moves.
LEMMA StoredFacts ==
  ASSUME TypeOK, NEW c \in Clients, NEW o \in Occs \cup {0}, NEW r \in Ids, Stored(c, o, r)
  PROVE  /\ proton'[r].occ = o /\ \A s \in Ids \ {r} : proton'[s] = proton[s]
         /\ \A d \in Clients \ {c} : req'[d] = req[d]
         /\ req'[c].pc # "locked" /\ KeepsRoutes(c)
<1>1. proton'[r].occ = o /\ \A s \in Ids \ {r} : proton'[s] = proton[s]
  BY ContentRow DEF Stored, TypeOK
<1>2. Advance(c, o) \/ Fail(c) BY DEF Stored
<1>3. CASE Advance(c, o) BY <1>1, <1>3, AdvancesOnly
<1>4. CASE Fail(c)
  <2>1. /\ req'[c].pc = "resync" /\ req'[c].master = 0 /\ \A q \in Occs : req'[c].exc[q] = 0
        /\ \A d \in Clients \ {c} : req'[d] = req[d]
    BY <1>4 DEF Fail, Rest, TypeOK
  <2> QED BY <1>1, <2>1 DEF KeepsRoutes
<1> QED BY <1>2, <1>3, <1>4

LEMMA CreateKeeps ==
  ASSUME SeriesInv, TypeOK', NEW c \in Clients, NEW r \in Ids, SendCreate(c, r)
  PROVE  SeriesInv'
<1> DEFINE o == req[c].turn
<1>1. TypeOK /\ o \in Occs \cup {0} BY RequestFields DEF SeriesInv, TypeOK
<1>2. /\ proton'[r].occ = o /\ \A s \in Ids \ {r} : proton'[s] = proton[s]
      /\ \A d \in Clients \ {c} : req'[d] = req[d]
      /\ req'[c].pc # "locked" /\ KeepsRoutes(c)
  BY <1>1, StoredFacts DEF SendCreate
<1>3. /\ req[c].pc = "locked" /\ r \notin used /\ used' = used \cup {r}
      /\ made' = made \cup {r} /\ mu' = NoOne /\ UNCHANGED blind
  BY DEF SendCreate
<1> HIDE DEF o
<1>4. Evolves BY <1>2, <1>3 DEF Evolves
<1>5. mu = c BY <1>3 DEF SeriesInv, Locking
<1>6. Locking' /\ Rechecked'
  <2>1. \A d \in Clients : req'[d].pc # "locked" BY <1>2, <1>5 DEF SeriesInv, Locking
  <2> QED BY <1>3, <2>1, WritersAssumption DEF Locking, Rechecked
<1>7. Routing'
  <2>1. \A d \in Clients : KeepsRoutes(d) BY <1>2 DEF KeepsRoutes
  <2> QED BY <1>4, <2>1, RoutingKept DEF SeriesInv
<1>8. NoDuplicate'
  <2>1. made \subseteq Ids /\ r \notin made BY <1>1, <1>3 DEF TypeOK
  <2>2. ~blind => \A s \in made : proton[s] # None => proton[s].occ # o
    BY <1>3 DEF SeriesInv, Rechecked, o
  <2> QED BY <1>2, <1>3, <2>1, <2>2 DEF SeriesInv, NoDuplicate
<1> QED BY <1>6, <1>7, <1>8 DEF SeriesInv

LEMMA UpdateKeeps ==
  ASSUME SeriesInv, TypeOK', NEW c \in Clients, NEW o \in Occs \cup {0}, SendUpdate(c, o)
  PROVE  SeriesInv'
<1> DEFINE r == Target(c, o)
<1>1. TypeOK /\ r \in Ids
  BY RequestFields DEF SendUpdate, Target, SeriesInv, TypeOK
<1>2. proton[r] # None /\ proton[r].occ = o
  BY OccsAssumption DEF SendUpdate, Target, SeriesInv, Routing, Means
<1>3. /\ Stored(c, o, r) /\ req[c].pc # "locked"
      /\ UNCHANGED <<used, made, mu, blind>>
  BY DEF SendUpdate, Turn
<1> HIDE DEF r
<1>4. /\ proton'[r].occ = o /\ \A s \in Ids \ {r} : proton'[s] = proton[s]
      /\ \A d \in Clients \ {c} : req'[d] = req[d]
      /\ req'[c].pc # "locked" /\ KeepsRoutes(c)
  BY <1>1, <1>3, StoredFacts
<1>5. Evolves BY <1>2, <1>3, <1>4 DEF Evolves
<1>6. MovesOnly(c) BY <1>3, <1>4 DEF MovesOnly
<1> QED BY <1>3, <1>5, <1>6, MoveKeeps

LEMMA DeleteKeeps ==
  ASSUME SeriesInv, TypeOK', NEW c \in Clients, NEW r \in Ids, SendDelete(c, r) \/ Delete(c, r)
  PROVE  SeriesInv'
<1>1. TypeOK /\ req[c] \in RequestType /\ req \in [Clients -> RequestType]
  BY DEF SeriesInv, TypeOK
<1>2. PICK R : Dropped(c, R) BY DEF SendDelete, Delete
<1>3. UNCHANGED <<used, made, mu, blind>> /\ req[c].pc # "locked" BY DEF SendDelete, Delete
<1>4. Evolves BY <1>2, <1>3 DEF Dropped, Evolves
<1>5. MovesOnly(c)
  <2>1. CASE GiveUp(c) \/ Fail(c) BY <1>1, <1>3, <2>1, EndsOnly
  <2>2. CASE req' = [req EXCEPT ![c].dels = @ \ {r}]
    BY <1>1, <1>3, <2>2 DEF MovesOnly, KeepsRoutes, RequestType
  <2> QED BY <2>1, <2>2 DEF SendDelete, Delete, GiveUp
<1> QED BY <1>3, <1>4, <1>5, MoveKeeps

LEMMA NextSeries == SeriesInv /\ [Next]_vars => SeriesInv'
<1> SUFFICES ASSUME SeriesInv, [Next]_vars PROVE SeriesInv' OBVIOUS
<1>0. TypeOK' BY NextTypes DEF SeriesInv
<1>1. CASE Others \/ Tick \/ Snapshot \/ \E r \in Ids : Poll(r) BY <1>0, <1>1, WorldKeeps
<1>2. ASSUME NEW c \in Clients, Get(c) \/ PutStart(c) PROVE SeriesInv'
  BY <1>0, <1>2, HandlerKeeps, PutStartKeeps
<1>3. ASSUME NEW c \in Clients, Handler(c) PROVE SeriesInv'
  BY <1>0, <1>3, HandlerKeeps, RecheckKeeps, CallFailsKeeps, CreateKeeps, UpdateKeeps, DeleteKeeps
  DEF Handler
<1>4. ASSUME NEW c \in Clients, NEW r \in Ids, Delete(c, r) PROVE SeriesInv'
  BY <1>0, <1>4, DeleteKeeps
<1>5. CASE UNCHANGED vars
  BY <1>0, <1>5 DEF vars, history, SeriesInv, Locking, Routing, Means, Rechecked, NoDuplicate
<1> QED BY <1>1, <1>2, <1>3, <1>4, <1>5 DEF Next

\* However requests race, fail half-way and are sent again, the gateway creates no
\* second row of an occurrence: the re-check of CreateEvent holds until the create
\* (writeMu), and an update stays with the row it was routed to.
THEOREM NoSecondRow == Spec => []NoDuplicate
<1> QED BY InitSeries, NextSeries, PTL DEF Spec, SeriesInv

-----------------------------------------------------------------------------
(* What a PUT leaves behind. *)

\* The occurrences (0: the master) c's resource has, and those it has yet to write.
Wanted(c) == req[c].pay.kids \cup (IF req[c].pay.master THEN {0} ELSE {})
Left(c) == req[c].kids \cup (IF req[c].head # "done" THEN {0} ELSE {})

\* No occurrence has two rows; the row of o is the one c has routed its write to;
\* it is as c's resource has it.
OneEach == \A r, s \in RowsIn(proton) : proton[r].occ = proton[s].occ => r = s
Unwritten(c, o) == At(proton, o) = {Target(c, o)} \ {0}
Written(c, o) ==
  \E r \in At(proton, o) :
    /\ proton[r].by = c
    /\ proton[r].ex = IF o = 0 THEN req[c].pay.ex \cup req[c].past ELSE {}

\* The handler has read Proton's rows, and they are still those.
Current(c) == OneEach /\ \A o \in Occs \cup {0} : Unwritten(c, o)

\* It is at writing: what it has yet to write is as it was read, what it has
\* written is there, and what is superfluous is what it has yet to delete.
Halfway(c) ==
  /\ OneEach
  /\ Left(c) \subseteq Wanted(c)
  /\ \A o \in Left(c) : Unwritten(c, o)
  /\ \A o \in Wanted(c) \ Left(c) : Written(c, o)
  /\ \A r \in RowsIn(proton) : proton[r].occ \in Wanted(c) \/ r \in req[c].dels
  /\ \A r \in req[c].dels : r \in RowsIn(proton) /\ proton[r].occ \notin Wanted(c)
  /\ req[c].pc = "locked" =>
       /\ req[c].turn \in Left(c) /\ Target(c, req[c].turn) = 0
       /\ req[c].head # "done" => req[c].turn = 0

Alone(c) == req[c].clean /\ ~disturbed[c]
PutOK(c) ==
  Alone(c) => /\ req[c].pc = "check" => Current(c)
              /\ req[c].pc \in {"apply", "locked"} => Halfway(c)
PutInv == \A c \in Clients : PutOK(c)

LEMMA AtIs ==
  ASSUME NEW view, NEW o
  PROVE  \A r : r \in At(view, o) <=> r \in Ids /\ view[r] # None /\ view[r].occ = o
BY DEF At, RowsIn

\* A set of IDs with at most one element, told by its cardinality.
LEMMA AtMostOne ==
  ASSUME NEW S \in SUBSET Ids
  PROVE  Cardinality(S) <= 1 <=> \A r, s \in S : r = s
<1>1. IsFiniteSet(Ids) BY BoundsAssumption, FS_Interval DEF Ids
<1>2. IsFiniteSet(S) /\ Cardinality(S) \in Nat BY <1>1, FS_Subset, FS_CardinalityType
<1>3. ASSUME NEW r \in S, NEW s \in S, r # s PROVE ~(Cardinality(S) <= 1)
  <2>1. IsFiniteSet({r}) /\ Cardinality({r}) = 1 BY FS_Singleton
  <2>2. IsFiniteSet({r} \cup {s}) /\ Cardinality({r} \cup {s}) = 2
    <3>1. s \notin {r} BY <1>3
    <3>2. PICK T : T = {r} OBVIOUS
    <3>3. IsFiniteSet(T \cup {s}) /\ Cardinality(T \cup {s}) = 2
      BY <2>1, <3>1, <3>2, FS_AddElement
    <3> QED BY <3>2, <3>3
  <2>3. {r} \cup {s} \subseteq S OBVIOUS
  <2>4. Cardinality({r} \cup {s}) <= Cardinality(S) BY <1>2, <2>3, FS_Subset
  <2> QED BY <1>2, <2>2, <2>4
<1>4. ASSUME \A r, s \in S : r = s PROVE Cardinality(S) <= 1
  <2>1. CASE S = {}
    <3>1. Cardinality(S) = 0 BY <2>1, FS_EmptySet
    <3> QED BY <3>1
  <2>2. CASE S # {}
    <3>1. PICK r \in S : TRUE BY <2>2
    <3>2. S = {r} BY <1>4, <3>1
    <3>3. Cardinality(S) = 1 BY <3>2, FS_Singleton
    <3> QED BY <3>3
  <2> QED BY <2>1, <2>2
<1> QED BY <1>3, <1>4

LEMMA CleanIs == TypeOK => (Clean(proton) <=> OneEach)
<1> SUFFICES ASSUME TypeOK PROVE Clean(proton) <=> OneEach OBVIOUS
<1>1. \A o : Cardinality(At(proton, o)) <= 1 <=> \A r, s \in At(proton, o) : r = s
  <2> SUFFICES ASSUME NEW o
               PROVE  Cardinality(At(proton, o)) <= 1 <=> \A r, s \in At(proton, o) : r = s
    OBVIOUS
  <2>1. At(proton, o) \in SUBSET Ids BY RowsInIds
  <2> QED BY <2>1, AtMostOne
<1>2. \A r \in RowsIn(proton) : proton[r].occ \in Occs \cup {0} /\ r \in At(proton, proton[r].occ)
  BY DEF RowsIn, At, TypeOK, Row
<1>3. \A o : \A r \in At(proton, o) : r \in RowsIn(proton) /\ proton[r].occ = o BY DEF At
<1>4. ASSUME Clean(proton) PROVE OneEach BY <1>1, <1>2, <1>4 DEF Clean, OneEach
<1>5. ASSUME OneEach PROVE Clean(proton)
  <2>1. \A o : \A r, s \in At(proton, o) : r = s BY <1>3, <1>5 DEF OneEach
  <2> QED BY <1>1, <2>1 DEF Clean
<1> QED BY <1>4, <1>5

\* Rows without duplicates are all found.
LEMMA AllFound ==
  ASSUME OneEach
  PROVE  /\ At(proton, 0) = {MasterOf(proton)} \ {0}
         /\ \A o \in Occs : At(proton, o) = {ExceptionOf(proton, o)} \ {0}
<1>1. \A q : At(proton, q) \in SUBSET Ids BY RowsInIds
<1>2. ASSUME NEW q, At(proton, q) # {}
      PROVE  Min(At(proton, q)) \in At(proton, q) /\ Max(At(proton, q)) \in At(proton, q)
  <2>1. At(proton, q) \in SUBSET (0..MaxRow) /\ MaxRow \in Nat
    BY <1>1, BoundsAssumption DEF Ids
  <2> QED BY <1>2, <2>1, Extremes
<1>3. \A q : \A r, s \in At(proton, q) : r = s BY DEF At, OneEach
<1>4. 0 \notin Ids BY DEF Ids
<1>5. At(proton, 0) = {MasterOf(proton)} \ {0}
  <2>1. CASE At(proton, 0) = {} BY <2>1 DEF MasterOf
  <2>2. CASE At(proton, 0) # {}
    <3>1. MasterOf(proton) \in At(proton, 0) BY <1>2, <2>2 DEF MasterOf
    <3> QED BY <1>1, <1>3, <1>4, <3>1
  <2> QED BY <2>1, <2>2
<1>6. ASSUME NEW o \in Occs PROVE At(proton, o) = {ExceptionOf(proton, o)} \ {0}
  <2>1. CASE At(proton, o) = {} BY <2>1 DEF ExceptionOf
  <2>2. CASE At(proton, o) # {}
    <3>1. ExceptionOf(proton, o) \in At(proton, o) BY <1>2, <2>2 DEF ExceptionOf
    <3> QED BY <1>1, <1>3, <1>4, <3>1
  <2> QED BY <2>1, <2>2
<1> QED BY <1>5, <1>6

-----------------------------------------------------------------------------
(* The steps of others. *)

LEMMA Disturbs ==
  ASSUME NEW w, WrittenBy(w), NEW c \in Clients
  PROVE  /\ disturbed[c] => disturbed'[c]
         /\ w # c /\ req[c].pc \in {"check", "apply", "locked"} => disturbed'[c]
<1>1. disturbed'[c] = (disturbed[c] \/ (w # c /\ req[c].pc \in {"check", "apply", "locked"}))
  BY DEF WrittenBy
<1> QED BY <1>1, Zenon

LEMMA Bystander ==
  ASSUME NEW c \in Clients, PutOK(c), req'[c] = req[c],
         \/ proton' = proton /\ (disturbed[c] => disturbed'[c])
         \/ \E w : w # c /\ WrittenBy(w)
  PROVE  PutOK(c)'
<1>1. CASE proton' = proton /\ (disturbed[c] => disturbed'[c])
  <2>1. Alone(c)' => Alone(c) BY <1>1 DEF Alone
  <2>2. \A o : Unwritten(c, o)' <=> Unwritten(c, o) BY <1>1 DEF Unwritten, Target
  <2>3. \A o : Written(c, o)' <=> Written(c, o) BY <1>1 DEF Written
  <2>4. OneEach' <=> OneEach BY <1>1 DEF OneEach
  <2>5. Current(c) => Current(c)' BY <2>2, <2>4 DEF Current
  <2>6. Wanted(c)' = Wanted(c) /\ Left(c)' = Left(c) BY DEF Wanted, Left
  <2>7. \A o : Target(c, o)' = Target(c, o) BY DEF Target
  <2>8. Halfway(c) => Halfway(c)' BY <1>1, <2>2, <2>3, <2>4, <2>6, <2>7 DEF Halfway
  <2> QED BY <2>1, <2>5, <2>8 DEF PutOK
<1>2. CASE \E w : w # c /\ WrittenBy(w) BY <1>2, Disturbs DEF PutOK, Alone
<1> QED BY <1>1, <1>2

\* A request that is over, or not begun.
LEMMA AtRestOK ==
  ASSUME NEW c \in Clients, req'[c].pc \in {"idle", "resync", "retry"}
  PROVE  PutOK(c)'
BY DEF PutOK

-----------------------------------------------------------------------------
(* The steps of the request itself. *)

LEMMA PutStartOK ==
  ASSUME TypeOK, NEW c \in Clients, PutStart(c)
  PROVE  PutOK(c)' /\ \A d \in Clients \ {c} : req'[d] = req[d] /\ disturbed'[d] = disturbed[d]
<1>1. PICK p, cond : req' = [req EXCEPT ![c] = Routed(c, p, cond)] BY DEF PutStart
<1>2. req \in [Clients -> RequestType] /\ disturbed \in [Clients -> BOOLEAN] BY DEF TypeOK
<1>3. /\ req'[c].pc = "check" /\ req'[c].clean = Clean(proton)
      /\ req'[c].master = MasterOf(proton)
      /\ \A o \in Occs : req'[c].exc[o] = ExceptionOf(proton, o)
      /\ \A d \in Clients \ {c} : req'[d] = req[d]
  BY <1>1, <1>2 DEF Routed, Rest
<1>4. proton' = proton BY DEF PutStart
<1>5. \A d \in Clients \ {c} : disturbed'[d] = disturbed[d] BY <1>2 DEF PutStart
<1>6. ASSUME req'[c].clean PROVE Current(c)'
  <2>1. Clean(proton) BY <1>3, <1>6, Zenon
  <2>2. OneEach BY <2>1, CleanIs
  <2>3. ASSUME NEW o \in Occs \cup {0} PROVE Unwritten(c, o)'
    <3>1. CASE o = 0
      <4>1. At(proton, 0) = {MasterOf(proton)} \ {0} BY <2>2, AllFound
      <4> QED BY <1>3, <1>4, <3>1, <4>1 DEF Unwritten, Target
    <3>2. CASE o # 0
      <4>1. At(proton, o) = {ExceptionOf(proton, o)} \ {0} BY <3>2, <2>2, AllFound
      <4> QED BY <1>3, <1>4, <3>2, <4>1 DEF Unwritten, Target
    <3> QED BY <3>1, <3>2
  <2>4. OneEach' BY <1>4, <2>2 DEF OneEach
  <2> QED BY <2>3, <2>4 DEF Current
<1> QED BY <1>3, <1>5, <1>6 DEF PutOK, Alone

LEMMA PutAcceptedOK ==
  ASSUME TypeOK, NEW c \in Clients, PutOK(c), PutAccepted(c)
  PROVE  PutOK(c)'
<1> DEFINE q == req[c]
           dels == {q.exc[o] : o \in Occs \ q.pay.kids} \ {0}
           head == IF ~q.pay.master THEN "done" ELSE IF q.master = 0 THEN "create" ELSE "update"
<1>1. q \in RequestType /\ req' = [req EXCEPT ![c] =
        [q EXCEPT !.pc = "apply", !.head = head, !.kids = q.pay.kids, !.dels = dels]]
  BY DEF PutAccepted, TypeOK
<1>2. /\ req'[c].pc = "apply" /\ req'[c].head = head /\ req'[c].kids = q.pay.kids
      /\ req'[c].dels = dels /\ req'[c].pay = q.pay /\ req'[c].master = q.master
      /\ req'[c].exc = q.exc /\ req'[c].clean = q.clean
  BY <1>1 DEF RequestType, TypeOK
<1>3. UNCHANGED <<proton, disturbed>> /\ q.pc = "check" /\ ~Incomplete(c)
  BY DEF PutAccepted, untouched
<1>4. q.pay.kids \subseteq Occs BY <1>1, RequestFields
<1>5. head # "done" <=> q.pay.master OBVIOUS
<1>6. Left(c)' = Wanted(c)' BY <1>2, <1>5 DEF Left, Wanted
<1>7. Wanted(c)' = q.pay.kids \cup (IF q.pay.master THEN {0} ELSE {}) BY <1>2 DEF Wanted
<1>8. ASSUME Current(c) PROVE Halfway(c)'
  <2>1. OneEach' BY <1>3, <1>8 DEF Current, OneEach
  <2>2. \A o \in Occs \cup {0} : At(proton, o) = {Target(c, o)} \ {0}
    BY <1>8 DEF Current, Unwritten
  <2>3. \A o : Target(c, o)' = Target(c, o) BY <1>2 DEF Target
  <2>4. Wanted(c)' \subseteq Occs \cup {0} BY <1>4, <1>7
  <2>5. \A o \in Left(c)' : Unwritten(c, o)' BY <1>3, <1>6, <2>2, <2>3, <2>4 DEF Unwritten
  <2>6. ASSUME NEW r \in RowsIn(proton), proton[r].occ \notin Wanted(c)' PROVE r \in dels
    <3>1. PICK o \in Occs \cup {0} : o = proton[r].occ /\ r \in At(proton, o)
      BY DEF RowsIn, At, TypeOK, Row
    <3>2. r = Target(c, o) /\ r # 0 BY <2>2, <3>1
    <3>3. o # 0
      <4>1. ASSUME o = 0 PROVE FALSE
        <5>1. ~q.pay.master BY <1>7, <2>6, <3>1, <4>1
        <5>2. q.master = 0 BY <1>3, <5>1 DEF Incomplete
        <5> QED BY <3>2, <4>1, <5>2 DEF Target
      <4> QED BY <4>1
    <3>4. o \in Occs \ q.pay.kids BY <1>7, <2>6, <3>1, <3>3
    <3> QED BY <3>2, <3>3, <3>4 DEF Target
  <2>7. ASSUME NEW r \in dels PROVE r \in RowsIn(proton) /\ proton[r].occ \notin Wanted(c)'
    <3>1. PICK o \in Occs \ q.pay.kids : r = q.exc[o] /\ r # 0 OBVIOUS
    <3>2. o # 0 BY OccsAssumption
    <3>3. r \in At(proton, o) BY <2>2, <3>1, <3>2 DEF Target
    <3>4. r \in RowsIn(proton) /\ proton[r].occ = o BY <3>3 DEF At
    <3> QED BY <1>7, <3>1, <3>2, <3>4
  <2> HIDE DEF q, dels, head
  <2> QED BY <1>2, <1>3, <1>6, <2>1, <2>5, <2>6, <2>7 DEF Halfway
<1>9. Alone(c)' => Alone(c)
  <2>1. req'[c].clean = req[c].clean BY <1>2
  <2>2. disturbed' = disturbed BY <1>3
  <2> QED BY <2>1, <2>2 DEF Alone
<1>10. Alone(c)' => Current(c) BY <1>3, <1>9 DEF PutOK
<1> HIDE DEF q, dels, head
<1> QED BY <1>2, <1>8, <1>10 DEF PutOK

\* While nobody else writes, what c found missing is still missing.
LEMMA RecheckOK ==
  ASSUME TypeOK, NEW c \in Clients, PutOK(c), NEW o \in Occs \cup {0},
         RecheckFound(c, o) \/ RecheckPassed(c, o)
  PROVE  PutOK(c)'
<1>1. /\ req[c].pc = "apply" /\ Target(c, o) = 0
      /\ IF req[c].head # "done" THEN o = 0 ELSE o \in req[c].kids
      /\ UNCHANGED <<proton, disturbed>>
  BY DEF RecheckFound, RecheckPassed, Creates, Turn, untouched
<1>2. o \in Left(c) BY <1>1 DEF Left
<1>3. Halfway(c) => At(proton, o) = {} BY <1>1, <1>2 DEF Halfway, Unwritten
<1>4. req[c] \in RequestType /\ req \in [Clients -> RequestType] BY DEF TypeOK
<1>5. CASE RecheckFound(c, o)
  <2>1. ~Halfway(c) BY <1>3, <1>5 DEF RecheckFound
  <2>2. ~Alone(c) BY <1>1, <2>1 DEF PutOK
  <2>3. req'[c].clean = req[c].clean BY <1>4, <1>5 DEF RecheckFound, Advance, RequestType
  <2>4. disturbed' = disturbed BY <1>1
  <2>5. ~Alone(c)' BY <2>2, <2>3, <2>4 DEF Alone
  <2> QED BY <2>5 DEF PutOK
<1>6. CASE RecheckPassed(c, o)
  <2>1. /\ req'[c].pc = "locked" /\ req'[c].turn = o /\ req'[c].pay = req[c].pay
        /\ req'[c].master = req[c].master /\ req'[c].exc = req[c].exc
        /\ req'[c].head = req[c].head /\ req'[c].kids = req[c].kids
        /\ req'[c].dels = req[c].dels /\ req'[c].past = req[c].past
    BY <1>4, <1>6 DEF RecheckPassed, RequestType
  <2>2. req'[c].clean = req[c].clean BY <1>4, <1>6 DEF RecheckPassed, RequestType
  <2>3. proton' = proton /\ disturbed' = disturbed BY <1>1
  <2>4. \A p : Unwritten(c, p)' <=> Unwritten(c, p) BY <2>1, <2>3 DEF Unwritten, Target
  <2>5. \A p : Written(c, p)' <=> Written(c, p) BY <2>1, <2>3 DEF Written
  <2>6. OneEach' <=> OneEach BY <2>3 DEF OneEach
  <2>7. Wanted(c)' = Wanted(c) /\ Left(c)' = Left(c) BY <2>1 DEF Wanted, Left
  <2>8. \A p : Target(c, p)' = Target(c, p) BY <2>1 DEF Target
  <2>9. PICK t : t = req'[c].turn OBVIOUS
  <2>10. /\ t \in Left(c)' /\ Target(c, t)' = 0
         /\ req'[c].head # "done" => req'[c].turn = 0
    BY <1>1, <1>2, <2>1, <2>7, <2>8, <2>9
  <2>11. Target(c, req[c].turn)' = 0 BY <1>1, <2>1 DEF Target
  <2>12. Halfway(c) => Halfway(c)'
    BY <2>1, <2>3, <2>4, <2>5, <2>6, <2>7, <2>9, <2>10, <2>11 DEF Halfway
  <2>13. Alone(c)' => Alone(c) BY <2>2, <2>3 DEF Alone
  <2> QED BY <1>1, <2>1, <2>12, <2>13 DEF PutOK
<1> QED BY <1>5, <1>6

\* One write is made: what it was about is as the resource has it.
LEMMA WroteOne ==
  ASSUME TypeOK, NEW c \in Clients, Halfway(c), NEW o \in Left(c), NEW r \in Ids,
         req[c].head # "done" => o = 0,
         proton' = [proton EXCEPT ![r] = Content(c, o)], Advance(c, o),
         At(proton, o) \subseteq {r}, proton[r] = None \/ r \in At(proton, o)
  PROVE  Halfway(c)' /\ req'[c].pc = "apply"
<1>1. req[c] \in RequestType /\ req \in [Clients -> RequestType] BY DEF TypeOK
<1>2. /\ req'[c].pc = "apply" /\ req'[c].pay = req[c].pay /\ req'[c].master = req[c].master
      /\ req'[c].exc = req[c].exc /\ req'[c].head = "done" /\ req'[c].kids = req[c].kids \ {o}
      /\ req'[c].dels = req[c].dels /\ req'[c].past = req[c].past
  BY <1>1 DEF Advance, RequestType
<1>3. req[c].kids \subseteq Occs /\ 0 \notin Occs /\ req[c].pay.kids \subseteq Occs
  BY <1>1, RequestFields, OccsAssumption
<1>4. Wanted(c)' = Wanted(c) BY <1>2 DEF Wanted
<1>5. Left(c)' = Left(c) \ {o}
  <2>1. CASE o = 0 BY <1>2, <1>3, <2>1 DEF Left
  <2>2. CASE o # 0
    <3>1. req[c].head = "done" BY <2>2
    <3> QED BY <1>2, <3>1 DEF Left
  <2> QED BY <2>1, <2>2
<1>6. /\ o \in Wanted(c) /\ Left(c) \subseteq Wanted(c) /\ OneEach
      /\ \A q \in Left(c) : Unwritten(c, q)
      /\ \A q \in Wanted(c) \ Left(c) : Written(c, q)
      /\ \A s \in RowsIn(proton) : proton[s].occ \in Wanted(c) \/ s \in req[c].dels
      /\ \A s \in req[c].dels : s \in RowsIn(proton) /\ proton[s].occ \notin Wanted(c)
  BY DEF Halfway
<1>7. o \in Occs \cup {0} BY <1>3, <1>6 DEF Wanted
<1>8. /\ proton'[r] = Content(c, o) /\ proton'[r] # None /\ proton'[r].occ = o
      /\ \A s \in Ids \ {r} : proton'[s] = proton[s]
  BY <1>7, ContentRow, NoneNoRow DEF TypeOK
<1>9. RowsIn(proton') = RowsIn(proton) \cup {r} BY <1>8 DEF RowsIn
<1>10. At(proton', o) = {r} BY <1>8, AtIs DEF At, RowsIn
<1>11. ASSUME NEW q, q # o PROVE At(proton', q) = At(proton, q)
  <2>1. r \notin At(proton, q) BY <1>11, AtIs
  <2> QED BY <1>8, <1>11, <2>1 DEF At, RowsIn
<1>12. OneEach'
  <2> SUFFICES ASSUME NEW s \in RowsIn(proton'), NEW t \in RowsIn(proton'),
                      proton'[s].occ = proton'[t].occ
               PROVE  s = t
    BY DEF OneEach
  <2>1. ASSUME NEW x \in RowsIn(proton'), proton'[x].occ = o PROVE x = r
    <3>1. x \in At(proton', o) BY <2>1 DEF At
    <3> QED BY <1>10, <3>1
  <2>2. CASE s = r \/ t = r BY <1>8, <2>1, <2>2
  <2>3. CASE s # r /\ t # r
    <3>1. s \in RowsIn(proton) /\ t \in RowsIn(proton) BY <1>9, <2>3
    <3>2. proton'[s] = proton[s] /\ proton'[t] = proton[t] BY <1>8, <2>3, <3>1 DEF RowsIn
    <3> QED BY <1>6, <3>1, <3>2 DEF OneEach
  <2> QED BY <2>2, <2>3
<1>13. ASSUME NEW q \in Left(c)' PROVE Unwritten(c, q)'
  <2>1. q \in Left(c) /\ q # o BY <1>5, <1>13
  <2>2. At(proton', q) = {Target(c, q)} \ {0} BY <1>6, <1>11, <2>1 DEF Unwritten
  <2>3. PICK x : x = q OBVIOUS
  <2>4. Target(c, x)' = Target(c, x) BY <1>2 DEF Target
  <2> QED BY <1>2, <2>2 DEF Unwritten, Target
<1>14. ASSUME NEW q \in Wanted(c)' \ Left(c)' PROVE Written(c, q)'
  <2>1. CASE q = o
    <3>0. /\ Content(c, o).by = c
          /\ Content(c, o).ex = IF o = 0 THEN req[c].pay.ex \cup req[c].past ELSE {}
      BY DEF Content
    <3>1. proton'[r].by = c
          /\ proton'[r].ex = IF o = 0 THEN req[c].pay.ex \cup req[c].past ELSE {}
      BY <1>8, <3>0
    <3> QED BY <1>2, <1>10, <2>1, <3>1 DEF Written
  <2>2. CASE q # o
    <3>1. q \in Wanted(c) \ Left(c) BY <1>4, <1>5, <1>14, <2>2
    <3>2. PICK s \in At(proton, q) :
            /\ proton[s].by = c
            /\ proton[s].ex = IF q = 0 THEN req[c].pay.ex \cup req[c].past ELSE {}
      BY <1>6, <3>1 DEF Written
    <3>3. s \in At(proton', q) /\ s # r /\ s \in Ids
      <4>1. s \in Ids /\ proton[s] # None /\ proton[s].occ = q BY <3>2, AtIs
      <4>2. r \in At(proton, o) => proton[r].occ = o BY AtIs
      <4>3. s # r BY <2>2, <4>1, <4>2
      <4>4. s \in At(proton', q) BY <1>11, <2>2, <3>2
      <4> QED BY <4>1, <4>3, <4>4
    <3>4. proton'[s] = proton[s] BY <1>8, <3>3
    <3> QED BY <1>2, <3>2, <3>3, <3>4 DEF Written
  <2> QED BY <2>1, <2>2
<1>15. ASSUME NEW s \in RowsIn(proton') PROVE proton'[s].occ \in Wanted(c) \/ s \in req[c].dels
  <2>1. CASE s = r BY <1>6, <1>8, <2>1
  <2>2. CASE s # r
    <3>1. s \in RowsIn(proton) BY <1>9, <2>2
    <3>2. proton'[s] = proton[s] BY <1>8, <2>2, <3>1 DEF RowsIn
    <3> QED BY <1>6, <3>1, <3>2
  <2> QED BY <2>1, <2>2
<1>16. ASSUME NEW s \in req[c].dels PROVE s \in RowsIn(proton') /\ proton'[s].occ \notin Wanted(c)
  <2>1. s \in RowsIn(proton) /\ proton[s].occ \notin Wanted(c) BY <1>6
  <2>2. s # r
    <3>1. proton[s] # None /\ proton[s].occ # o BY <1>6, <2>1 DEF RowsIn
    <3> QED BY <3>1, AtIs
  <2>3. proton'[s] = proton[s] BY <1>8, <2>1, <2>2 DEF RowsIn
  <2> QED BY <1>9, <2>1, <2>3
<1>17. Left(c)' \subseteq Wanted(c)' BY <1>4, <1>5, <1>6
<1> QED BY <1>2, <1>4, <1>12, <1>13, <1>14, <1>15, <1>16, <1>17 DEF Halfway

LEMMA RestOK ==
  ASSUME TypeOK, NEW c \in Clients, GiveUp(c) \/ Fail(c)
  PROVE  PutOK(c)' /\ \A d \in Clients \ {c} : req'[d] = req[d]
<1>1. PICK pc \in {"idle", "resync"} : \E p : req' = [req EXCEPT ![c] = Rest(pc, p)]
  BY DEF GiveUp, Fail
<1>2. PICK p : req' = [req EXCEPT ![c] = Rest(pc, p)] BY <1>1
<1>3. req'[c].pc = pc /\ \A d \in Clients \ {c} : req'[d] = req[d] BY <1>2 DEF Rest, TypeOK
<1> QED BY <1>3, AtRestOK

LEMMA StoredOK ==
  ASSUME TypeOK, NEW c \in Clients, PutOK(c), req[c].pc \in {"apply", "locked"},
         NEW o \in Occs \cup {0}, NEW r \in Ids, Stored(c, o, r),
         Halfway(c) => /\ o \in Left(c) /\ (req[c].head # "done" => o = 0)
                       /\ At(proton, o) \subseteq {r}
                       /\ proton[r] = None \/ r \in At(proton, o)
  PROVE  PutOK(c)'
<1>1. proton' = [proton EXCEPT ![r] = Content(c, o)] /\ WrittenBy(c) BY DEF Stored
<1>2. Advance(c, o) \/ Fail(c) BY DEF Stored
<1>3. CASE Advance(c, o)
  <2>1. req'[c].clean = req[c].clean BY <1>3 DEF Advance, TypeOK, RequestType
  <2>2. Alone(c)' => Alone(c) BY <1>1, <2>1, Disturbs DEF Alone
  <2>3. Halfway(c) => Halfway(c)' /\ req'[c].pc = "apply"
    <3> SUFFICES ASSUME Halfway(c) PROVE Halfway(c)' /\ req'[c].pc = "apply" OBVIOUS
    <3>1. /\ o \in Left(c) /\ (req[c].head # "done" => o = 0)
          /\ At(proton, o) \subseteq {r} /\ (proton[r] = None \/ r \in At(proton, o))
      OBVIOUS
    <3> QED BY <1>1, <1>3, <3>1, WroteOne
  <2> QED BY <2>2, <2>3 DEF PutOK
<1>4. CASE Fail(c) BY <1>4, RestOK
<1> QED BY <1>2, <1>3, <1>4

LEMMA WritesOK ==
  ASSUME SeriesInv, NEW c \in Clients, PutOK(c),
         (\E r \in Ids : SendCreate(c, r)) \/ (\E o \in Occs \cup {0} : SendUpdate(c, o))
  PROVE  PutOK(c)' /\ WrittenBy(c) /\ \A d \in Clients \ {c} : req'[d] = req[d]
<1>1. TypeOK /\ req[c] \in RequestType BY DEF SeriesInv, TypeOK
<1>2. ASSUME NEW r \in Ids, SendCreate(c, r)
      PROVE  PutOK(c)' /\ WrittenBy(c) /\ \A d \in Clients \ {c} : req'[d] = req[d]
  <2> DEFINE o == req[c].turn
  <2>1. o \in Occs \cup {0} BY <1>1, RequestFields
  <2>2. Stored(c, o, r) /\ req[c].pc = "locked" /\ r \notin used BY <1>2 DEF SendCreate
  <2>3. proton[r] = None BY <2>2 DEF SeriesInv, Routing, RowsIn
  <2>4. ASSUME Halfway(c)
        PROVE  /\ o \in Left(c) /\ (req[c].head # "done" => o = 0) /\ At(proton, o) = {}
    <3>1. o \in Left(c) /\ Target(c, o) = 0 /\ (req[c].head # "done" => o = 0)
      BY <2>2, <2>4 DEF Halfway
    <3>2. At(proton, o) = {} BY <2>4, <3>1 DEF Halfway, Unwritten
    <3> QED BY <3>1, <3>2
  <2> HIDE DEF o
  <2>5. PutOK(c)' BY <1>1, <2>1, <2>2, <2>3, <2>4, StoredOK
  <2>6. WrittenBy(c) /\ \A d \in Clients \ {c} : req'[d] = req[d]
    BY <1>1, <2>1, <2>2, StoredFacts DEF Stored
  <2> QED BY <2>5, <2>6
<1>3. ASSUME NEW o \in Occs \cup {0}, SendUpdate(c, o)
      PROVE  PutOK(c)' /\ WrittenBy(c) /\ \A d \in Clients \ {c} : req'[d] = req[d]
  <2> DEFINE r == Target(c, o)
  <2>1. /\ Stored(c, o, r) /\ req[c].pc = "apply" /\ r # 0 /\ proton[r] # None
        /\ IF req[c].head # "done" THEN o = 0 ELSE o \in req[c].kids
    BY <1>3 DEF SendUpdate, Turn
  <2>2. r \in Ids BY <1>1, <2>1, RequestFields DEF Target
  <2>3. o \in Left(c) /\ (req[c].head # "done" => o = 0) BY <2>1 DEF Left
  <2>4. Halfway(c) => At(proton, o) = {r} BY <2>1, <2>3 DEF Halfway, Unwritten
  <2> HIDE DEF r
  <2>5. PutOK(c)' BY <1>1, <2>1, <2>2, <2>3, <2>4, StoredOK
  <2>6. WrittenBy(c) /\ \A d \in Clients \ {c} : req'[d] = req[d]
    BY <1>1, <2>1, <2>2, StoredFacts DEF Stored
  <2> QED BY <2>5, <2>6
<1> QED BY <1>2, <1>3

\* What is superfluous goes, and nothing else does.
LEMMA SendDeleteOK ==
  ASSUME TypeOK, NEW c \in Clients, PutOK(c), NEW r \in Ids, SendDelete(c, r)
  PROVE  PutOK(c)' /\ \A d \in Clients \ {c} : req'[d] = req[d]
<1>1. /\ req[c].pc = "apply" /\ req[c].head = "done" /\ req[c].kids = {}
      /\ Dropped(c, {r}) /\ r \in req[c].dels
  BY DEF SendDelete
<1>2. req[c] \in RequestType /\ req \in [Clients -> RequestType] BY DEF TypeOK
<1>3. CASE Fail(c) BY <1>3, RestOK
<1>4. CASE req' = [req EXCEPT ![c].dels = @ \ {r}]
  <2>1. /\ req'[c].pc = "apply" /\ req'[c].pay = req[c].pay /\ req'[c].past = req[c].past
        /\ req'[c].head = "done" /\ req'[c].kids = {}
        /\ req'[c].dels = req[c].dels \ {r}
        /\ \A d \in Clients \ {c} : req'[d] = req[d]
    BY <1>1, <1>2, <1>4 DEF RequestType
  <2>2. req'[c].clean = req[c].clean BY <1>2, <1>4 DEF RequestType
  <2>3. /\ \A s \in Ids \ {r} : proton'[s] = proton[s]
        /\ proton'[r] = None
    BY <1>1 DEF Dropped
  <2>4. disturbed[c] => disturbed'[c]
    <3>1. CASE disturbed' = disturbed BY <3>1
    <3>2. CASE WrittenBy(c) BY <3>2, Disturbs
    <3> QED BY <1>1, <3>1, <3>2 DEF Dropped
  <2>5. Alone(c)' => Alone(c) BY <2>2, <2>4 DEF Alone
  <2>6. ASSUME Halfway(c) PROVE Halfway(c)'
    <3>1. Left(c) = {} /\ Left(c)' = {} /\ Wanted(c)' = Wanted(c) BY <1>1, <2>1 DEF Left, Wanted
    <3>2. RowsIn(proton') = RowsIn(proton) \ {r} BY <2>3 DEF RowsIn
    <3>3. \A s \in RowsIn(proton') : proton'[s] = proton[s] BY <2>3, <3>2 DEF RowsIn
    <3>4. OneEach' BY <2>6, <3>2, <3>3 DEF Halfway, OneEach
    <3>5. ASSUME NEW q \in Wanted(c) PROVE Written(c, q)'
      <4>1. PICK s \in At(proton, q) :
              /\ proton[s].by = c
              /\ proton[s].ex = IF q = 0 THEN req[c].pay.ex \cup req[c].past ELSE {}
        BY <2>6, <3>1 DEF Halfway, Written
      <4>2. s \in RowsIn(proton) /\ proton[s].occ = q BY DEF At
      <4>3. s # r BY <1>1, <2>6, <4>2 DEF Halfway
      <4>4. proton'[s] = proton[s] /\ s \in At(proton', q) BY <3>2, <3>3, <4>2, <4>3 DEF At
      <4> QED BY <2>1, <4>1, <4>4 DEF Written
    <3>6. \A s \in RowsIn(proton') : proton'[s].occ \in Wanted(c) \/ s \in req'[c].dels
      BY <2>1, <2>6, <3>2, <3>3 DEF Halfway
    <3>7. \A s \in req'[c].dels : s \in RowsIn(proton') /\ proton'[s].occ \notin Wanted(c)
      BY <2>1, <2>6, <3>2, <3>3 DEF Halfway
    <3> QED BY <2>1, <3>1, <3>4, <3>5, <3>6, <3>7 DEF Halfway
  <2> QED BY <1>1, <2>1, <2>5, <2>6 DEF PutOK
<1> QED BY <1>3, <1>4 DEF SendDelete

LEMMA OwnStep ==
  ASSUME PutInv, NEW c \in Clients, PutOK(c)', \A d \in Clients \ {c} : req'[d] = req[d],
         \/ proton' = proton /\ \A d \in Clients \ {c} : disturbed[d] => disturbed'[d]
         \/ WrittenBy(c)
  PROVE  PutInv'
<1>1. ASSUME NEW d \in Clients PROVE PutOK(d)'
  <2>1. CASE d = c
    <3>1. Alone(d)' <=> Alone(c)' BY <2>1 DEF Alone
    <3>2. Wanted(d)' = Wanted(c)' /\ Left(d)' = Left(c)' BY <2>1 DEF Wanted, Left
    <3>3. \A o : Target(d, o)' = Target(c, o)' BY <2>1 DEF Target
    <3>4. \A o : Unwritten(d, o)' <=> Unwritten(c, o)' BY <3>3 DEF Unwritten
    <3>5. \A o : Written(d, o)' <=> Written(c, o)' BY <2>1 DEF Written
    <3>6. Current(d)' <=> Current(c)' BY <3>4 DEF Current
    <3>7. Target(d, req[d].turn)' = Target(c, req[c].turn)' BY <2>1 DEF Target
    <3>8. Halfway(c)' => Halfway(d)' BY <2>1, <3>2, <3>4, <3>5, <3>7 DEF Halfway
    <3> QED BY <2>1, <3>1, <3>6, <3>8 DEF PutOK
  <2>2. CASE d # c
    <3>1. PutOK(d) /\ req'[d] = req[d] BY <2>2 DEF PutInv
    <3>2. \/ proton' = proton /\ (disturbed[d] => disturbed'[d])
          \/ \E w : w # d /\ WrittenBy(w)
      BY <2>2
    <3> QED BY <3>1, <3>2, Bystander
  <2> QED BY <2>1, <2>2
<1> QED BY <1>1 DEF PutInv

\* What no request of the gateway does.
LEMMA WorldOK ==
  ASSUME PutInv, Others \/ Tick \/ Snapshot \/ (\E r \in Ids : Poll(r)) \/ UNCHANGED vars
  PROVE  PutInv'
<1>1. req' = req
  <2>1. CASE Others
    BY <2>1 DEF Others, OtherEdits, OtherEditsOccurrence, OtherDeletes, OtherWrites
  <2>2. CASE Tick \/ Snapshot \/ (\E r \in Ids : Poll(r)) \/ UNCHANGED vars
    BY <2>2 DEF Tick, Snapshot, Poll, vars
  <2> QED BY <2>1, <2>2
<1>2. UNCHANGED <<proton, disturbed>> \/ WrittenBy(Other)
  <2>1. CASE Others
    BY <2>1 DEF Others, OtherEdits, OtherEditsOccurrence, OtherDeletes, OtherWrites
  <2>2. CASE Tick \/ Snapshot \/ (\E r \in Ids : Poll(r)) \/ UNCHANGED vars
    BY <2>2 DEF Tick, Snapshot, Poll, vars, history
  <2> QED BY <2>1, <2>2
<1>3. ASSUME NEW d \in Clients PROVE PutOK(d)'
  <2>1. PutOK(d) /\ req'[d] = req[d] BY <1>1 DEF PutInv
  <2>2. \/ proton' = proton /\ (disturbed[d] => disturbed'[d])
        \/ \E w : w # d /\ WrittenBy(w)
    BY <1>2, WritersAssumption
  <2> QED BY <2>1, <2>2, Bystander
<1> QED BY <1>3 DEF PutInv

LEMMA DroppedIs ==
  ASSUME NEW c, NEW R, Dropped(c, R)
  PROVE  UNCHANGED <<proton, disturbed>> \/ WrittenBy(c)
BY DEF Dropped

\* A request that ends, whatever it was at.
LEMMA EndOK ==
  ASSUME TypeOK, PutInv, NEW c \in Clients, GiveUp(c) \/ Fail(c),
         UNCHANGED <<proton, disturbed>> \/ WrittenBy(c)
  PROVE  PutInv'
<1>1. PutOK(c)' /\ \A d \in Clients \ {c} : req'[d] = req[d] BY RestOK
<1>2. \/ proton' = proton /\ \A d \in Clients \ {c} : disturbed[d] => disturbed'[d]
      \/ WrittenBy(c)
  OBVIOUS
<1> QED BY <1>1, <1>2, OwnStep

LEMMA PutNext == SeriesInv /\ PutInv /\ [Next]_vars => PutInv'
<1> SUFFICES ASSUME SeriesInv, PutInv, [Next]_vars PROVE PutInv' OBVIOUS
<1>0. TypeOK /\ req \in [Clients -> RequestType] BY DEF SeriesInv, TypeOK
<1>1. CASE Others \/ Tick \/ Snapshot \/ (\E r \in Ids : Poll(r)) \/ UNCHANGED vars
  BY <1>1, WorldOK
<1>2. ASSUME NEW c \in Clients, Get(c) PROVE PutInv'
  <2>1. UNCHANGED <<proton, disturbed>> BY <1>2 DEF Get
  <2>2. req'[c].pc \in {"idle", "resync", "retry"} /\ \A d \in Clients \ {c} : req'[d] = req[d]
    BY <1>0, <1>2 DEF Get, RequestType
  <2>3. PutOK(c)' BY <2>2, AtRestOK
  <2> QED BY <2>1, <2>2, <2>3, OwnStep
<1>3. ASSUME NEW c \in Clients, PutStart(c) PROVE PutInv'
  <2>1. PutOK(c)' /\ \A d \in Clients \ {c} : req'[d] = req[d] /\ disturbed'[d] = disturbed[d]
    BY <1>0, <1>3, PutStartOK
  <2>2. proton' = proton BY <1>3 DEF PutStart
  <2> QED BY <2>1, <2>2, OwnStep
<1>4. ASSUME NEW c \in Clients,
             \/ PutRefused(c) \/ CallFails(c) \/ PutRespond(c)
             \/ \E o \in Occs \cup {0} : PutOrphan(c, o) \/ UpdateNotFound(c, o)
      PROVE  PutInv'
  <2>1. (GiveUp(c) \/ Fail(c)) /\ UNCHANGED <<proton, disturbed>>
    BY <1>4 DEF PutRefused, CallFails, PutRespond, PutOrphan, UpdateNotFound, untouched, GiveUp
  <2> QED BY <1>0, <2>1, EndOK
<1>5. ASSUME NEW c \in Clients, PutAccepted(c) PROVE PutInv'
  <2>1. UNCHANGED <<proton, disturbed>> BY <1>5 DEF PutAccepted, untouched
  <2>2. \A d \in Clients \ {c} : req'[d] = req[d] BY <1>0, <1>5 DEF PutAccepted
  <2>3. PutOK(c)' BY <1>0, <1>5, PutAcceptedOK DEF PutInv
  <2> QED BY <2>1, <2>2, <2>3, OwnStep
<1>6. ASSUME NEW c \in Clients, NEW o \in Occs \cup {0}, RecheckFound(c, o) \/ RecheckPassed(c, o)
      PROVE  PutInv'
  <2>1. UNCHANGED <<proton, disturbed>> BY <1>6 DEF RecheckFound, RecheckPassed, untouched
  <2>2. \A d \in Clients \ {c} : req'[d] = req[d]
    BY <1>0, <1>6 DEF RecheckFound, RecheckPassed, Advance
  <2>3. PutOK(c)' BY <1>0, <1>6, RecheckOK DEF PutInv
  <2> QED BY <2>1, <2>2, <2>3, OwnStep
<1>7. ASSUME NEW c \in Clients,
             (\E r \in Ids : SendCreate(c, r)) \/ (\E o \in Occs \cup {0} : SendUpdate(c, o))
      PROVE  PutInv'
  <2>1. PutOK(c)' /\ WrittenBy(c) /\ \A d \in Clients \ {c} : req'[d] = req[d]
    BY <1>7, WritesOK DEF PutInv
  <2> QED BY <2>1, OwnStep
<1>8. ASSUME NEW c \in Clients, NEW r \in Ids, SendDelete(c, r) PROVE PutInv'
  <2>1. PutOK(c)' /\ \A d \in Clients \ {c} : req'[d] = req[d]
    BY <1>0, <1>8, SendDeleteOK DEF PutInv
  <2>2. UNCHANGED <<proton, disturbed>> \/ WrittenBy(c) BY <1>8, DroppedIs DEF SendDelete
  <2> QED BY <2>1, <2>2, OwnStep
<1>9. ASSUME NEW c \in Clients, NEW r \in Ids, Delete(c, r) PROVE PutInv'
  <2>1. PICK R : Dropped(c, R) BY <1>9 DEF Delete
  <2>2. UNCHANGED <<proton, disturbed>> \/ WrittenBy(c) BY <2>1, DroppedIs
  <2>3. GiveUp(c) BY <1>9 DEF Delete, GiveUp
  <2> QED BY <1>0, <2>2, <2>3, EndOK
<1>10. ASSUME NEW c \in Clients, Handler(c) PROVE PutInv'
  BY <1>4, <1>5, <1>6, <1>7, <1>8, <1>10 DEF Handler
<1> QED BY <1>1, <1>2, <1>3, <1>9, <1>10 DEF Next

LEMMA InitPut == Init => PutInv
<1> SUFFICES ASSUME Init, NEW c \in Clients PROVE PutOK(c) BY DEF PutInv
<1>1. req[c].pc = "idle" BY DEF Init, Rest
<1> QED BY <1>1 DEF PutOK

\* Nothing left to write or to delete: what Proton has is the resource.
LEMMA NothingLeft ==
  ASSUME TypeOK, PutInv, NEW c \in Clients, Done(c), Alone(c)
  PROVE  Holds(c)
<1>1. Halfway(c) BY DEF PutInv, PutOK, Done
<1>2. Left(c) = {} /\ req[c].dels = {} BY DEF Left, Done
<1>3. /\ OneEach
      /\ \A o \in Wanted(c) : Written(c, o)
      /\ \A r \in RowsIn(proton) : proton[r].occ \in Wanted(c)
  BY <1>1, <1>2 DEF Halfway
<1>4. Clean(proton) BY <1>3, CleanIs
<1>5. ASSUME NEW o \in Wanted(c) PROVE \E r \in RowsIn(proton) : proton[r].occ = o
  BY <1>3 DEF Written, At
<1>6. {proton[r].occ : r \in RowsIn(proton)} = Wanted(c) BY <1>3, <1>5
<1>7. ASSUME NEW r \in RowsIn(proton)
      PROVE  /\ proton[r].by = c
             /\ proton[r].ex = IF proton[r].occ = 0 THEN req[c].pay.ex \cup req[c].past ELSE {}
  <2>1. PICK o : o = proton[r].occ OBVIOUS
  <2>2. PICK s \in At(proton, o) :
          /\ proton[s].by = c
          /\ proton[s].ex = IF o = 0 THEN req[c].pay.ex \cup req[c].past ELSE {}
    BY <1>3, <2>1 DEF Written
  <2>3. s \in RowsIn(proton) /\ proton[s].occ = o BY DEF At
  <2>4. s = r BY <1>3, <2>1, <2>3 DEF OneEach
  <2> QED BY <2>1, <2>2, <2>4
<1> QED BY <1>4, <1>6, <1>7 DEF Holds, Wanted

\* A PUT that is answered 2xx, and that nobody else wrote during, left in Proton
\* exactly the resource it carried: its master with its EXDATEs and the past ones
\* that were there, its overrides and no other row, whatever an earlier request that
\* failed half-way had left (reconcileSeriesWrite: master, overrides, deletions).
THEOREM PutsStored == Spec => PutStored
<1>1. Spec => []SeriesInv
  <2>1. Init => SeriesInv BY InitSeries
  <2>2. SeriesInv /\ [Next]_vars => SeriesInv' BY NextSeries
  <2> QED BY <2>1, <2>2, PTL DEF Spec
<1>2. Init => PutInv BY InitPut
<1>3. SeriesInv /\ PutInv /\ [Next]_vars => PutInv' BY PutNext
<1>4. SeriesInv /\ PutInv =>
        [\A c \in Clients : PutRespond(c) /\ req[c].clean /\ ~disturbed[c] => Holds(c)]_vars
  <2> SUFFICES ASSUME SeriesInv, PutInv, NEW c \in Clients,
                      PutRespond(c), req[c].clean, ~disturbed[c]
               PROVE  Holds(c)
    OBVIOUS
  <2>1. Done(c) /\ Alone(c) BY DEF PutRespond, Alone
  <2>2. TypeOK BY DEF SeriesInv
  <2> QED BY <2>1, <2>2, NothingLeft
<1> QED BY <1>1, <1>2, <1>3, <1>4, PTL DEF Spec, PutStored

=============================================================================
