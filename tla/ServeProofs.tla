---------------------------- MODULE ServeProofs ----------------------------
(***************************************************************************)
(* Theorems about Serve, for any processes, delays and bounds.             *)
(*                                                                         *)
(* TypeOK is inductive by itself.  The rest hangs on the lock: a process   *)
(* that is not off has it, so only one of them has a token in memory, may  *)
(* refresh it, saves it, or listens.                                       *)
(***************************************************************************)
EXTENDS Serve, TLAPS

USE DEF Fault, NoFault

-----------------------------------------------------------------------------
(* Types. *)

LEMMA DelayBounded ==
  ASSUME NEW d \in BackoffBase..BackoffCap
  PROVE  retryDelay(d) \in BackoffBase..BackoffCap
BY TicksAssumption DEF retryDelay

LEMMA InitType == Init => TypeOK
<1> SUFFICES ASSUME Init PROVE TypeOK OBVIOUS
<1>1. synced \in BOOLEAN /\ cursor \in BOOLEAN BY DEF Init
<1>2. /\ cycle \in [Procs -> BOOLEAN] /\ ready \in [Procs -> BOOLEAN]
      /\ saving \in [Procs -> BOOLEAN]
  BY DEF Init
<1>3. /\ expired \in BOOLEAN /\ revoked \in BOOLEAN /\ up \in BOOLEAN /\ lost \in BOOLEAN
  BY DEF Init
<1>4. /\ pc \in [Procs -> {"off", "restore", "backoff", "running"}]
      /\ wait \in [Procs -> Nat]
      /\ \A i \in Procs : pc[i] = "backoff" => wait[i] <= BackoffCap
      /\ delay \in [Procs -> BackoffBase..BackoffCap]
      /\ age \in [Procs -> -1..(MaxAge + 1)] /\ mem \in [Procs -> Nat]
  BY TicksAssumption DEF Init
<1>5. /\ lock \in Procs \cup {NoOne} /\ port \in Procs \cup {NoOne}
      /\ disk \in Nat /\ token \in Nat \ {0} /\ exit \in {"clean", "failed", "invalid"}
      /\ probe \in 0..ProbeEvery /\ faults \in 0..MaxFaults
  BY TicksAssumption, BoundsAssumption DEF Init
<1> QED BY <1>1, <1>2, <1>3, <1>4, <1>5 DEF TypeOK

LEMMA EndedType ==
  ASSUME TypeOK, NEW i \in Procs, Ended(i),
         UNCHANGED <<disk, store, account>>,
         exit' \in {"clean", "failed", "invalid"},
         probe' \in 0..ProbeEvery, faults' \in 0..MaxFaults
  PROVE  TypeOK'
<1>1. /\ pc' \in [Procs -> {"off", "restore", "backoff", "running"}]
      /\ wait' \in [Procs -> Nat]
      /\ \A j \in Procs : pc'[j] = "backoff" => wait'[j] <= BackoffCap
      /\ delay' \in [Procs -> BackoffBase..BackoffCap]
      /\ age' \in [Procs -> -1..(MaxAge + 1)] /\ mem' \in [Procs -> Nat]
      /\ lock' \in Procs \cup {NoOne} /\ port' \in Procs \cup {NoOne}
  BY TicksAssumption DEF TypeOK, Ended
<1>2. /\ cycle' \in [Procs -> BOOLEAN] /\ ready' \in [Procs -> BOOLEAN]
      /\ saving' \in [Procs -> BOOLEAN]
  BY DEF TypeOK, Ended
<1>3. lost' \in BOOLEAN BY DEF TypeOK, Ended
<1> QED BY <1>1, <1>2, <1>3 DEF TypeOK, store, account

LEMMA LoadType ==
  ASSUME TypeOK, NEW i \in Procs, LoadSession(i),
         lock' \in Procs \cup {NoOne}, delay' \in [Procs -> BackoffBase..BackoffCap],
         faults' \in 0..MaxFaults,
         UNCHANGED <<cycle, ready, age, saving, port, disk, store, account, exit, probe, lost>>
  PROVE  TypeOK'
<1>1. /\ pc' \in [Procs -> {"off", "restore", "backoff", "running"}]
      /\ wait' \in [Procs -> Nat]
      /\ \A j \in Procs : pc'[j] = "backoff" => wait'[j] <= BackoffCap
      /\ mem' \in [Procs -> Nat]
  BY TicksAssumption DEF TypeOK, LoadSession
<1> QED BY <1>1 DEF TypeOK, store, account

LEMMA SessionType ==
  ASSUME TypeOK, NEW i \in Procs, Refresh(i) \/ Save(i)
  PROVE  TypeOK'
<1>1. CASE Refresh(i)
  <2>1. saving' \in [Procs -> BOOLEAN] /\ lost' \in BOOLEAN BY <1>1 DEF TypeOK, Refresh
  <2>2. mem' \in [Procs -> Nat] /\ token' \in Nat \ {0} /\ faults' \in 0..MaxFaults
    BY <1>1, BoundsAssumption DEF TypeOK, Refresh
  <2>3. expired' \in BOOLEAN BY <1>1 DEF Refresh
  <2> QED BY <1>1, <2>1, <2>2, <2>3 DEF TypeOK, Refresh, store
<1>2. CASE Save(i)
  <2>1. saving' \in [Procs -> BOOLEAN] /\ lost' \in BOOLEAN BY <1>2 DEF TypeOK, Save
  <2>2. disk' \in Nat /\ faults' \in 0..MaxFaults BY <1>2, BoundsAssumption DEF TypeOK, Save
  <2> QED BY <1>2, <2>1, <2>2 DEF TypeOK, Save, store, account
<1> QED BY <1>1, <1>2

LEMMA RestoreType ==
  ASSUME TypeOK, NEW i \in Procs, Unreachable(i) \/ Restored(i)
  PROVE  TypeOK'
<1>1. CASE Unreachable(i)
  <2>1. /\ delay' \in [Procs -> BackoffBase..BackoffCap]
        /\ wait' \in [Procs -> Nat]
        /\ \A j \in Procs : pc'[j] = "backoff" => wait'[j] <= BackoffCap
    BY <1>1, DelayBounded, TicksAssumption DEF TypeOK, Unreachable
  <2> QED BY <1>1, <2>1, BoundsAssumption DEF TypeOK, Unreachable, store, account
<1>2. CASE Restored(i)
  <2>1. cycle' \in [Procs -> BOOLEAN] /\ ready' \in [Procs -> BOOLEAN]
    BY <1>2 DEF TypeOK, Restored
  <2>2. /\ pc' \in [Procs -> {"off", "restore", "backoff", "running"}]
        /\ wait' \in [Procs -> Nat]
        /\ \A j \in Procs : pc'[j] = "backoff" => wait'[j] <= BackoffCap
        /\ port' \in Procs \cup {NoOne}
    BY <1>2, TicksAssumption DEF TypeOK, Restored
  <2> QED BY <1>2, <2>1, <2>2 DEF TypeOK, Restored, store, account
<1> QED BY <1>1, <1>2

LEMMA ServingType ==
  ASSUME TypeOK, NEW i \in Procs, Listen(i) \/ CycleEnds(i) \/ CycleStarts(i)
  PROVE  TypeOK'
<1>1. CASE Listen(i) BY <1>1 DEF TypeOK, Listen, store, account
<1>2. CASE CycleEnds(i)
  <2>1. age' \in [Procs -> -1..(MaxAge + 1)]
    BY <1>2, TicksAssumption DEF TypeOK, CycleEnds
  <2>3. synced' \in BOOLEAN /\ cursor' \in BOOLEAN
    BY <1>2 DEF TypeOK, CycleEnds, store
  <2>2. faults' \in 0..MaxFaults
    BY <1>2, BoundsAssumption DEF TypeOK, CycleEnds
  <2> QED BY <1>2, <2>1, <2>2, <2>3, TicksAssumption DEF TypeOK, CycleEnds, account
<1>3. CASE CycleStarts(i)
  BY <1>3, TicksAssumption DEF TypeOK, CycleStarts, store, account
<1> QED BY <1>1, <1>2, <1>3

LEMMA TickType == TypeOK /\ Tick => TypeOK'
<1> SUFFICES ASSUME TypeOK, Tick PROVE TypeOK' OBVIOUS
<1>1. age' \in [Procs -> -1..(MaxAge + 1)]
  BY TicksAssumption DEF TypeOK, Tick, Fresh
<1>2. wait' \in [Procs -> Nat] /\ \A j \in Procs : pc'[j] = "backoff" => wait'[j] <= BackoffCap
  BY TicksAssumption DEF TypeOK, Tick
<1> QED BY <1>1, <1>2, TicksAssumption DEF TypeOK, Tick, store, account

LEMMA NextType == TypeOK /\ [Next]_vars => TypeOK'
<1> SUFFICES ASSUME TypeOK, [Next]_vars PROVE TypeOK' OBVIOUS
<1>1. ASSUME NEW i \in Procs, Start(i) PROVE TypeOK'
  <2>1. /\ lock' \in Procs \cup {NoOne} /\ faults' \in 0..MaxFaults
        /\ delay' \in [Procs -> BackoffBase..BackoffCap]
    BY <1>1, TicksAssumption, BoundsAssumption DEF Start, TypeOK
  <2> QED BY <1>1, <2>1, LoadType DEF Start
<1>2. ASSUME NEW i \in Procs, Progress(i) PROVE TypeOK'
  <2>1. CASE Refused(i)
    BY <2>1, EndedType DEF Refused, TypeOK, store, account
  <2>2. CASE Retry(i)
    BY <2>2, LoadType DEF Retry, TypeOK
  <2> QED BY <1>2, <2>1, <2>2, SessionType, RestoreType, ServingType DEF Progress
<1>3. ASSUME NEW i \in Procs, Crash(i) \/ HandStop(i) PROVE TypeOK'
  BY <1>3, EndedType, BoundsAssumption DEF Crash, HandStop, TypeOK, store, account
<1>4. CASE Probe
  <2>1. probe' \in 0..ProbeEvery BY <1>4, TicksAssumption DEF Probe
  <2>2. CASE UNCHANGED <<process, exit, lost>>
    BY <1>4, <2>1, <2>2 DEF Probe, TypeOK, process, store, account
  <2>3. CASE Ended(Unit) /\ exit' = "clean"
    BY <1>4, <2>1, <2>3, EndedType, ProcsAssumption DEF Probe, TypeOK, store, account
  <2> QED BY <1>4, <2>2, <2>3 DEF Probe
<1>5. CASE Outage \/ Back \/ Expire \/ Revoke
  <2>1. expired' \in BOOLEAN /\ revoked' \in BOOLEAN /\ up' \in BOOLEAN
    BY <1>5 DEF Outage, Back, Expire, Revoke, TypeOK
  <2>2. faults' \in 0..MaxFaults /\ token' = token
    BY <1>5, BoundsAssumption DEF Outage, Back, Expire, Revoke, TypeOK
  <2>3. UNCHANGED <<process, disk, store, exit, probe, lost>>
    BY <1>5 DEF Outage, Back, Expire, Revoke
  <2> QED BY <2>1, <2>2, <2>3 DEF TypeOK, process, store
<1>6. CASE Login
  <2>1. expired' \in BOOLEAN /\ revoked' \in BOOLEAN /\ lost' \in BOOLEAN BY <1>6 DEF Login
  <2>2. token' \in Nat \ {0} /\ disk' \in Nat BY <1>6 DEF Login, TypeOK
  <2> QED BY <1>6, <2>1, <2>2 DEF Login, TypeOK, process, store
<1>7. CASE Tick BY <1>7, TickType
<1>8. CASE UNCHANGED vars BY <1>8 DEF vars, TypeOK, process, store, account
<1> QED BY <1>1, <1>2, <1>3, <1>4, <1>5, <1>6, <1>7, <1>8 DEF Next

\* Every variable keeps its type: whatever Proton, the operator and the clock
\* do, a backoff never exceeds its cap (retryDelay) and /healthz never has a
\* cycle to report that is not there (health.go:61).
THEOREM ServeTypes == Spec => []TypeOK
<1> QED BY InitType, NextType, PTL DEF Spec

-----------------------------------------------------------------------------
(* The session.                                                            *)

\* Who is not off has the lock: there is one at most.
Locked == \A i \in Procs : pc[i] # "off" <=> lock = i

\* A call is in flight in a running process only, a token is saved by the one
\* process that has it, and what waits for Proton has the port.
CallsRun == \A i \in Procs : cycle[i] => pc[i] = "running"
SavesNewest ==
  \A i \in Procs : saving[i] => pc[i] \in {"restore", "running"} /\ mem[i] = token
HoldsNewest == lost \/ \A i \in Procs : pc[i] # "off" => mem[i] = token
PortHeld ==
  /\ port # NoOne => lock = port
  /\ \A i \in Procs : pc[i] = "backoff" => port = i

SessionInv ==
  TypeOK /\ Locked /\ CallsRun /\ SavesNewest /\ HoldsNewest /\ PortHeld /\ SessionKept

LEMMA InitSession == Init => SessionInv
<1> SUFFICES ASSUME Init PROVE SessionInv OBVIOUS
<1>1. TypeOK BY InitType
<1>2. Locked /\ CallsRun /\ SavesNewest /\ HoldsNewest /\ PortHeld /\ SessionKept
  BY ProcsAssumption
  DEF Init, Locked, CallsRun, SavesNewest, HoldsNewest, PortHeld, SessionKept
<1> QED BY <1>1, <1>2 DEF SessionInv

\* With nobody at the lock, session.json has the token unless it is lost.
LEMMA OffDisk == SessionInv /\ lock = NoOne => lost \/ disk = token
BY ProcsAssumption DEF SessionInv, SessionKept

LEMMA OneHolder ==
  ASSUME SessionInv, NEW i \in Procs, pc[i] # "off"
  PROVE  lock = i /\ \A j \in Procs \ {i} : pc[j] = "off" /\ ~saving[j] /\ ~cycle[j]
BY DEF SessionInv, Locked, SavesNewest, CallsRun

LEMMA EndedSession ==
  ASSUME SessionInv, TypeOK', NEW i \in Procs, Ended(i), UNCHANGED <<disk, token>>
  PROVE  SessionInv'
<1>1. \A j \in Procs : /\ pc'[j] = IF j = i THEN "off" ELSE pc[j]
                      /\ mem'[j] = IF j = i THEN 0 ELSE mem[j]
  BY DEF Ended, SessionInv, TypeOK
<1>2. /\ ~cycle'[i] /\ \A j \in Procs \ {i} : cycle'[j] = cycle[j]
      /\ ~saving'[i] /\ \A j \in Procs \ {i} : saving'[j] = saving[j]
  BY DEF Ended, SessionInv, TypeOK
<1>3. /\ lock' = IF lock = i THEN NoOne ELSE lock
      /\ port' = IF port = i THEN NoOne ELSE port
      /\ lost' = (lost \/ saving[i])
  BY DEF Ended
<1>4. Locked' BY <1>1, <1>3, ProcsAssumption DEF SessionInv, Locked
<1>5. CallsRun' BY <1>1, <1>2 DEF SessionInv, CallsRun
<1>6. SavesNewest' BY <1>1, <1>2 DEF SessionInv, SavesNewest
<1>7. HoldsNewest' BY <1>1, <1>3 DEF SessionInv, HoldsNewest
<1>8. PortHeld' BY <1>1, <1>3, ProcsAssumption DEF SessionInv, PortHeld
<1>9. SessionKept'
  <2>1. CASE lost \/ disk = token BY <1>3, <2>1 DEF SessionKept
  <2>2. CASE \E j \in Procs : lock = j /\ saving[j] /\ mem[j] = token
    <3>1. PICK j \in Procs : lock = j /\ saving[j] /\ mem[j] = token BY <2>2
    <3>2. CASE j = i BY <1>3, <3>1, <3>2 DEF SessionKept
    <3>3. CASE j # i BY <1>1, <1>2, <1>3, <3>1, <3>3 DEF SessionKept
    <3> QED BY <3>2, <3>3
  <2> QED BY <2>1, <2>2 DEF SessionInv, SessionKept
<1> QED BY <1>4, <1>5, <1>6, <1>7, <1>8, <1>9 DEF SessionInv

\* A process loads what session.json has while nobody has a newer token.
LEMMA LoadSessionKeeps ==
  ASSUME SessionInv, TypeOK', NEW i \in Procs, LoadSession(i), lock' = i,
         UNCHANGED <<cycle, saving, port, disk, token, lost>>,
         (pc[i] = "off" /\ lock = NoOne) \/ pc[i] = "backoff"
  PROVE  SessionInv'
<1>1. \A j \in Procs : /\ pc'[j] = IF j = i THEN "restore" ELSE pc[j]
                      /\ mem'[j] = IF j = i THEN disk ELSE mem[j]
  BY DEF LoadSession, SessionInv, TypeOK
<1>2. \A j \in Procs : ~saving[j] /\ (j # i => pc[j] = "off") /\ ~cycle[j]
  BY ProcsAssumption DEF SessionInv, Locked, SavesNewest, CallsRun
<1>3. lost \/ disk = token BY <1>2 DEF SessionInv, SessionKept
<1>4. Locked' /\ CallsRun' /\ SavesNewest' /\ HoldsNewest' /\ SessionKept'
  BY <1>1, <1>2, <1>3, ProcsAssumption
  DEF Locked, CallsRun, SavesNewest, HoldsNewest, SessionKept
<1>5. PortHeld' BY <1>1, <1>2, ProcsAssumption DEF SessionInv, Locked, PortHeld
<1> QED BY <1>4, <1>5 DEF SessionInv

LEMMA RotationKeeps ==
  ASSUME SessionInv, TypeOK', NEW i \in Procs, Refresh(i) \/ Save(i)
  PROVE  SessionInv'
<1>1. pc[i] \in {"restore", "running"}
  BY DEF Refresh, Save, Calling, SessionInv, SavesNewest, CallsRun
<1>2. lock = i /\ \A j \in Procs \ {i} : pc[j] = "off" /\ ~saving[j]
  BY <1>1, OneHolder
<1>3. UNCHANGED <<pc, cycle, lock, port>> BY DEF Refresh, Save
<1>4. Locked' /\ CallsRun' /\ PortHeld'
  BY <1>3 DEF SessionInv, Locked, CallsRun, PortHeld
<1>5. CASE Refresh(i)
  <2>1. \/ /\ \A j \in Procs : mem'[j] = IF j = i THEN token' ELSE mem[j]
           /\ \A j \in Procs : saving'[j] <=> j = i \/ saving[j]
        \/ /\ lost' /\ UNCHANGED <<mem, saving>> /\ ~saving[i]
    BY <1>5 DEF Refresh, SessionInv, TypeOK
  <2> QED BY <1>1, <1>2, <1>3, <1>4, <2>1
          DEF SessionInv, SavesNewest, HoldsNewest, SessionKept
<1>6. CASE Save(i)
  <2>1. /\ \A j \in Procs : saving'[j] <=> j # i /\ saving[j]
        /\ UNCHANGED <<mem, token>>
        /\ lost' \/ (disk' = mem[i] /\ mem[i] = token /\ lost' = lost)
    BY <1>6 DEF Save, SessionInv, TypeOK, SavesNewest, account
  <2> QED BY <1>1, <1>2, <1>3, <1>4, <2>1
          DEF SessionInv, SavesNewest, HoldsNewest, SessionKept
<1> QED BY <1>5, <1>6

LEMMA ProgressKeeps ==
  ASSUME SessionInv, TypeOK', NEW i \in Procs,
         Unreachable(i) \/ Restored(i) \/ Listen(i) \/ CycleEnds(i) \/ CycleStarts(i)
  PROVE  SessionInv'
<1>1. pc[i] \in {"restore", "running"} /\ pc'[i] \in {"backoff", "running"}
  BY DEF Unreachable, Restored, Listen, CycleEnds, CycleStarts, SessionInv, TypeOK
<1>2. lock = i /\ \A j \in Procs \ {i} : pc[j] = "off" /\ ~saving[j] /\ ~cycle[j]
  BY <1>1, OneHolder
<1>3. /\ UNCHANGED <<mem, saving, lock, disk, token, lost>>
      /\ \A j \in Procs \ {i} : pc'[j] = pc[j] /\ cycle'[j] = cycle[j]
  BY DEF Unreachable, Restored, Listen, CycleEnds, CycleStarts, account, SessionInv, TypeOK
<1>4. Locked' /\ HoldsNewest' /\ SessionKept'
  BY <1>1, <1>2, <1>3 DEF SessionInv, Locked, HoldsNewest, SessionKept
<1>5. saving[i] => pc'[i] = "running"
  BY DEF Unreachable, Restored, Listen, CycleEnds, CycleStarts, SessionInv, TypeOK
<1>6. cycle'[i] => pc'[i] = "running"
  BY DEF Unreachable, Restored, Listen, CycleEnds, CycleStarts, SessionInv, TypeOK, CallsRun
<1>7. SavesNewest' /\ CallsRun'
  BY <1>2, <1>3, <1>5, <1>6 DEF SessionInv, SavesNewest, CallsRun
<1>8. /\ port' \in {NoOne, i} \/ port' = port
      /\ pc'[i] = "backoff" => port' = IF port = NoOne THEN i ELSE port
  BY DEF Unreachable, Restored, Listen, CycleEnds, CycleStarts, SessionInv, TypeOK
<1>9. PortHeld' BY <1>2, <1>3, <1>8 DEF SessionInv, PortHeld
<1> QED BY <1>4, <1>7, <1>9 DEF SessionInv

LEMMA NextSession == SessionInv /\ [Next]_vars => SessionInv'
<1> SUFFICES ASSUME SessionInv, [Next]_vars PROVE SessionInv' OBVIOUS
<1>0. TypeOK' BY NextType DEF SessionInv
<1>1. ASSUME NEW i \in Procs, Start(i) PROVE SessionInv'
  BY <1>0, <1>1, LoadSessionKeeps DEF Start, account
<1>2. ASSUME NEW i \in Procs, Progress(i) PROVE SessionInv'
  <2>1. CASE Refused(i) BY <1>0, <2>1, EndedSession DEF Refused, account
  <2>2. CASE Retry(i)
    <3>1. lock = i BY <2>2, OneHolder DEF Retry
    <3> QED BY <1>0, <2>2, <3>1, LoadSessionKeeps DEF Retry, account
  <2> QED BY <1>0, <1>2, <2>1, <2>2, RotationKeeps, ProgressKeeps DEF Progress
<1>3. ASSUME NEW i \in Procs, Crash(i) \/ HandStop(i) PROVE SessionInv'
  BY <1>0, <1>3, EndedSession DEF Crash, HandStop, account
<1>4. CASE Probe
  <2>1. CASE UNCHANGED <<process, exit, lost>>
    BY <1>0, <1>4, <2>1 DEF Probe, process, account, SessionInv, Locked, CallsRun,
                            SavesNewest, HoldsNewest, PortHeld, SessionKept
  <2>2. CASE Ended(Unit) BY <1>0, <1>4, <2>2, EndedSession, ProcsAssumption DEF Probe, account
  <2> QED BY <1>4, <2>1, <2>2 DEF Probe
<1>5. CASE Outage \/ Back \/ Expire \/ Revoke \/ Tick \/ UNCHANGED vars
  <2>1. UNCHANGED <<pc, cycle, mem, saving, lock, port, disk, token, lost>>
    BY <1>5 DEF Outage, Back, Expire, Revoke, Tick, vars, process, account
  <2> QED BY <1>0, <2>1 DEF SessionInv, Locked, CallsRun,
                            SavesNewest, HoldsNewest, PortHeld, SessionKept
<1>6. CASE Login
  <2>1. \A i \in Procs : pc[i] = "off" /\ ~saving[i]
    BY <1>6, ProcsAssumption DEF Login, SessionInv, Locked, SavesNewest
  <2>2. UNCHANGED <<pc, cycle, mem, saving, lock, port>> /\ disk' = token'
    BY <1>6 DEF Login, process
  <2> QED BY <1>0, <2>1, <2>2 DEF SessionInv, Locked, CallsRun,
                                  SavesNewest, HoldsNewest, PortHeld, SessionKept
<1> QED BY <1>1, <1>2, <1>3, <1>4, <1>5, <1>6 DEF Next

LEMMA AlwaysSession == Spec => []SessionInv
<1> QED BY InitSession, NextSession, PTL DEF Spec

\* Whatever is started, killed and restarted on a data_dir, by systemd, by hand
\* or by the watchdog: the token Proton accepts is in session.json or about to
\* be written there by its only holder, until a fault loses it (serve.lock).
THEOREM SessionSurvives == Spec => []SessionKept
<1> QED BY AlwaysSession, PTL DEF SessionInv

\* serve leaves with 78 only when Proton has closed the session or a token was
\* lost on its way to session.json: never by a restart, a race or an outage.
THEOREM ReloginJustified == Spec => ReloginOnlyIfDead
<1>1. ASSUME SessionInv, NEW i \in Procs, Refused(i) PROVE lost \/ revoked
  BY <1>1 DEF Refused, Accepted, SessionInv, HoldsNewest
<1>2. SessionInv /\ [Next]_vars => [\A i \in Procs : Refused(i) => lost \/ revoked]_vars
  BY <1>1
<1> QED BY <1>2, AlwaysSession, PTL DEF ReloginOnlyIfDead, Spec

\* The watchdog leaves a daemon alone that waits for Proton: it holds the port
\* and answers 200 there (bootstrapHandler).
THEOREM WaitingLeftAlone == Spec => WaitsUndisturbed
<1>1. ASSUME SessionInv, Probe, pc[Unit] = "backoff" PROVE pc'[Unit] = "backoff"
  <2>1. port = Unit /\ Unit \in Procs /\ port # NoOne
    BY <1>1, ProcsAssumption DEF SessionInv, PortHeld
  <2>2. Healthy(port) BY <1>1, <2>1 DEF Healthy, Starting
  <2> QED BY <1>1, <2>1, <2>2 DEF Probe, process
<1>2. SessionInv /\ [Next]_vars
        => [Probe /\ pc[Unit] = "backoff" => pc'[Unit] = "backoff"]_vars
  BY <1>1
<1> QED BY <1>2, AlwaysSession, PTL DEF WaitsUndisturbed, Spec

=============================================================================
