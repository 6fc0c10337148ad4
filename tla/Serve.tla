------------------------------- MODULE Serve -------------------------------
(***************************************************************************)
(* The life of the daemon: `cal-gateway serve` (cmd/cal-gateway), its      *)
(* Proton session with rotating refresh tokens (internal/proton), /healthz *)
(* (internal/server), and what keeps it running: systemd and the watchdog  *)
(* of deploy/.                                                             *)
(*                                                                         *)
(* A process takes the lock of its data_dir, restores the session (again   *)
(* and again while Proton does not answer, holding the port with a boot    *)
(* listener), opens the store, binds the port and runs a poller cycle      *)
(* after the other.  Any call may find the access token expired; the       *)
(* refresh that follows gives Proton's only valid token to the process's   *)
(* memory first and to session.json after that.                            *)
(*                                                                         *)
(* Time passes in ticks.  What takes time has its duration in wait, and no *)
(* tick passes over a step that is due.  How a cycle works is GatewaySync. *)
(***************************************************************************)
EXTENDS Integers, FiniteSets

CONSTANTS
  Procs,        \* the serve processes on one data_dir
  Unit,         \* the one systemd and the watchdog run
  NoOne,
  BackoffBase, BackoffCap,   \* retryDelay
  MaxAge,       \* healthzMaxAge
  PollEvery,    \* poll_interval
  ProbeEvery,   \* the watchdog's timer
  RestoreTicks, \* bound: the longest RestoreAccount
  CycleTicks,   \* bound: the longest cycle
  MaxToken,     \* bound: tokens
  MaxFaults     \* bound: faults

ASSUME ProcsAssumption == Unit \in Procs /\ NoOne \notin Procs
ASSUME TicksAssumption ==
  /\ BackoffBase \in Nat /\ BackoffCap \in Nat /\ BackoffBase <= BackoffCap
  /\ MaxAge \in Nat /\ PollEvery \in Nat /\ ProbeEvery \in Nat \ {0}
  /\ RestoreTicks \in Nat /\ CycleTicks \in Nat
ASSUME BoundsAssumption == MaxToken \in Nat \ {0} /\ MaxFaults \in Nat

VARIABLES
  pc,       \* off, restore, backoff or running
  wait,     \* ticks until what a process is doing ends
  delay,    \* the next retryDelay of a process
  cycle,    \* a poller cycle is in flight
  ready,    \* the readiness gate is open
  age,      \* ticks since the last successful cycle (-1: none)
  mem,      \* the token in the memory of a process
  saving,   \* it is not in session.json yet
  lock,     \* who holds serve.lock
  port,     \* who listens
  disk,     \* the token in session.json
  synced,   \* the store's Synced flag
  cursor,   \* the store has the cursors of its calendars
  token,    \* the token Proton accepts
  expired,  \* its access half has expired
  revoked,  \* Proton has closed the session
  up,       \* Proton answers
  exit,     \* the unit's last exit: clean (or killed), failed, invalid (78)
  probe,    \* ticks to the next probe
  lost,     \* history: no file has the token any more
  faults

process == <<pc, wait, delay, cycle, ready, age, mem, saving, lock, port>>
account == <<token, expired, revoked, up>>
store == <<synced, cursor>>
vars == <<process, disk, store, account, exit, probe, lost, faults>>

Fault == faults < MaxFaults /\ faults' = faults + 1
NoFault == UNCHANGED faults

\* Mutant: no cap.
RetryDelayUncapped(d) == 2 * d

\* The boot backoff doubles with every failure, up to its cap.
retryDelay(d) == IF 2 * d < BackoffCap THEN 2 * d ELSE BackoffCap

\* Proton would accept what process i has.
Accepted(i) == mem[i] = token /\ ~revoked

-----------------------------------------------------------------------------
(* Starting, and ending. *)

LoadSession(i) ==
  /\ pc' = [pc EXCEPT ![i] = "restore"]
  /\ mem' = [mem EXCEPT ![i] = disk]
  /\ \E d \in 0..RestoreTicks : wait' = [wait EXCEPT ![i] = d]

\* Mutant: the lock is not taken.
StartUnlocked(i) ==
  /\ pc[i] = "off"
  /\ IF i = Unit THEN exit # "invalid" /\ NoFault ELSE Fault
  /\ LoadSession(i)
  /\ lock' = i
  /\ delay' = [delay EXCEPT ![i] = BackoffBase]
  /\ UNCHANGED <<cycle, ready, age, saving, port, disk, store, account, exit, probe, lost>>

\* systemd starts the unit, or somebody starts serve by hand; on a data_dir
\* that is in use it would exit again at once.
Start(i) ==
  /\ pc[i] = "off" /\ lock = NoOne
  /\ IF i = Unit THEN exit # "invalid" /\ NoFault ELSE Fault
  /\ LoadSession(i)
  /\ lock' = i
  /\ delay' = [delay EXCEPT ![i] = BackoffBase]
  /\ UNCHANGED <<cycle, ready, age, saving, port, disk, store, account, exit, probe, lost>>

\* Process i is gone: lock, port and memory with it; a token not saved is lost.
Ended(i) ==
  /\ pc' = [pc EXCEPT ![i] = "off"]
  /\ wait' = [wait EXCEPT ![i] = 0]
  /\ delay' = [delay EXCEPT ![i] = BackoffBase]
  /\ cycle' = [cycle EXCEPT ![i] = FALSE]
  /\ ready' = [ready EXCEPT ![i] = FALSE]
  /\ age' = [age EXCEPT ![i] = -1]
  /\ mem' = [mem EXCEPT ![i] = 0]
  /\ saving' = [saving EXCEPT ![i] = FALSE]
  /\ lock' = IF lock = i THEN NoOne ELSE lock
  /\ port' = IF port = i THEN NoOne ELSE port
  /\ lost' = (lost \/ saving[i])

Crash(i) ==
  /\ pc[i] # "off" /\ Fault
  /\ Ended(i)
  /\ exit' = IF i = Unit THEN "failed" ELSE exit
  /\ UNCHANGED <<disk, store, account, probe>>

\* Who started serve by hand stops it again.
HandStop(i) ==
  /\ i # Unit /\ pc[i] # "off"
  /\ Ended(i)
  /\ UNCHANGED <<disk, store, account, exit, probe, faults>>

-----------------------------------------------------------------------------
(* The session. *)

\* A call of process i is in flight.
Calling(i) == pc[i] = "restore" \/ cycle[i]

\* The access token has expired: Proton takes the refresh token and gives a new
\* pair, which may be lost on its way.
Refresh(i) ==
  /\ Calling(i) /\ up /\ expired /\ Accepted(i) /\ ~saving[i]
  /\ token' = token + 1 /\ expired' = FALSE
  /\ \/ /\ mem' = [mem EXCEPT ![i] = token + 1]
        /\ saving' = [saving EXCEPT ![i] = TRUE]
        /\ UNCHANGED lost /\ NoFault
     \/ /\ lost' = TRUE /\ Fault
        /\ UNCHANGED <<mem, saving>>
  /\ UNCHANGED <<pc, wait, delay, cycle, ready, age, lock, port, disk, store,
                 revoked, up, exit, probe>>

\* Mutant: the auth handler does not save.
SaveForgotten(i) ==
  /\ saving[i]
  /\ saving' = [saving EXCEPT ![i] = FALSE]
  /\ \/ UNCHANGED <<disk, lost>> /\ NoFault
     \/ lost' = TRUE /\ UNCHANGED disk /\ Fault
  /\ UNCHANGED <<pc, wait, delay, cycle, ready, age, mem, lock, port, store,
                 account, exit, probe>>

\* AddAuthHandler: SaveSession, whose failure is logged only.
Save(i) ==
  /\ saving[i]
  /\ saving' = [saving EXCEPT ![i] = FALSE]
  /\ \/ disk' = mem[i] /\ UNCHANGED lost /\ NoFault
     \/ lost' = TRUE /\ UNCHANGED disk /\ Fault
  /\ UNCHANGED <<pc, wait, delay, cycle, ready, age, mem, lock, port, store,
                 account, exit, probe>>

\* restoreAccountWithRetry after an attempt: Proton refuses the session, exit 78;
Refused(i) ==
  /\ pc[i] = "restore" /\ wait[i] = 0 /\ ~saving[i]
  /\ up /\ ~Accepted(i)
  /\ Ended(i)
  /\ exit' = IF i = Unit THEN "invalid" ELSE exit
  /\ UNCHANGED <<disk, store, account, probe, faults>>

\* Mutant: no boot listener.
UnreachableUnheard(i) ==
  /\ pc[i] = "restore" /\ wait[i] = 0 /\ ~saving[i]
  /\ (~up /\ NoFault) \/ (up /\ Fault)
  /\ pc' = [pc EXCEPT ![i] = "backoff"]
  /\ wait' = [wait EXCEPT ![i] = delay[i]]
  /\ delay' = [delay EXCEPT ![i] = retryDelay(@)]
  /\ UNCHANGED <<port, cycle, ready, age, mem, saving, lock, disk, store, account,
                 exit, probe, lost>>

\* ... Proton does not answer, or badly: the boot listener opens, and the next
\* attempt is later;
Unreachable(i) ==
  /\ pc[i] = "restore" /\ wait[i] = 0 /\ ~saving[i]
  /\ (~up /\ NoFault) \/ (up /\ Fault)
  /\ pc' = [pc EXCEPT ![i] = "backoff"]
  /\ wait' = [wait EXCEPT ![i] = delay[i]]
  /\ delay' = [delay EXCEPT ![i] = retryDelay(@)]
  /\ port' = IF port = NoOne THEN i ELSE port
  /\ UNCHANGED <<cycle, ready, age, mem, saving, lock, disk, store, account,
                 exit, probe, lost>>

Retry(i) ==
  /\ pc[i] = "backoff" /\ wait[i] = 0
  /\ LoadSession(i)
  /\ UNCHANGED <<delay, cycle, ready, age, saving, lock, port, disk, store, account,
                 exit, probe, lost, faults>>

\* ... the session is restored: the boot listener closes, the store is opened,
\* the first cycle starts; a store that was synced before is served at once.
Restored(i) ==
  /\ pc[i] = "restore" /\ wait[i] = 0 /\ ~saving[i]
  /\ up /\ Accepted(i) /\ ~expired
  /\ pc' = [pc EXCEPT ![i] = "running"]
  /\ port' = IF port = i THEN NoOne ELSE port
  /\ ready' = [ready EXCEPT ![i] = synced]
  /\ cycle' = [cycle EXCEPT ![i] = TRUE]
  /\ \E d \in 0..CycleTicks : wait' = [wait EXCEPT ![i] = d]
  /\ UNCHANGED <<delay, age, mem, saving, lock, disk, store, account, exit, probe,
                 lost, faults>>

-----------------------------------------------------------------------------
(* Serving. *)

Listen(i) ==
  /\ pc[i] = "running" /\ port = NoOne
  /\ port' = i
  /\ UNCHANGED <<pc, wait, delay, cycle, ready, age, mem, saving, lock, disk, store,
                 account, exit, probe, lost, faults>>

\* A cycle is a full snapshot the first time and without cursors, and deltas
\* otherwise.  Cursors and deltas are asked for with the token of session.json
\* (doAuthed), everything else with the one in memory.
Answered(i) ==
  /\ up /\ Accepted(i) /\ ~expired
  /\ age[i] >= 0 /\ cursor => disk = token

\* SyncOnce returns: the first one opens the gate even if it failed.
CycleEnds(i) ==
  /\ pc[i] = "running" /\ cycle[i] /\ wait[i] = 0 /\ ~saving[i]
  /\ Accepted(i) /\ up => ~expired
  /\ cycle' = [cycle EXCEPT ![i] = FALSE]
  /\ wait' = [wait EXCEPT ![i] = PollEvery]
  /\ ready' = [ready EXCEPT ![i] = TRUE]
  /\ \/ /\ Answered(i) /\ NoFault
        /\ age' = [age EXCEPT ![i] = 0]
        /\ synced' = TRUE /\ cursor' = (cursor \/ disk = token)
     \/ /\ IF Answered(i) THEN Fault ELSE NoFault
        /\ UNCHANGED <<age, store>>
  /\ UNCHANGED <<pc, delay, mem, saving, lock, port, disk, account, exit, probe, lost>>

CycleStarts(i) ==
  /\ pc[i] = "running" /\ ~cycle[i] /\ wait[i] = 0
  /\ cycle' = [cycle EXCEPT ![i] = TRUE]
  /\ \E d \in 0..CycleTicks : wait' = [wait EXCEPT ![i] = d]
  /\ UNCHANGED <<pc, delay, ready, age, mem, saving, lock, port, disk, store, account,
                 exit, probe, lost, faults>>

Starting(i) == pc[i] = "running" => ~ready[i]
Fresh(i) == age[i] \in 0..MaxAge

\* Mutant: a poller that has succeeded once is never stale.
HealthyOnce(i) == Starting(i) \/ age[i] >= 0

\* What /healthz says, of the boot listener and of the server.
Healthy(i) == Starting(i) \/ Fresh(i)

\* The watchdog: whatever is not a 2xx, a closed port too, restarts the unit.
Probe ==
  /\ probe = 0
  /\ probe' = ProbeEvery
  /\ IF port # NoOne /\ Healthy(port) THEN UNCHANGED <<process, exit, lost>>
     ELSE Ended(Unit) /\ exit' = "clean"
  /\ UNCHANGED <<disk, store, account, faults>>

-----------------------------------------------------------------------------
(* Proton, the operator, and time. *)

Outage ==
  /\ up /\ Fault /\ up' = FALSE
  /\ UNCHANGED <<process, disk, store, token, expired, revoked, exit, probe, lost>>

Back ==
  /\ ~up /\ up' = TRUE
  /\ UNCHANGED <<process, disk, store, token, expired, revoked, exit, probe, lost, faults>>

Expire ==
  /\ ~expired /\ token < MaxToken /\ expired' = TRUE
  /\ UNCHANGED <<process, disk, store, token, revoked, up, exit, probe, lost, faults>>

Revoke ==
  /\ ~revoked /\ Fault /\ revoked' = TRUE
  /\ UNCHANGED <<process, disk, store, token, expired, up, exit, probe, lost>>

\* `cal-gateway login` after an exit 78: a new session, and the unit may start.
Login ==
  /\ exit = "invalid" /\ lock = NoOne /\ up
  /\ token' = token + 1 /\ expired' = FALSE /\ revoked' = FALSE
  /\ disk' = token + 1 /\ lost' = FALSE /\ exit' = "clean"
  /\ UNCHANGED <<process, store, up, probe, faults>>

\* No step is due: a tick passes.
Idle(i) ==
  CASE pc[i] = "off" -> i # Unit \/ exit = "invalid" \/ lock # NoOne
    [] pc[i] = "running" -> port # NoOne /\ wait[i] > 0
    [] OTHER -> wait[i] > 0

Tick ==
  /\ \A i \in Procs : Idle(i) /\ ~saving[i]
  /\ probe > 0 /\ probe' = probe - 1
  /\ wait' = [i \in Procs |-> IF wait[i] > 0 THEN wait[i] - 1 ELSE 0]
  /\ age' = [i \in Procs |-> IF Fresh(i) THEN age[i] + 1 ELSE age[i]]
  /\ UNCHANGED <<pc, delay, cycle, ready, mem, saving, lock, port, disk, store,
                 account, exit, lost, faults>>

-----------------------------------------------------------------------------
Init ==
  /\ pc = [i \in Procs |-> "off"] /\ wait = [i \in Procs |-> 0]
  /\ delay = [i \in Procs |-> BackoffBase]
  /\ cycle = [i \in Procs |-> FALSE] /\ ready = [i \in Procs |-> FALSE]
  /\ age = [i \in Procs |-> -1]
  /\ mem = [i \in Procs |-> 0] /\ saving = [i \in Procs |-> FALSE]
  /\ lock = NoOne /\ port = NoOne
  /\ disk = 1 /\ synced \in BOOLEAN /\ cursor \in {FALSE, synced}
  /\ token = 1 /\ expired = FALSE /\ revoked = FALSE /\ up \in BOOLEAN
  /\ exit = "clean" /\ probe = ProbeEvery /\ lost = FALSE /\ faults = 0

\* What process i, once started, does by itself.
Progress(i) ==
  \/ Refresh(i) \/ Save(i)
  \/ Refused(i) \/ Unreachable(i) \/ Retry(i) \/ Restored(i)
  \/ Listen(i) \/ CycleEnds(i) \/ CycleStarts(i)

Next ==
  \/ \E i \in Procs : Start(i) \/ Progress(i) \/ Crash(i) \/ HandStop(i)
  \/ Probe \/ Outage \/ Back \/ Expire \/ Revoke \/ Login \/ Tick

Spec == Init /\ [][Next]_vars

-----------------------------------------------------------------------------
(* Properties. *)

TypeOK ==
  /\ pc \in [Procs -> {"off", "restore", "backoff", "running"}]
  /\ wait \in [Procs -> Nat]
  /\ \A i \in Procs : pc[i] = "backoff" => wait[i] <= BackoffCap
  /\ delay \in [Procs -> BackoffBase..BackoffCap]
  /\ cycle \in [Procs -> BOOLEAN] /\ ready \in [Procs -> BOOLEAN]
  /\ age \in [Procs -> -1..(MaxAge + 1)]
  /\ mem \in [Procs -> Nat] /\ saving \in [Procs -> BOOLEAN]
  /\ lock \in Procs \cup {NoOne} /\ port \in Procs \cup {NoOne}
  /\ disk \in Nat /\ synced \in BOOLEAN /\ cursor \in BOOLEAN /\ token \in Nat \ {0}
  /\ expired \in BOOLEAN /\ revoked \in BOOLEAN /\ up \in BOOLEAN
  /\ exit \in {"clean", "failed", "invalid"}
  /\ probe \in 0..ProbeEvery /\ lost \in BOOLEAN /\ faults \in 0..MaxFaults

\* The token Proton accepts is in session.json, or in the memory of the one
\* process that is about to write it there: whatever is started, stopped and
\* restarted on a data_dir, no second writer takes the rotation from the first.
SessionKept ==
  lost \/ disk = token \/ \E i \in Procs : lock = i /\ saving[i] /\ mem[i] = token

\* The daemon leaves with 78, and needs an operator with a TOTP code, only when
\* Proton has closed the session or a token was lost on its way to session.json.
ReloginOnlyIfDead == [][\A i \in Procs : Refused(i) => lost \/ revoked]_vars

\* A daemon that waits for Proton with its boot listener open is not restarted:
\* the watchdog hears 200 from it all the time (main.go:352-353).
WaitsUndisturbed == [][Probe /\ pc[Unit] = "backoff" => pc'[Unit] = "backoff"]_vars

\* "a 503 here would restart the HTTP watchdog in the middle of the startup
\* window -- exactly the bug we are killing" (health.go:34-35): a process whose
\* first cycle is in flight is not restarted.
StartupUndisturbed ==
  [][Probe /\ cycle[Unit] /\ age[Unit] = -1 => pc'[Unit] = pc[Unit]]_vars

\* "The current session stays valid in memory, but a persistence failure is the
\* ONLY signal before a session loss at the next restart" (account.go:242-244):
\* a cycle of a process whose token Proton accepts fails only by a fault of its own.
ValidInMemory ==
  [][\A i \in Procs :
       CycleEnds(i) /\ up /\ Accepted(i) /\ faults' = faults => age'[i] = 0]_vars

-----------------------------------------------------------------------------
(* Processes, systemd, the watchdog's timer and the clock go on; Proton comes *)
(* back; an operator who is asked to log in again and again does so; what is *)
(* started by hand is stopped in the end.                                    *)

Fairness ==
  /\ \A i \in Procs : WF_vars(Progress(i)) /\ WF_vars(HandStop(i))
  /\ WF_vars(Start(Unit)) /\ WF_vars(Probe) /\ WF_vars(Tick) /\ WF_vars(Back)
  /\ SF_vars(Login)

FairSpec == Spec /\ Fairness

\* After the last outage, crash, revocation or failed call, the daemon serves
\* with fresh data for good -- where a session that died while it was running is
\* only noticed because the watchdog restarts it.  Needs restarting and a cycle
\* to fit between two probes, and a cycle with its interval into MaxAge.
Recovers == <>[](\E i \in Procs : pc[i] = "running" /\ port = i /\ ready[i] /\ Fresh(i))
=============================================================================
