------------------------------- MODULE AtRest -------------------------------
(***************************************************************************)
(* The two files an installation cannot rebuild: session.json and the key  *)
(* it is sealed with, .atrest.key (internal/atrest, LoadSession and        *)
(* SaveSession of internal/proton), system call by system call.            *)
(*                                                                         *)
(* Two processes use them.  The daemon (serve) loads the session when it   *)
(* boots and again for every authenticated call (doAuthed), and its auth   *)
(* handler saves it when Proton rotates the tokens; these run in parallel  *)
(* and share the cached cipher.  A command is `cal-gateway status`, which  *)
(* loads the session, or `cal-gateway login`, which saves a new one; it    *)
(* takes no lock.  Any process can be killed between two system calls, and *)
(* a write can fail.                                                       *)
(*                                                                         *)
(* A file is one of four names.  The content of a file is the key it holds *)
(* or is sealed with (0: in clear) and the token in it.  An open file      *)
(* follows a rename: fd is the name under which what a thread writes can   *)
(* be found now, Gone once another file has taken that name.               *)
(***************************************************************************)
EXTENDS Integers

CONSTANTS
  Calls,      \* goroutines of the daemon that load the session
  Boot,       \* the one that boots the daemon
  Auth,       \* the goroutine of the auth handler
  Cmd,        \* the one thread of the command
  MaxToken,   \* bound: rotations and logins
  MaxFaults   \* bound: kills and failed writes

ASSUME ThreadsAssumption ==
  Boot \in Calls /\ Auth \notin Calls /\ Cmd \notin Calls /\ Auth # Cmd
ASSUME BoundsAssumption == MaxToken \in Nat \ {0} /\ MaxFaults \in Nat

VARIABLES
  file,     \* what each name holds
  th,       \* what each thread is doing
  cache,    \* the key each process has loaded, 0 if none
  up,       \* the daemon: off, boot or on
  token,    \* the last token Proton gave out (0: no login yet)
  mem,      \* the token in the daemon's memory
  drawn,    \* keys drawn so far
  stray,    \* history: "processes" or "threads" had a session in clear in hand
            \* at the same time
  lost,     \* history: a token was lost with the process or write that had it
  faults

vars == <<file, th, cache, up, token, mem, drawn, stray, lost, faults>>

Names == {".atrest.key", ".atrest.key.tmp", "session.json", "session.json.tmp"}
Gone == "gone"
Absent == [key |-> 0, tok |-> -1]
Empty == [key |-> 0, tok |-> 0]

Threads == Calls \cup {Auth, Cmd}
Proc(t) == IF t = Cmd THEN "command" ELSE "serve"

Idle == [pc |-> "idle", op |-> "load", raw |-> Absent, tok |-> 0, new |-> 0, fd |-> Gone]

Session == file["session.json"]
Key == file[".atrest.key"]
IsSealed(c) == c.key # 0

Fault == faults < MaxFaults /\ faults' = faults + 1
Busy(t) == th[t].pc # "idle"
Step(t, next) == th' = [th EXCEPT ![t] = next]

\* Thread t has its result; what it worked with is done with.
Over(t, result) ==
  [Idle EXCEPT !.pc = result, !.op = th[t].op, !.tok = th[t].tok]

-----------------------------------------------------------------------------
(* Who starts what. *)

Loads(t) == Step(t, [Idle EXCEPT !.pc = "key", !.raw = Session])
Saves(t, tok) == Step(t, [Idle EXCEPT !.pc = "key", !.op = "save", !.tok = tok])

rest == <<file, cache, drawn, lost>>

\* Two processes have begun to use a session that is still in clear.
Meets(other) ==
  stray' = IF other /\ ~IsSealed(Session) THEN stray \cup {"processes"} ELSE stray

\* serve: RestoreAccount's LoadSession, again after an attempt that failed; without
\* a session.json it exits.
BootDaemon ==
  /\ up = "off" \/ (up = "boot" /\ ~Busy(Boot))
  /\ Session # Absent
  /\ up' = "boot"
  /\ Loads(Boot)
  /\ Meets(Busy(Cmd))
  /\ UNCHANGED <<rest, token, mem, faults>>

\* doAuthed: the session is read again for every authenticated call.
Call(t) ==
  /\ up = "on" /\ ~Busy(t)
  /\ Loads(t)
  /\ UNCHANGED <<rest, stray, up, token, mem, faults>>

\* Proton rotates the daemon's tokens, one refresh at a time.
Refresh ==
  /\ up = "on" /\ mem = token /\ token < MaxToken
  /\ ~Busy(Auth)
  /\ token' = token + 1 /\ mem' = token + 1
  /\ Saves(Auth, token + 1)
  /\ UNCHANGED <<rest, stray, up, faults>>

Status ==
  /\ ~Busy(Cmd) /\ Session # Absent
  /\ Loads(Cmd)
  /\ Meets(up # "off")
  /\ UNCHANGED <<rest, up, token, mem, faults>>

\* The daemon is not running yet, or has left with 78.
Login ==
  /\ ~Busy(Cmd) /\ up = "off" /\ token < MaxToken
  /\ token' = token + 1
  /\ Saves(Cmd, token + 1)
  /\ UNCHANGED <<rest, stray, up, mem, faults>>

-----------------------------------------------------------------------------
(* How a call ends. *)

\* Everything process p has in memory is gone, a token it has not saved too.
Ended(p) ==
  /\ th' = [t \in Threads |-> IF Proc(t) = p THEN Idle ELSE th[t]]
  /\ cache' = [cache EXCEPT ![p] = 0]
  /\ lost' = (lost \/ \E t \in Threads :
                        Proc(t) = p /\ th[t].op = "save" /\ th[t].pc # "ok")
  /\ IF p = "serve" THEN up' = "off" /\ mem' = 0 ELSE UNCHANGED <<up, mem>>

\* ErrSessionInvalid: what was read is sealed, and not with the key.
SessionInvalid(t) == th[t].pc = "error" /\ th[t].tok > 0

\* LoadSession or SaveSession returns: a command ends; a daemon that boots exits on
\* a session that does not open, waits for another attempt on any other error, and
\* serves else; a daemon that serves goes on either way.
Returns(t) ==
  /\ th[t].pc \in {"ok", "error"}
  /\ IF t = Cmd \/ (up = "boot" /\ SessionInvalid(t)) THEN Ended(Proc(t))
     ELSE /\ Step(t, Idle)
          /\ IF up = "boot" /\ th[t].pc = "ok" THEN up' = "on" /\ mem' = th[t].tok
             ELSE UNCHANGED <<up, mem>>
          /\ lost' = (lost \/ (th[t].pc = "error" /\ th[t].op = "save"))
          /\ UNCHANGED cache
  /\ UNCHANGED <<file, token, drawn, stray, faults>>

Kill(p) ==
  /\ IF p = "serve" THEN up # "off" ELSE Busy(Cmd)
  /\ Fault
  /\ Ended(p)
  /\ UNCHANGED <<file, token, drawn, stray>>

local == <<up, token, mem, lost>>

\* Opening, writing or renaming a file fails.  A LoadSession that was re-sealing
\* answers what it read all the same.
Fails(t) ==
  /\ th[t].pc \in {"newkey", "save", "write", "rename"}
  /\ Fault
  /\ Step(t, Over(t, IF th[t].op = "load" /\ th[t].pc # "newkey"
                     THEN "ok" ELSE "error"))
  /\ UNCHANGED <<file, cache, drawn, stray, local>>

-----------------------------------------------------------------------------
(* atrest.Load, under cacheMu. *)

AtKey(t) ==
  /\ th[t].pc = "key"
  /\ \A u \in Threads \ {t} :
       Proc(u) = Proc(t) => th[u].pc \notin {"newkey", "placekey"}

\* What thread t read is sealed with the key k it goes on with, or in clear.
Fits(t, k) == IsSealed(th[t].raw) /\ th[t].raw.key = k
InClear(t) == ~IsSealed(th[t].raw) /\ th[t].raw.tok > 0

Saving(tok, op) == [Idle EXCEPT !.pc = "save", !.op = op, !.tok = tok]
Loaded(t, pc) == [Idle EXCEPT !.pc = pc, !.tok = th[t].raw.tok]

\* Mutant: the session is re-sealed whenever it is loaded.
OpenedResealing(t, k) ==
  IF Fits(t, k) \/ InClear(t) THEN Saving(th[t].raw.tok, "load") ELSE Loaded(t, "error")

\* Mutant: a session in clear is left in clear.
OpenedOnly(t, k) ==
  Loaded(t, IF Fits(t, k) \/ InClear(t) THEN "ok" ELSE "error")

\* Mutant: whatever is in the file is taken for a session.
OpenedEmpty(t, k) ==
  CASE Fits(t, k) -> Loaded(t, "ok")
    [] ~IsSealed(th[t].raw) -> Saving(th[t].raw.tok, "load")
    [] OTHER -> Loaded(t, "error")

\* LoadSession: a session sealed with the loaded key is the answer, one in clear
\* is saved first, anything else is an error.
Opened(t, k) ==
  CASE Fits(t, k) -> Loaded(t, "ok")
    [] InClear(t) -> Saving(th[t].raw.tok, "load")
    [] OTHER -> Loaded(t, "error")

WithKey(t, k) ==
  IF th[t].op = "load" THEN Opened(t, k) ELSE Saving(th[t].tok, "save")

\* Threads of the daemon have a session in clear in hand while it serves.
Late(t) ==
  stray' = IF t # Cmd /\ up = "on" /\ th[t].op = "load" /\ InClear(t)
           THEN stray \cup {"threads"} ELSE stray

\* The key its process has from now on.
KeyLoaded(t, k) ==
  /\ cache' = [cache EXCEPT ![Proc(t)] = k]
  /\ Step(t, WithKey(t, k))

\* The key is cached, or on file; a key file of the wrong size is an error.
KeyFound(t) ==
  /\ AtKey(t)
  /\ \/ cache[Proc(t)] # 0 /\ KeyLoaded(t, cache[Proc(t)])
     \/ cache[Proc(t)] = 0 /\ IsSealed(Key) /\ KeyLoaded(t, Key.key)
     \/ /\ cache[Proc(t)] = 0 /\ Key = Empty
        /\ Step(t, Over(t, "error"))
        /\ UNCHANGED cache
  /\ Late(t)
  /\ UNCHANGED <<file, drawn, local, faults>>

\* O_CREATE|O_TRUNC: who has that file open now shares it.
Truncate(t, name, next) ==
  /\ file' = [file EXCEPT ![name] = Empty]
  /\ Step(t, [next EXCEPT !.fd = name])

\* The write goes where the open file is now.
Write(t, content, next) ==
  /\ file' = IF th[t].fd = Gone THEN file ELSE [file EXCEPT ![th[t].fd] = content]
  /\ Step(t, [th[t] EXCEPT !.pc = next])

\* os.Rename: what is open under tmp is open under name from now on.
Rename(t, tmp, name, next) ==
  /\ file[tmp] # Absent
  /\ file' = [file EXCEPT ![name] = file[tmp], ![tmp] = Absent]
  /\ th' = [u \in Threads |->
              IF u = t THEN next
              ELSE CASE th[u].fd = tmp -> [th[u] EXCEPT !.fd = name]
                     [] th[u].fd = name -> [th[u] EXCEPT !.fd = Gone]
                     [] OTHER -> th[u]]

KeyDrawn(t) ==
  /\ AtKey(t) /\ cache[Proc(t)] = 0 /\ Key = Absent
  /\ drawn' = drawn + 1
  /\ Truncate(t, ".atrest.key.tmp", [th[t] EXCEPT !.pc = "newkey", !.new = drawn + 1])
  /\ UNCHANGED <<cache, stray, local, faults>>

KeyWritten(t) ==
  /\ th[t].pc = "newkey"
  /\ Write(t, [key |-> th[t].new, tok |-> 0], "placekey")
  /\ UNCHANGED <<cache, drawn, stray, local, faults>>

\* The rename replaces a key that has appeared meanwhile.
KeyPlaced(t) ==
  /\ th[t].pc = "placekey"
  /\ cache' = [cache EXCEPT ![Proc(t)] = th[t].new]
  /\ Rename(t, ".atrest.key.tmp", ".atrest.key", WithKey(t, th[t].new))
  /\ Late(t)
  /\ UNCHANGED <<drawn, local, faults>>

\* The rename fails, another process has moved the file: the key on file is read.
KeyReread(t) ==
  /\ th[t].pc = "placekey" /\ file[".atrest.key.tmp"] = Absent
  /\ IF IsSealed(Key) THEN KeyLoaded(t, Key.key)
     ELSE Step(t, Over(t, "error")) /\ UNCHANGED cache
  /\ Late(t)
  /\ UNCHANGED <<file, drawn, local, faults>>

-----------------------------------------------------------------------------
(* SaveSession after the key, for LoadSession too. *)

\* Mutant: session.json is written in place.
SaveInPlace(t) ==
  /\ th[t].pc = "save"
  /\ Truncate(t, "session.json", [th[t] EXCEPT !.pc = "write"])
  /\ UNCHANGED <<cache, drawn, stray, local, faults>>

SaveStarts(t) ==
  /\ th[t].pc = "save"
  /\ Truncate(t, "session.json.tmp", [th[t] EXCEPT !.pc = "write"])
  /\ UNCHANGED <<cache, drawn, stray, local, faults>>

SaveWrites(t) ==
  /\ th[t].pc = "write"
  /\ Write(t, [key |-> cache[Proc(t)], tok |-> th[t].tok], "rename")
  /\ UNCHANGED <<cache, drawn, stray, local, faults>>

SaveRenames(t) ==
  /\ th[t].pc = "rename"
  /\ Rename(t, "session.json.tmp", "session.json", Over(t, "ok"))
  /\ UNCHANGED <<cache, drawn, stray, local, faults>>

\* Another thread has moved the temporary file.
SaveLosesTmp(t) ==
  /\ th[t].pc = "rename" /\ file["session.json.tmp"] = Absent
  /\ Step(t, Over(t, IF th[t].op = "load" THEN "ok" ELSE "error"))
  /\ UNCHANGED <<file, cache, drawn, stray, local, faults>>

-----------------------------------------------------------------------------
\* A new installation; one of before the sealing, with its session in clear; one
\* that has been running.
Files(key, session) ==
  [n \in Names |-> CASE n = ".atrest.key" -> key
                     [] n = "session.json" -> session
                     [] OTHER -> Absent]

Init ==
  /\ \E key \in {0, 1}, tok \in {0, 1} :
       /\ key <= tok
       /\ file = Files(IF key = 0 THEN Absent ELSE [key |-> key, tok |-> 0],
                       IF tok = 0 THEN Absent ELSE [key |-> key, tok |-> tok])
       /\ token = tok /\ drawn = key
  /\ th = [t \in Threads |-> Idle]
  /\ cache = [p \in {"serve", "command"} |-> 0]
  /\ up = "off" /\ mem = 0 /\ stray = {} /\ lost = FALSE /\ faults = 0

Thread(t) ==
  \/ Returns(t)
  \/ KeyFound(t) \/ KeyDrawn(t) \/ KeyWritten(t) \/ KeyPlaced(t) \/ KeyReread(t)
  \/ SaveStarts(t) \/ SaveWrites(t) \/ SaveRenames(t) \/ SaveLosesTmp(t)

Next ==
  \/ BootDaemon \/ Refresh \/ Status \/ Login
  \/ \E t \in Calls : Call(t)
  \/ \E t \in Threads : Thread(t) \/ Fails(t)
  \/ \E p \in {"serve", "command"} : Kill(p)

Spec == Init /\ [][Next]_vars

-----------------------------------------------------------------------------
(* Properties. *)

\* Types; a daemon that serves has a session.
Content == [key : 0..drawn, tok : -1..token]
Pcs == {"idle", "key", "newkey", "placekey", "save", "write", "rename", "ok", "error"}

TypeOK ==
  /\ file \in [Names -> Content]
  /\ th \in [Threads -> [pc : Pcs, op : {"load", "save"}, raw : Content,
                         tok : -1..token, new : 0..drawn, fd : Names \cup {Gone}]]
  /\ cache \in [{"serve", "command"} -> 0..drawn]
  /\ up \in {"off", "boot", "on"}
  /\ token \in 0..MaxToken /\ mem \in (IF up = "on" THEN 1 ELSE 0)..token /\ drawn \in Nat
  /\ stray \subseteq {"threads", "processes"} /\ lost \in BOOLEAN /\ faults \in 0..MaxFaults

\* The session file, once there, is a whole session that the key on file opens
\* or one in clear.
Readable ==
  Session # Absent => Session.tok > 0 /\ Session.key \in {0, Key.key}

\* However the process is killed between two system calls, whichever write
\* fails, with every thread of the daemon at work and a command beside it: the
\* session that takes a TOTP code to rebuild stays readable (SaveSession,
\* generateKey), unless two of them had it in clear.
SessionReadable == stray # {} \/ Readable

\* The token Proton gave out last is in session.json or in the hands of a thread
\* that is saving it: loading the session, which may save it, never brings an
\* older one back.
TokenKept ==
  \/ lost \/ stray # {}
  \/ token = 0 \/ Session.tok = token
  \/ \E t \in Threads : Busy(t) /\ th[t].op = "save" /\ th[t].tok = token

\* Threads go on, an installed daemon is started, and its poller makes calls.
FairSpec ==
  /\ Spec /\ WF_vars(BootDaemon)
  /\ \A t \in Threads : WF_vars(Thread(t))
  /\ \A t \in Calls : WF_vars(Call(t))

\* A session in clear does not stay so: a re-seal that failed is tried again,
\* whoever else is at work in the daemon then.
SealedInTheEnd ==
  <>[]("processes" \in stray \/ (Session.tok > 0 => IsSealed(Session)))

-----------------------------------------------------------------------------
(* Statements of the repository that do not hold when `cal-gateway status`   *)
(* runs beside a daemon that boots on a session in clear.                    *)

\* "if the file appeared meanwhile, we re-read the existing one"
\* (atrest.go:139-140): no process works with a key that is not the one on file.
OneKey == \A p \in {"serve", "command"} : cache[p] \in {0, Key.key}

\* "the user must NEVER have to redo a TOTP login" (session_test.go:54).
NeverTruncated == Readable
=============================================================================
