---------------------------- MODULE AtRestProofs ----------------------------
(***************************************************************************)
(* Theorems about AtRest, for any goroutines, rotations and faults: its    *)
(* types, that the session stays readable, and that its newest token does  *)
(* not get lost on the way.                                                *)
(*                                                                         *)
(* What has to be found is who may be at which file when.  The key is      *)
(* drawn by one thread, while there is none; session.json is replaced by   *)
(* one thread at a time, because a process that has a session in clear in  *)
(* hand is alone with it, and because the daemon can rotate no token while *)
(* a login that it does not know of is being saved.                        *)
(***************************************************************************)
EXTENDS AtRest, TLAPS

-----------------------------------------------------------------------------
(* What holds of the threads, whatever else goes on. *)

SessionNames == {"session.json", "session.json.tmp"}
KeyNames == {".atrest.key", ".atrest.key.tmp"}
Keying == {"key", "newkey", "placekey"}
Writing == {"save", "write", "rename"}
Drawing(t) == th[t].pc \in {"newkey", "placekey"}

\* What is sealed is a whole session, on file and in hand.
SealedWhole ==
  /\ \A n \in SessionNames : IsSealed(file[n]) => file[n].tok > 0
  /\ \A t \in Threads : IsSealed(th[t].raw) => th[t].raw.tok > 0

\* Who saves or has loaded a session has one, and the key of its process.
HasSession ==
  \A t \in Threads :
    /\ th[t].op = "save" => th[t].tok > 0 /\ t \in {Auth, Cmd}
    /\ t = Auth /\ Busy(t) => th[t].op = "save"
    /\ th[t].pc \in Writing \cup {"ok"} => th[t].tok > 0 /\ cache[Proc(t)] # 0

OpensOwn ==
  \A t \in Threads :
    /\ th[t].pc = "write" => th[t].fd \in SessionNames \cup {Gone}
    /\ th[t].pc = "newkey" => th[t].fd \in KeyNames \cup {Gone}

\* cacheMu: one thread of a process draws a key, while none is cached.
DrawsAlone ==
  \A t \in Threads : Drawing(t) =>
    /\ th[t].new > 0 /\ cache[Proc(t)] = 0
    /\ \A u \in Threads : Drawing(u) /\ Proc(u) = Proc(t) => u = t

\* The daemon's life: nothing runs when it is off, its boot is one thread.
Lives ==
  /\ up # "on" => \A t \in Threads \ {Boot, Cmd} : ~Busy(t)
  /\ up = "off" => ~Busy(Boot)
  /\ up # "off" => Session # Absent
  /\ up = "on" => cache["serve"] # 0

ThreadInv == TypeOK /\ SealedWhole /\ HasSession /\ OpensOwn /\ DrawsAlone /\ Lives

-----------------------------------------------------------------------------
(* What holds as long as nobody met a session in clear in another's hands. *)

\* Thread t is going to replace the session in clear it has read by itself, sealed.
Reseals(t) ==
  /\ th[t].op = "load"
  /\ th[t].pc \in Writing \/ (th[t].pc \in Keying /\ InClear(t))
InHand(t) == IF th[t].pc \in Writing THEN th[t].tok ELSE th[t].raw.tok

LoggingIn == th[Cmd].op = "save" /\ th[Cmd].pc \in Keying \cup Writing

\* Who has the session in clear is alone with it.
ClearAlone ==
  /\ up # "off" /\ ~IsSealed(Session) => ~Busy(Cmd)
  /\ Reseals(Cmd) => up = "off" /\ ~IsSealed(Session) /\ Session.tok = InHand(Cmd)
  /\ up = "boot" /\ Reseals(Boot) => ~IsSealed(Session) /\ Session.tok = InHand(Boot)
  /\ \A t \in Calls : th[t].pc \in Writing => up = "boot"

\* A login in progress has a token the daemon has not heard of; the daemon's own
\* save has the token it works with.
SavesNewest ==
  /\ LoggingIn =>
       /\ th[Cmd].tok = token /\ Session.tok < token /\ mem < token
       /\ up = "boot" => th[Boot].raw.tok < token /\ th[Boot].tok < token
  /\ th[Auth].pc \in Keying \cup Writing => up = "on" /\ th[Auth].tok = token /\ mem = token

\* The key on file is the one everybody has; it is drawn while there is none.
OneKeyFor ==
  /\ Key = Absent \/ IsSealed(Key)
  /\ \A p \in {"serve", "command"} : cache[p] \in {0, Key.key}
  /\ \A t \in Threads : Drawing(t) => Key = Absent

\* A temporary file holds what its only writer has put there.
TmpOwned ==
  \A t \in Threads :
    /\ th[t].pc = "write" => th[t].fd = "session.json.tmp"
    /\ th[t].pc = "rename" =>
         file["session.json.tmp"] = [key |-> cache[Proc(t)], tok |-> th[t].tok]
    /\ th[t].pc = "newkey" => th[t].fd = ".atrest.key.tmp"
    /\ th[t].pc = "placekey" => file[".atrest.key.tmp"] = [key |-> th[t].new, tok |-> 0]

\* The newest token is in session.json, or its save is not over or has failed.
NewestSaved ==
  \/ lost \/ token = 0 \/ Session.tok = token
  \/ \E t \in Threads :
       th[t].op = "save" /\ th[t].tok = token /\ th[t].pc \in Keying \cup Writing \cup {"error"}

ClearParts ==
  /\ ClearAlone /\ SavesNewest /\ OneKeyFor /\ TmpOwned /\ NewestSaved /\ Readable

AtRestInv == ThreadInv /\ (stray = {} => ClearParts)

-----------------------------------------------------------------------------
(* Types. *)

\* What a thread may have in hand.
Hands == [pc : Pcs, op : {"load", "save"}, raw : Content,
          tok : -1..token, new : 0..drawn, fd : Names \cup {Gone}]
Hand(pc, op, raw, tok, new, fd) ==
  [pc |-> pc, op |-> op, raw |-> raw, tok |-> tok, new |-> new, fd |-> fd]

LEMMA HandType ==
  ASSUME TypeOK, NEW t \in Threads
  PROVE  /\ th[t] \in Hands
         /\ th[t] = Hand(th[t].pc, th[t].op, th[t].raw, th[t].tok, th[t].new, th[t].fd)
         /\ th[t].pc \in Pcs /\ th[t].op \in {"load", "save"}
         /\ th[t].raw \in Content /\ th[t].raw.key \in 0..drawn /\ th[t].raw.tok \in -1..token
         /\ th[t].tok \in -1..token /\ th[t].new \in 0..drawn /\ th[t].fd \in Names \cup {Gone}
<1>1. th[t] \in Hands BY DEF TypeOK, Hands
<1>2. th[t].raw \in Content BY <1>1 DEF Hands
<1> QED BY <1>1, <1>2 DEF Hands, Hand, Content

LEMMA FileType ==
  ASSUME TypeOK, NEW n \in Names
  PROVE  file[n] \in Content /\ file[n].key \in 0..drawn /\ file[n].tok \in -1..token
BY DEF TypeOK, Content

LEMMA NumbersType ==
  ASSUME TypeOK
  PROVE  /\ token \in Nat /\ token <= MaxToken /\ mem \in Nat /\ mem <= token /\ drawn \in Nat
         /\ faults \in Nat /\ faults <= MaxFaults
         /\ cache["serve"] \in 0..drawn /\ cache["command"] \in 0..drawn
         /\ \A t \in Threads : Proc(t) \in {"serve", "command"} /\ cache[Proc(t)] \in 0..drawn
BY BoundsAssumption DEF TypeOK, Proc

LEMMA MakeHand ==
  ASSUME NEW pc \in Pcs, NEW op \in {"load", "save"}, NEW raw \in Content,
         NEW tok \in -1..token, NEW new \in 0..drawn, NEW fd \in Names \cup {Gone}
  PROVE  Hand(pc, op, raw, tok, new, fd) \in Hands
BY DEF Hand, Hands

LEMMA MakeContent ==
  ASSUME NEW key \in 0..drawn, NEW tok \in -1..token
  PROVE  [key |-> key, tok |-> tok] \in Content
BY DEF Content

LEMMA MeansAbsent ==
  ASSUME TypeOK
  PROVE  /\ Absent \in Content /\ Absent.key = 0 /\ Absent.tok = -1
         /\ Empty \in Content /\ Empty.key = 0 /\ Empty.tok = 0
         /\ \A n \in Names : file[n] # Absent <=> file[n].tok # -1 \/ file[n].key # 0
<1>1. Absent \in Content /\ Empty \in Content BY MakeContent, NumbersType DEF Absent, Empty
<1>2. ASSUME NEW n \in Names PROVE file[n] = [key |-> file[n].key, tok |-> file[n].tok]
  BY FileType DEF Content
<1> QED BY <1>1, <1>2 DEF Absent, Empty

\* The records the actions make, one field after the other.
LEMMA IdleHand == Idle = Hand("idle", "load", Absent, 0, 0, Gone)
BY DEF Idle, Hand

LEMMA PicksHand ==
  ASSUME NEW pc, NEW raw
  PROVE  [Idle EXCEPT !.pc = pc, !.raw = raw] = Hand(pc, "load", raw, 0, 0, Gone)
<1>1. [Idle EXCEPT !.pc = pc] = Hand(pc, "load", Absent, 0, 0, Gone)
  BY DEF Idle, Hand
<1>2. [Hand(pc, "load", Absent, 0, 0, Gone) EXCEPT !.raw = raw] = Hand(pc, "load", raw, 0, 0, Gone)
  BY DEF Hand
<1> QED BY <1>1, <1>2

LEMMA ResultHand ==
  ASSUME NEW pc, NEW op, NEW tok
  PROVE  /\ [Idle EXCEPT !.pc = pc, !.op = op, !.tok = tok] = Hand(pc, op, Absent, tok, 0, Gone)
         /\ [Idle EXCEPT !.pc = pc, !.tok = tok] = Hand(pc, "load", Absent, tok, 0, Gone)
<1>1. [Idle EXCEPT !.pc = pc] = Hand(pc, "load", Absent, 0, 0, Gone)
  BY DEF Idle, Hand
<1>2. [Hand(pc, "load", Absent, 0, 0, Gone) EXCEPT !.op = op] = Hand(pc, op, Absent, 0, 0, Gone)
  BY DEF Hand
<1>3. [Hand(pc, op, Absent, 0, 0, Gone) EXCEPT !.tok = tok] = Hand(pc, op, Absent, tok, 0, Gone)
  BY DEF Hand
<1>4. [Hand(pc, "load", Absent, 0, 0, Gone) EXCEPT !.tok = tok]
        = Hand(pc, "load", Absent, tok, 0, Gone)
  BY DEF Hand
<1> QED BY <1>1, <1>2, <1>3, <1>4

LEMMA OverHand ==
  ASSUME NEW t, NEW pc, NEW op, NEW tok
  PROVE  /\ Saving(tok, op) = Hand("save", op, Absent, tok, 0, Gone)
         /\ Loaded(t, pc) = Hand(pc, "load", Absent, th[t].raw.tok, 0, Gone)
         /\ Over(t, pc) = Hand(pc, th[t].op, Absent, th[t].tok, 0, Gone)
<1>1. Saving(tok, op) = Hand("save", op, Absent, tok, 0, Gone) BY ResultHand DEF Saving
<1>2. Loaded(t, pc) = Hand(pc, "load", Absent, th[t].raw.tok, 0, Gone)
  BY ResultHand DEF Loaded
<1>3. Over(t, pc) = Hand(pc, th[t].op, Absent, th[t].tok, 0, Gone) BY ResultHand DEF Over
<1> QED BY <1>1, <1>2, <1>3

LEMMA PcHand ==
  ASSUME TypeOK, NEW t \in Threads, NEW pc
  PROVE  [th[t] EXCEPT !.pc = pc] = Hand(pc, th[t].op, th[t].raw, th[t].tok, th[t].new, th[t].fd)
<1>1. th[t] = Hand(th[t].pc, th[t].op, th[t].raw, th[t].tok, th[t].new, th[t].fd)
  BY HandType
<1>2. [Hand(th[t].pc, th[t].op, th[t].raw, th[t].tok, th[t].new, th[t].fd) EXCEPT !.pc = pc]
        = Hand(pc, th[t].op, th[t].raw, th[t].tok, th[t].new, th[t].fd)
  BY DEF Hand
<1> QED BY <1>1, <1>2

LEMMA FdHand ==
  ASSUME TypeOK, NEW t \in Threads, NEW fd
  PROVE  [th[t] EXCEPT !.fd = fd] = Hand(th[t].pc, th[t].op, th[t].raw, th[t].tok, th[t].new, fd)
<1>1. th[t] = Hand(th[t].pc, th[t].op, th[t].raw, th[t].tok, th[t].new, th[t].fd)
  BY HandType
<1>2. [Hand(th[t].pc, th[t].op, th[t].raw, th[t].tok, th[t].new, th[t].fd) EXCEPT !.fd = fd]
        = Hand(th[t].pc, th[t].op, th[t].raw, th[t].tok, th[t].new, fd)
  BY DEF Hand
<1> QED BY <1>1, <1>2

LEMMA OpensHand ==
  ASSUME TypeOK, NEW t \in Threads, NEW pc, NEW fd
  PROVE  [[th[t] EXCEPT !.pc = pc] EXCEPT !.fd = fd]
           = Hand(pc, th[t].op, th[t].raw, th[t].tok, th[t].new, fd)
<1>1. [th[t] EXCEPT !.pc = pc] = Hand(pc, th[t].op, th[t].raw, th[t].tok, th[t].new, th[t].fd)
  BY PcHand
<1>2. [Hand(pc, th[t].op, th[t].raw, th[t].tok, th[t].new, th[t].fd) EXCEPT !.fd = fd]
        = Hand(pc, th[t].op, th[t].raw, th[t].tok, th[t].new, fd)
  BY DEF Hand
<1> QED BY <1>1, <1>2

LEMMA DrawsHand ==
  ASSUME TypeOK, NEW t \in Threads, NEW new
  PROVE  [[th[t] EXCEPT !.pc = "newkey", !.new = new] EXCEPT !.fd = ".atrest.key.tmp"]
           = Hand("newkey", th[t].op, th[t].raw, th[t].tok, new, ".atrest.key.tmp")
<1>1. [th[t] EXCEPT !.pc = "newkey"]
        = Hand("newkey", th[t].op, th[t].raw, th[t].tok, th[t].new, th[t].fd)
  BY PcHand
<1>2. [Hand("newkey", th[t].op, th[t].raw, th[t].tok, th[t].new, th[t].fd) EXCEPT !.new = new]
        = Hand("newkey", th[t].op, th[t].raw, th[t].tok, new, th[t].fd)
  BY DEF Hand
<1>3. [th[t] EXCEPT !.pc = "newkey", !.new = new]
        = Hand("newkey", th[t].op, th[t].raw, th[t].tok, new, th[t].fd)
  BY <1>1, <1>2
<1>4. [Hand("newkey", th[t].op, th[t].raw, th[t].tok, new, th[t].fd) EXCEPT !.fd = ".atrest.key.tmp"]
        = Hand("newkey", th[t].op, th[t].raw, th[t].tok, new, ".atrest.key.tmp")
  BY DEF Hand
<1> QED BY <1>3, <1>4

LEMMA HandFields ==
  ASSUME NEW pc, NEW op, NEW raw, NEW tok, NEW new, NEW fd
  PROVE  LET h == Hand(pc, op, raw, tok, new, fd)
         IN  h.pc = pc /\ h.op = op /\ h.raw = raw /\ h.tok = tok /\ h.new = new /\ h.fd = fd
BY DEF Hand

\* Who works on does not disturb the others: all but what it does to the place of
\* an open file is its own.
Others(t) ==
  \A u \in Threads \ {t} :
    /\ th'[u].pc = th[u].pc /\ th'[u].op = th[u].op /\ th'[u].raw = th[u].raw
    /\ th'[u].tok = th[u].tok /\ th'[u].new = th[u].new

LEMMA StepMoves ==
  ASSUME TypeOK, NEW t \in Threads, NEW h, Step(t, h)
  PROVE  th'[t] = h /\ Others(t) /\ \A u \in Threads \ {t} : th'[u] = th[u]
BY DEF TypeOK, Step, Others

\* Where a file that was open under f is found after tmp was renamed to name.
Moved(f, tmp, name) == IF f = tmp THEN name ELSE IF f = name THEN Gone ELSE f

LEMMA RenameMoves ==
  ASSUME TypeOK, NEW t \in Threads, NEW h, NEW tmp \in Names, NEW name \in Names, tmp # name,
         Rename(t, tmp, name, h)
  PROVE  /\ th'[t] = h /\ Others(t)
         /\ \A u \in Threads \ {t} : th'[u].fd = Moved(th[u].fd, tmp, name)
         /\ file'[name] = file[tmp] /\ file'[tmp] = Absent
         /\ \A n \in Names \ {tmp, name} : file'[n] = file[n]
<1>1. th'[t] = h BY DEF Rename
<1>2. ASSUME NEW u \in Threads \ {t}
      PROVE  th'[u] = Hand(th[u].pc, th[u].op, th[u].raw, th[u].tok, th[u].new,
                           Moved(th[u].fd, tmp, name))
  BY FdHand, HandType DEF Rename, Moved
<1>3. Others(t) BY <1>2, HandFields DEF Others
<1>4. \A u \in Threads \ {t} : th'[u].fd = Moved(th[u].fd, tmp, name)
  BY <1>2, HandFields
<1>5. /\ file'[name] = file[tmp] /\ file'[tmp] = Absent
      /\ \A n \in Names \ {tmp, name} : file'[n] = file[n]
  BY DEF Rename, TypeOK
<1> QED BY <1>1, <1>3, <1>4, <1>5

LEMMA TypesOf ==
  ASSUME TypeOK,
         file' \in [Names -> Content'], th' \in [Threads -> Hands'],
         cache' \in [{"serve", "command"} -> 0..drawn'], up' \in {"off", "boot", "on"},
         token' \in 0..MaxToken, mem' \in (IF up' = "on" THEN 1 ELSE 0)..token', drawn' \in Nat,
         stray' \subseteq {"threads", "processes"}, lost' \in BOOLEAN, faults' \in 0..MaxFaults
  PROVE  TypeOK'
BY DEF TypeOK, Hands

LEMMA Grow ==
  ASSUME TypeOK, drawn' \in Nat, drawn <= drawn', token' \in Nat, token <= token'
  PROVE  /\ Content \subseteq Content' /\ Hands \subseteq Hands'
         /\ file \in [Names -> Content'] /\ th \in [Threads -> Hands']
         /\ cache \in [{"serve", "command"} -> 0..drawn']
<1>1. 0..drawn \subseteq 0..drawn' /\ -1..token \subseteq -1..token' BY NumbersType
<1>2. Content \subseteq Content' BY <1>1 DEF Content
<1>3. Hands \subseteq Hands' BY <1>1, <1>2 DEF Hands
<1>4. th \in [Threads -> Hands] BY DEF TypeOK, Hands
<1>5. file \in [Names -> Content] BY DEF TypeOK
<1>6. cache \in [{"serve", "command"} -> 0..drawn] BY DEF TypeOK
<1> QED BY <1>1, <1>2, <1>3, <1>4, <1>5, <1>6

LEMMA StepType ==
  ASSUME th \in [Threads -> Hands'], NEW t \in Threads, NEW h \in Hands', Step(t, h)
  PROVE  th' \in [Threads -> Hands']
BY DEF Step

\* What is known of thread t once the key k of its process is there.
LEMMA WithKeyHand ==
  ASSUME TypeOK, NEW t \in Threads, NEW k
  PROVE  \/ /\ th[t].op = "load" /\ Fits(t, k)
            /\ WithKey(t, k) = Hand("ok", "load", Absent, th[t].raw.tok, 0, Gone)
         \/ /\ th[t].op = "load" /\ InClear(t)
            /\ WithKey(t, k) = Hand("save", "load", Absent, th[t].raw.tok, 0, Gone)
         \/ /\ th[t].op = "load" /\ ~InClear(t)
            /\ WithKey(t, k) = Hand("error", "load", Absent, th[t].raw.tok, 0, Gone)
         \/ /\ th[t].op = "save"
            /\ WithKey(t, k) = Hand("save", "save", Absent, th[t].tok, 0, Gone)
<1>1. CASE th[t].op = "save" BY <1>1, OverHand DEF WithKey
<1>2. CASE th[t].op = "load"
  <2>1. WithKey(t, k) = Opened(t, k) BY <1>2 DEF WithKey
  <2>2. CASE Fits(t, k) BY <1>2, <2>1, <2>2, OverHand DEF Opened
  <2>3. CASE ~Fits(t, k) /\ InClear(t) BY <1>2, <2>1, <2>3, OverHand DEF Opened
  <2>4. CASE ~Fits(t, k) /\ ~InClear(t) BY <1>2, <2>1, <2>4, OverHand DEF Opened
  <2> QED BY <2>2, <2>3, <2>4
<1> QED BY <1>1, <1>2, HandType

LEMMA WithKeyType ==
  ASSUME TypeOK, NEW t \in Threads, NEW k
  PROVE  WithKey(t, k) \in Hands
<1>1. 0 \in 0..drawn /\ Gone \in Names \cup {Gone} /\ Absent \in Content
  BY NumbersType, MeansAbsent
<1>2. th[t].raw.tok \in -1..token /\ th[t].tok \in -1..token BY HandType
<1> QED BY <1>1, <1>2, WithKeyHand, MakeHand DEF Pcs

LEMMA OverType ==
  ASSUME TypeOK, NEW t \in Threads, NEW pc \in {"ok", "error"}
  PROVE  Over(t, pc) \in Hands
BY OverHand, HandType, NumbersType, MeansAbsent, MakeHand DEF Pcs

LEMMA IdleType == ASSUME TypeOK PROVE Idle \in Hands
BY IdleHand, NumbersType, MeansAbsent, MakeHand DEF Pcs

\* A call that begins.
LEMMA LoadType ==
  ASSUME TypeOK, NEW t \in Threads, Loads(t)
  PROVE  /\ th'[t] = Hand("key", "load", Session, 0, 0, Gone) /\ Others(t)
         /\ \A u \in Threads \ {t} : th'[u] = th[u]
         /\ th' \in [Threads -> Hands]
<1>1. [Idle EXCEPT !.pc = "key", !.raw = Session] = Hand("key", "load", Session, 0, 0, Gone)
  BY PicksHand
<1>2. Hand("key", "load", Session, 0, 0, Gone) \in Hands
  BY MakeHand, FileType, NumbersType DEF Pcs, Session, Names
<1>3. Step(t, Hand("key", "load", Session, 0, 0, Gone)) BY <1>1 DEF Loads
<1>4. th \in [Threads -> Hands] BY DEF TypeOK, Hands
<1> QED BY <1>2, <1>3, <1>4, StepMoves DEF Step

LEMMA SaveType ==
  ASSUME TypeOK, NEW t \in Threads, NEW tok \in 0..token', Saves(t, tok),
         th \in [Threads -> Hands'], drawn' = drawn, token' \in Nat
  PROVE  /\ th'[t] = Hand("key", "save", Absent, tok, 0, Gone) /\ Others(t)
         /\ \A u \in Threads \ {t} : th'[u] = th[u]
         /\ th' \in [Threads -> Hands']
<1>1. [Idle EXCEPT !.pc = "key", !.op = "save", !.tok = tok]
        = Hand("key", "save", Absent, tok, 0, Gone)
  BY ResultHand
<1>2. Hand("key", "save", Absent, tok, 0, Gone) \in Hands'
  <2>1. Absent \in Content' BY NumbersType DEF Content, Absent
  <2> QED BY <2>1, NumbersType DEF Hand, Hands, Pcs
<1>3. Step(t, Hand("key", "save", Absent, tok, 0, Gone)) BY <1>1 DEF Saves
<1> QED BY <1>2, <1>3, StepMoves, StepType

LEMMA StartsType ==
  ASSUME TypeOK, BootDaemon \/ Refresh \/ Status \/ Login \/ \E t \in Calls : Call(t)
  PROVE  TypeOK'
<1>0. /\ Boot \in Threads /\ Auth \in Threads /\ Cmd \in Threads /\ Calls \subseteq Threads
  BY ThreadsAssumption DEF Threads
<1>1. /\ drawn' = drawn /\ token' \in 0..MaxToken /\ token <= token' /\ token' \in Nat
      /\ cache' = cache /\ file' = file /\ UNCHANGED <<lost, faults>>
  BY NumbersType, BoundsAssumption DEF BootDaemon, Refresh, Status, Login, Call, rest
<1>2. /\ Content \subseteq Content' /\ Hands \subseteq Hands'
      /\ file' \in [Names -> Content'] /\ th \in [Threads -> Hands']
      /\ cache' \in [{"serve", "command"} -> 0..drawn']
  BY <1>1, Grow, NumbersType
<1>3. th' \in [Threads -> Hands']
  <2>1. CASE BootDaemon BY <2>1, <1>0, <1>2, LoadType DEF BootDaemon
  <2>2. CASE Status BY <2>2, <1>0, <1>2, LoadType DEF Status
  <2>3. CASE \E t \in Calls : Call(t) BY <2>3, <1>0, <1>2, LoadType DEF Call
  <2>4. CASE Refresh \/ Login
    <3>1. token + 1 \in 0..token' BY <2>4, NumbersType DEF Refresh, Login
    <3> QED BY <2>4, <3>1, <1>0, <1>1, <1>2, SaveType DEF Refresh, Login
  <2> QED BY <2>1, <2>2, <2>3, <2>4
<1>4. stray' \subseteq {"threads", "processes"}
  BY DEF TypeOK, BootDaemon, Refresh, Status, Login, Call, Meets
<1>5. up' \in {"off", "boot", "on"} /\ mem' \in (IF up' = "on" THEN 1 ELSE 0)..token'
  BY <1>1, NumbersType DEF TypeOK, BootDaemon, Refresh, Status, Login, Call
<1>6. lost' \in BOOLEAN /\ faults' \in 0..MaxFaults BY <1>1 DEF TypeOK
<1> QED BY <1>1, <1>2, <1>3, <1>4, <1>5, <1>6, TypesOf, NumbersType

\* A call that ends.
LEMMA EndedMoves ==
  ASSUME TypeOK, NEW p \in {"serve", "command"}, Ended(p)
  PROVE  /\ \A u \in Threads : th'[u] = IF Proc(u) = p THEN Idle ELSE th[u]
         /\ th' \in [Threads -> Hands]
         /\ cache' \in [{"serve", "command"} -> 0..drawn]
         /\ cache'[p] = 0 /\ \A q \in {"serve", "command"} \ {p} : cache'[q] = cache[q]
         /\ lost' \in BOOLEAN /\ up' \in {"off", "boot", "on"}
         /\ mem' \in (IF up' = "on" THEN 1 ELSE 0)..token
<1>1. \A u \in Threads : th'[u] = IF Proc(u) = p THEN Idle ELSE th[u] BY DEF Ended
<1>2. th' \in [Threads -> Hands]
  <2>1. \A u \in Threads : th[u] \in Hands BY HandType
  <2> QED BY <2>1, IdleType DEF Ended
<1>3. cache' \in [{"serve", "command"} -> 0..drawn]
  BY NumbersType DEF Ended, TypeOK
<1>4. cache'[p] = 0 /\ \A q \in {"serve", "command"} \ {p} : cache'[q] = cache[q]
  BY DEF Ended, TypeOK
<1>5. lost' \in BOOLEAN BY DEF Ended, TypeOK
<1>6. up' \in {"off", "boot", "on"} /\ mem' \in (IF up' = "on" THEN 1 ELSE 0)..token
  BY NumbersType DEF Ended, TypeOK
<1> QED BY <1>1, <1>2, <1>3, <1>4, <1>5, <1>6

LEMMA EndedType ==
  ASSUME TypeOK, NEW p \in {"serve", "command"}, Ended(p),
         UNCHANGED <<file, token, drawn, stray>>, faults' \in 0..MaxFaults
  PROVE  TypeOK'
<1>1. /\ Content = Content' /\ Hands = Hands' /\ file' \in [Names -> Content']
  BY DEF TypeOK, Content, Hands
<1>2. token' \in 0..MaxToken /\ drawn' \in Nat /\ stray' \subseteq {"threads", "processes"}
  BY DEF TypeOK
<1> QED BY <1>1, <1>2, EndedMoves, TypesOf

\* A thread of the daemon returns while it boots: the booting one, with a session.
LEMMA BootReturns ==
  ASSUME ThreadInv, NEW t \in Threads, t # Cmd, Busy(t)
  PROVE  up # "off" /\ (up = "boot" => t = Boot)
BY DEF ThreadInv, TypeOK, Lives

\* What a call that returns leaves: nothing in hand, and the daemon as it was (off
\* never) or, if the one that boots it has the session, serving.
LEMMA ReturnMoves ==
  ASSUME ThreadInv, NEW t \in Threads, Returns(t), ~Ended(Proc(t))
  PROVE  /\ t # Cmd /\ Busy(t) /\ th[t].pc \in {"ok", "error"}
         /\ Step(t, Idle) /\ up # "off" /\ (up = "boot" => t = Boot)
         /\ lost' = (lost \/ (th[t].pc = "error" /\ th[t].op = "save"))
         /\ UNCHANGED <<file, cache, token, drawn, stray, faults>>
         /\ \/ up' = up /\ mem' = mem
            \/ /\ up = "boot" /\ up' = "on" /\ mem' = th[t].tok
               /\ th[t].tok > 0 /\ cache["serve"] # 0
<1>1. th[t].pc \in {"ok", "error"} /\ Busy(t) BY DEF Returns, Busy
<1>2. /\ t # Cmd /\ Step(t, Idle)
      /\ lost' = (lost \/ (th[t].pc = "error" /\ th[t].op = "save"))
      /\ UNCHANGED <<file, cache, token, drawn, stray, faults>>
      /\ \/ up' = up /\ mem' = mem
         \/ up = "boot" /\ up' = "on" /\ mem' = th[t].tok /\ th[t].pc = "ok"
  BY DEF Returns
<1>3. up # "off" /\ (up = "boot" => t = Boot) BY <1>1, <1>2, BootReturns
<1>4. th[t].pc = "ok" => th[t].tok > 0 /\ cache["serve"] # 0
  BY <1>2 DEF ThreadInv, HasSession, Proc
<1> QED BY <1>1, <1>2, <1>3, <1>4

LEMMA ReturnsType ==
  ASSUME ThreadInv, NEW t \in Threads, Returns(t)
  PROVE  TypeOK'
<1>0. TypeOK /\ Proc(t) \in {"serve", "command"} BY DEF ThreadInv, Proc
<1>1. CASE Ended(Proc(t)) BY <1>0, <1>1, EndedType DEF Returns, TypeOK
<1>2. CASE ~Ended(Proc(t))
  <2>1. /\ Step(t, Idle) /\ up # "off"
        /\ lost' = (lost \/ (th[t].pc = "error" /\ th[t].op = "save"))
        /\ UNCHANGED <<file, cache, token, drawn, stray, faults>>
        /\ \/ up' = up /\ mem' = mem
           \/ up' = "on" /\ mem' = th[t].tok /\ th[t].tok > 0
    BY <1>2, ReturnMoves
  <2>2. th[t].tok \in -1..token /\ token \in Nat BY <1>0, HandType, NumbersType
  <2>3. up' \in {"off", "boot", "on"} BY <1>0, <2>1 DEF TypeOK
  <2>5. mem' \in (IF up' = "on" THEN 1 ELSE 0)..token
    <3>1. CASE up' = up /\ mem' = mem BY <1>0, <3>1 DEF TypeOK
    <3>2. CASE up' = "on" /\ mem' = th[t].tok /\ th[t].tok > 0 BY <2>2, <3>2
    <3> QED BY <2>1, <3>1, <3>2
  <2>6. Content = Content' /\ Hands = Hands' BY <2>1 DEF Content, Hands
  <2>7. th' \in [Threads -> Hands]
    BY <1>0, <2>1, IdleType DEF Step, TypeOK, Hands
  <2>8. lost' \in BOOLEAN BY <1>0, <2>1 DEF TypeOK
  <2>9. /\ file' \in [Names -> Content] /\ cache' \in [{"serve", "command"} -> 0..drawn']
        /\ token' \in 0..MaxToken /\ drawn' \in Nat /\ stray' \subseteq {"threads", "processes"}
        /\ faults' \in 0..MaxFaults
    BY <1>0, <2>1 DEF TypeOK
  <2> QED BY <1>0, <2>1, <2>3, <2>5, <2>6, <2>7, <2>8, <2>9, TypesOf
<1> QED BY <1>1, <1>2

LEMMA FaultType == TypeOK /\ Fault => faults' \in 0..MaxFaults
BY BoundsAssumption DEF TypeOK, Fault

\* All the other steps of a thread keep what is not its own.
LEMMA WorkType ==
  ASSUME TypeOK, NEW t \in Threads,
         UNCHANGED local, faults' \in 0..MaxFaults, stray' = stray \/ Late(t),
         drawn' \in Nat, drawn <= drawn',
         file' \in [Names -> Content'], th' \in [Threads -> Hands'],
         cache' \in [{"serve", "command"} -> 0..drawn']
  PROVE  TypeOK'
<1>1. /\ up' \in {"off", "boot", "on"} /\ token' \in 0..MaxToken /\ lost' \in BOOLEAN
      /\ mem' \in (IF up' = "on" THEN 1 ELSE 0)..token'
  BY DEF TypeOK, local
<1>2. stray' \subseteq {"threads", "processes"} BY DEF Late, TypeOK
<1> QED BY <1>1, <1>2, TypesOf

LEMMA Sames ==
  ASSUME TypeOK, UNCHANGED <<drawn, local>>
  PROVE  /\ Content' = Content /\ Hands' = Hands /\ drawn' \in Nat /\ drawn <= drawn'
         /\ file \in [Names -> Content] /\ th \in [Threads -> Hands]
         /\ cache \in [{"serve", "command"} -> 0..drawn'] /\ faults \in 0..MaxFaults
BY NumbersType DEF TypeOK, Content, Hands, local

LEMMA FailsType ==
  ASSUME TypeOK, NEW t \in Threads, Fails(t)
  PROVE  TypeOK'
<1>1. faults' \in 0..MaxFaults /\ UNCHANGED <<file, cache, drawn, stray, local>>
  BY FaultType DEF Fails
<1>2. th' \in [Threads -> Hands] BY <1>1, Sames, OverType DEF Fails, Step
<1> QED BY <1>1, <1>2, Sames, WorkType

\* A file that is written or opened.
LEMMA WriteMoves ==
  ASSUME TypeOK, NEW t \in Threads, NEW c \in Content, NEW next \in Pcs, Write(t, c, next)
  PROVE  /\ th'[t] = Hand(next, th[t].op, th[t].raw, th[t].tok, th[t].new, th[t].fd)
         /\ Others(t) /\ \A u \in Threads \ {t} : th'[u] = th[u]
         /\ th' \in [Threads -> Hands] /\ file' \in [Names -> Content]
         /\ \A n \in Names : file'[n] = IF n = th[t].fd THEN c ELSE file[n]
<1>1. th[t].fd \in Names \cup {Gone} /\ Gone \notin Names BY HandType DEF Gone, Names
<1>2. /\ file' \in [Names -> Content]
      /\ \A n \in Names : file'[n] = IF n = th[t].fd THEN c ELSE file[n]
  BY <1>1 DEF Write, TypeOK
<1>3. [th[t] EXCEPT !.pc = next]
        = Hand(next, th[t].op, th[t].raw, th[t].tok, th[t].new, th[t].fd)
  BY PcHand
<1>4. Hand(next, th[t].op, th[t].raw, th[t].tok, th[t].new, th[t].fd) \in Hands
  BY HandType, MakeHand
<1>5. Step(t, Hand(next, th[t].op, th[t].raw, th[t].tok, th[t].new, th[t].fd))
  BY <1>3 DEF Write
<1>6. th \in [Threads -> Hands] BY DEF TypeOK, Hands
<1> QED BY <1>2, <1>4, <1>5, <1>6, StepMoves DEF Step

LEMMA RenameTypes ==
  ASSUME TypeOK, NEW t \in Threads, NEW h \in Hands, NEW tmp \in Names, NEW name \in Names,
         tmp # name, Rename(t, tmp, name, h)
  PROVE  th' \in [Threads -> Hands] /\ file' \in [Names -> Content]
<1>1. file' \in [Names -> Content] BY MeansAbsent DEF Rename, TypeOK
<1>2. ASSUME NEW u \in Threads
      PROVE  /\ th[u] \in Hands
             /\ [th[u] EXCEPT !.fd = name] \in Hands /\ [th[u] EXCEPT !.fd = Gone] \in Hands
  <2>1. ASSUME NEW f \in Names \cup {Gone} PROVE [th[u] EXCEPT !.fd = f] \in Hands
    <3>1. Hand(th[u].pc, th[u].op, th[u].raw, th[u].tok, th[u].new, f) \in Hands
      BY HandType, MakeHand
    <3> QED BY <3>1, FdHand
  <2> QED BY <2>1, HandType
<1> QED BY <1>1, <1>2 DEF Rename

LEMMA KeyFoundType ==
  ASSUME TypeOK, NEW t \in Threads, KeyFound(t)
  PROVE  TypeOK'
<1>1. UNCHANGED <<file, drawn, local, faults>> /\ Late(t) BY DEF KeyFound
<1>2. /\ th' \in [Threads -> Hands] /\ cache' \in [{"serve", "command"} -> 0..drawn]
  <2>1. th \in [Threads -> Hands] /\ cache \in [{"serve", "command"} -> 0..drawn]
    BY DEF TypeOK, Hands
  <2>2. ASSUME NEW k \in 0..drawn, KeyLoaded(t, k)
        PROVE  th' \in [Threads -> Hands] /\ cache' \in [{"serve", "command"} -> 0..drawn]
    BY <2>1, <2>2, WithKeyType, NumbersType DEF KeyLoaded, Step
  <2>3. cache[Proc(t)] \in 0..drawn /\ Key.key \in 0..drawn
    BY NumbersType, FileType DEF Key, Names
  <2> QED BY <2>1, <2>2, <2>3, OverType DEF KeyFound, Step
<1> QED BY <1>1, <1>2, Sames, WorkType

LEMMA KeyDrawnMoves ==
  ASSUME TypeOK, NEW t \in Threads, KeyDrawn(t)
  PROVE  /\ th'[t] = Hand("newkey", th[t].op, th[t].raw, th[t].tok, drawn + 1, ".atrest.key.tmp")
         /\ Others(t) /\ \A u \in Threads \ {t} : th'[u] = th[u]
         /\ th' \in [Threads -> Hands'] /\ file' \in [Names -> Content']
         /\ file'[".atrest.key.tmp"] = Empty
         /\ \A n \in Names \ {".atrest.key.tmp"} : file'[n] = file[n]
<1> DEFINE h == Hand("newkey", th[t].op, th[t].raw, th[t].tok, drawn + 1, ".atrest.key.tmp")
<1>1. Step(t, h)
  <2> DEFINE new == drawn + 1
  <2> HIDE DEF new
  <2>1. [[th[t] EXCEPT !.pc = "newkey", !.new = new] EXCEPT !.fd = ".atrest.key.tmp"]
          = Hand("newkey", th[t].op, th[t].raw, th[t].tok, new, ".atrest.key.tmp")
    BY DrawsHand
  <2> QED BY <2>1 DEF KeyDrawn, Truncate, new
<1>2. drawn' = drawn + 1 /\ token' = token BY DEF KeyDrawn, local
<1>3. /\ Content \subseteq Content' /\ Hands \subseteq Hands'
      /\ file \in [Names -> Content'] /\ th \in [Threads -> Hands']
  BY <1>2, Grow, NumbersType
<1>4. h \in Hands'
  <2>1. th[t].raw \in Content' /\ drawn + 1 \in 0..drawn' BY <1>2, <1>3, HandType, NumbersType
  <2> QED BY <1>2, <2>1, HandType DEF Hand, Hands, Pcs, Names
<1>5. Empty \in Content' BY <1>3, MeansAbsent
<1>6. /\ file' \in [Names -> Content'] /\ file'[".atrest.key.tmp"] = Empty
      /\ \A n \in Names \ {".atrest.key.tmp"} : file'[n] = file[n]
  BY <1>3, <1>5 DEF KeyDrawn, Truncate, Names
<1> HIDE DEF h
<1>7. th'[t] = h /\ Others(t) /\ \A u \in Threads \ {t} : th'[u] = th[u]
  BY <1>1, StepMoves
<1>8. th' \in [Threads -> Hands'] BY <1>1, <1>3, <1>4, StepType
<1> QED BY <1>6, <1>7, <1>8 DEF h

LEMMA KeyDrawnType ==
  ASSUME TypeOK, NEW t \in Threads, KeyDrawn(t)
  PROVE  TypeOK'
<1>1. drawn' = drawn + 1 /\ UNCHANGED <<cache, stray, local, faults>> BY DEF KeyDrawn
<1>2. /\ cache' \in [{"serve", "command"} -> 0..drawn'] /\ faults' \in 0..MaxFaults
      /\ drawn' \in Nat /\ drawn <= drawn'
  <2>1. token' = token BY <1>1 DEF local
  <2> QED BY <1>1, <2>1, Grow, NumbersType DEF TypeOK
<1> QED BY <1>1, <1>2, KeyDrawnMoves, WorkType

LEMMA KeyWrittenMoves ==
  ASSUME TypeOK, NEW t \in Threads, KeyWritten(t)
  PROVE  /\ th'[t] = Hand("placekey", th[t].op, th[t].raw, th[t].tok, th[t].new, th[t].fd)
         /\ Others(t) /\ \A u \in Threads \ {t} : th'[u] = th[u]
         /\ th' \in [Threads -> Hands] /\ file' \in [Names -> Content]
         /\ \A n \in Names : file'[n] = IF n = th[t].fd THEN [key |-> th[t].new, tok |-> 0]
                                        ELSE file[n]
<1>1. [key |-> th[t].new, tok |-> 0] \in Content BY MakeContent, HandType, NumbersType
<1>2. "placekey" \in Pcs BY DEF Pcs
<1> QED BY <1>1, <1>2, WriteMoves DEF KeyWritten

LEMMA KeyPlacedMoves ==
  ASSUME TypeOK, NEW t \in Threads, KeyPlaced(t)
  PROVE  /\ th'[t] = WithKey(t, th[t].new) /\ Others(t)
         /\ \A u \in Threads \ {t} :
              th'[u].fd = Moved(th[u].fd, ".atrest.key.tmp", ".atrest.key")
         /\ file'[".atrest.key"] = file[".atrest.key.tmp"] /\ file'[".atrest.key.tmp"] = Absent
         /\ \A n \in SessionNames : file'[n] = file[n]
         /\ th' \in [Threads -> Hands] /\ file' \in [Names -> Content]
         /\ cache' \in [{"serve", "command"} -> 0..drawn]
         /\ \A p \in {"serve", "command"} :
              cache'[p] = IF p = Proc(t) THEN th[t].new ELSE cache[p]
<1>1. WithKey(t, th[t].new) \in Hands BY WithKeyType
<1>2. Rename(t, ".atrest.key.tmp", ".atrest.key", WithKey(t, th[t].new)) BY DEF KeyPlaced
<1>3. th' \in [Threads -> Hands] /\ file' \in [Names -> Content]
  BY <1>1, <1>2, RenameTypes DEF Names
<1>4. /\ cache' \in [{"serve", "command"} -> 0..drawn]
      /\ \A p \in {"serve", "command"} :
           cache'[p] = IF p = Proc(t) THEN th[t].new ELSE cache[p]
  BY HandType, NumbersType DEF KeyPlaced, TypeOK
<1>5. \A n \in SessionNames : n \in Names \ {".atrest.key.tmp", ".atrest.key"}
  BY DEF SessionNames, Names
<1>6. ".atrest.key.tmp" \in Names /\ ".atrest.key" \in Names BY DEF Names
<1>7. /\ th'[t] = WithKey(t, th[t].new) /\ Others(t)
      /\ \A u \in Threads \ {t} :
              th'[u].fd = Moved(th[u].fd, ".atrest.key.tmp", ".atrest.key")
      /\ file'[".atrest.key"] = file[".atrest.key.tmp"] /\ file'[".atrest.key.tmp"] = Absent
      /\ \A n \in Names \ {".atrest.key.tmp", ".atrest.key"} : file'[n] = file[n]
  BY <1>2, <1>6, RenameMoves
<1> QED BY <1>3, <1>4, <1>5, <1>7

LEMMA KeyRereadType ==
  ASSUME TypeOK, NEW t \in Threads, KeyReread(t)
  PROVE  TypeOK'
<1>1. UNCHANGED <<file, drawn, local, faults>> /\ Late(t) BY DEF KeyReread
<1>2. /\ th' \in [Threads -> Hands] /\ cache' \in [{"serve", "command"} -> 0..drawn]
  <2>1. th \in [Threads -> Hands] /\ cache \in [{"serve", "command"} -> 0..drawn]
    BY DEF TypeOK, Hands
  <2>2. Key.key \in 0..drawn BY FileType DEF Key, Names
  <2> QED BY <2>1, <2>2, WithKeyType, OverType, NumbersType DEF KeyReread, KeyLoaded, Step
<1> QED BY <1>1, <1>2, Sames, WorkType

LEMMA SaveStartsMoves ==
  ASSUME TypeOK, NEW t \in Threads, SaveStarts(t)
  PROVE  /\ th'[t] = Hand("write", th[t].op, th[t].raw, th[t].tok, th[t].new, "session.json.tmp")
         /\ Others(t) /\ \A u \in Threads \ {t} : th'[u] = th[u]
         /\ th' \in [Threads -> Hands] /\ file' \in [Names -> Content]
         /\ file'["session.json.tmp"] = Empty
         /\ \A n \in Names \ {"session.json.tmp"} : file'[n] = file[n]
<1> DEFINE h == Hand("write", th[t].op, th[t].raw, th[t].tok, th[t].new, "session.json.tmp")
<1>1. Step(t, h)
  <2>1. [[th[t] EXCEPT !.pc = "write"] EXCEPT !.fd = "session.json.tmp"] = h BY OpensHand
  <2> QED BY <2>1 DEF SaveStarts, Truncate
<1>2. h \in Hands BY HandType, MakeHand DEF Pcs, Names
<1>3. /\ file' \in [Names -> Content] /\ file'["session.json.tmp"] = Empty
      /\ \A n \in Names \ {"session.json.tmp"} : file'[n] = file[n]
  BY MeansAbsent DEF SaveStarts, Truncate, Names, TypeOK
<1> HIDE DEF h
<1>4. th \in [Threads -> Hands] BY DEF TypeOK, Hands
<1>5. th'[t] = h /\ Others(t) /\ \A u \in Threads \ {t} : th'[u] = th[u]
  BY <1>1, StepMoves
<1>6. th' \in [Threads -> Hands] BY <1>1, <1>2, <1>4 DEF Step
<1> QED BY <1>3, <1>5, <1>6 DEF h

LEMMA SaveWritesMoves ==
  ASSUME TypeOK, NEW t \in Threads, SaveWrites(t)
  PROVE  /\ th'[t] = Hand("rename", th[t].op, th[t].raw, th[t].tok, th[t].new, th[t].fd)
         /\ Others(t) /\ \A u \in Threads \ {t} : th'[u] = th[u]
         /\ th' \in [Threads -> Hands] /\ file' \in [Names -> Content]
         /\ \A n \in Names : file'[n] = IF n = th[t].fd
                                        THEN [key |-> cache[Proc(t)], tok |-> th[t].tok]
                                        ELSE file[n]
<1>1. [key |-> cache[Proc(t)], tok |-> th[t].tok] \in Content
  BY MakeContent, HandType, NumbersType
<1>2. "rename" \in Pcs BY DEF Pcs
<1> QED BY <1>1, <1>2, WriteMoves DEF SaveWrites

LEMMA SaveRenamesMoves ==
  ASSUME TypeOK, NEW t \in Threads, SaveRenames(t)
  PROVE  /\ th'[t] = Hand("ok", th[t].op, Absent, th[t].tok, 0, Gone) /\ Others(t)
         /\ \A u \in Threads \ {t} :
              th'[u].fd = Moved(th[u].fd, "session.json.tmp", "session.json")
         /\ file["session.json.tmp"] # Absent
         /\ file'["session.json"] = file["session.json.tmp"]
         /\ file'["session.json.tmp"] = Absent
         /\ \A n \in KeyNames : file'[n] = file[n]
         /\ th' \in [Threads -> Hands] /\ file' \in [Names -> Content]
<1>1. Rename(t, "session.json.tmp", "session.json", Over(t, "ok")) BY DEF SaveRenames
<1>2. "session.json.tmp" \in Names /\ "session.json" \in Names BY DEF Names
<1>3. th' \in [Threads -> Hands] /\ file' \in [Names -> Content]
  BY <1>1, <1>2, RenameTypes, OverType
<1>4. \A n \in KeyNames : n \in Names \ {"session.json.tmp", "session.json"}
  BY DEF KeyNames, Names
<1>5. file["session.json.tmp"] # Absent BY <1>1 DEF Rename
<1>6. /\ th'[t] = Over(t, "ok") /\ Others(t)
      /\ \A u \in Threads \ {t} :
              th'[u].fd = Moved(th[u].fd, "session.json.tmp", "session.json")
      /\ file'["session.json"] = file["session.json.tmp"] /\ file'["session.json.tmp"] = Absent
      /\ \A n \in Names \ {"session.json.tmp", "session.json"} : file'[n] = file[n]
  <2> DEFINE h == Over(t, "ok")
  <2> HIDE DEF h
  <2>1. Rename(t, "session.json.tmp", "session.json", h) BY <1>1 DEF h
  <2>2. th'[t] = h BY <1>2, <2>1, RenameMoves
  <2> QED BY <1>2, <2>1, <2>2, RenameMoves DEF h
<1>7. Over(t, "ok") = Hand("ok", th[t].op, Absent, th[t].tok, 0, Gone) BY OverHand
<1> QED BY <1>3, <1>4, <1>5, <1>6, <1>7

LEMMA ThreadType ==
  ASSUME ThreadInv, NEW t \in Threads, Thread(t)
  PROVE  TypeOK'
<1>0. TypeOK BY DEF ThreadInv
<1>1. CASE Returns(t) BY <1>1, ReturnsType
<1>2. CASE KeyFound(t) BY <1>0, <1>2, KeyFoundType
<1>3. CASE KeyDrawn(t) BY <1>0, <1>3, KeyDrawnType
<1>4. CASE KeyWritten(t)
  <2>1. UNCHANGED <<cache, drawn, stray, local, faults>> BY <1>4 DEF KeyWritten
  <2> QED BY <1>0, <1>4, <2>1, KeyWrittenMoves, Sames, WorkType
<1>5. CASE KeyPlaced(t)
  <2>1. UNCHANGED <<drawn, local, faults>> /\ Late(t) BY <1>5 DEF KeyPlaced
  <2> QED BY <1>0, <1>5, <2>1, KeyPlacedMoves, Sames, WorkType
<1>6. CASE KeyReread(t) BY <1>0, <1>6, KeyRereadType
<1>7. CASE SaveStarts(t)
  <2>1. UNCHANGED <<cache, drawn, stray, local, faults>> BY <1>7 DEF SaveStarts
  <2> QED BY <1>0, <1>7, <2>1, SaveStartsMoves, Sames, WorkType
<1>8. CASE SaveWrites(t)
  <2>1. UNCHANGED <<cache, drawn, stray, local, faults>> BY <1>8 DEF SaveWrites
  <2> QED BY <1>0, <1>8, <2>1, SaveWritesMoves, Sames, WorkType
<1>9. CASE SaveRenames(t)
  <2>1. UNCHANGED <<cache, drawn, stray, local, faults>> BY <1>9 DEF SaveRenames
  <2> QED BY <1>0, <1>9, <2>1, SaveRenamesMoves, Sames, WorkType
<1>10. CASE SaveLosesTmp(t)
  <2>1. UNCHANGED <<file, cache, drawn, stray, local, faults>> BY <1>10 DEF SaveLosesTmp
  <2>2. th' \in [Threads -> Hands] BY <1>0, <1>10, <2>1, Sames, OverType DEF SaveLosesTmp, Step
  <2> QED BY <1>0, <2>1, <2>2, Sames, WorkType
<1> QED BY <1>1, <1>2, <1>3, <1>4, <1>5, <1>6, <1>7, <1>8, <1>9, <1>10 DEF Thread

-----------------------------------------------------------------------------
(* ThreadInv is inductive. *)

LEMMA Members ==
  /\ Boot \in Threads /\ Auth \in Threads /\ Cmd \in Threads /\ Calls \subseteq Threads
  /\ Proc(Cmd) = "command" /\ \A t \in Threads \ {Cmd} : Proc(t) = "serve"
  /\ Boot # Auth /\ Boot # Cmd /\ Auth # Cmd
  /\ \A t \in Threads : t \in Calls \/ t = Auth \/ t = Cmd
BY ThreadsAssumption DEF Threads, Proc

LEMMA InitFiles ==
  ASSUME Init
  PROVE  /\ token \in 0..MaxToken /\ drawn \in Nat
         /\ file \in [Names -> Content]
         /\ file[".atrest.key.tmp"] = Absent /\ file["session.json.tmp"] = Absent
         /\ \/ Session = Absent /\ token = 0 /\ Key = Absent
            \/ /\ Session.tok = token /\ token = 1 /\ Session.key = Key.key
               /\ Key = Absent \/ IsSealed(Key)
<1>1. PICK key \in {0, 1}, tok \in {0, 1} :
        /\ key <= tok /\ token = tok /\ drawn = key
        /\ file = Files(IF key = 0 THEN Absent ELSE [key |-> key, tok |-> 0],
                        IF tok = 0 THEN Absent ELSE [key |-> key, tok |-> tok])
  BY DEF Init
<1> DEFINE k == IF key = 0 THEN Absent ELSE [key |-> key, tok |-> 0]
           s == IF tok = 0 THEN Absent ELSE [key |-> key, tok |-> tok]
<1>2. /\ k \in Content /\ s \in Content /\ Absent \in Content
  BY <1>1 DEF Content, Absent
<1>3. /\ (k = Absent /\ key = 0) \/ (k.key = key /\ key # 0)
      /\ (s = Absent /\ tok = 0) \/ (s.tok = tok /\ tok = 1 /\ s.key = key)
      /\ Absent.key = 0
  BY DEF Absent
<1> HIDE DEF k, s
<1>4. file = Files(k, s) BY <1>1 DEF k, s
<1>5. /\ file \in [Names -> Content] /\ Key = k /\ Session = s
      /\ file[".atrest.key.tmp"] = Absent /\ file["session.json.tmp"] = Absent
  BY <1>2, <1>4 DEF Files, Names, Key, Session
<1>6. token \in 0..MaxToken /\ drawn \in Nat BY <1>1, BoundsAssumption
<1> QED BY <1>1, <1>3, <1>5, <1>6 DEF IsSealed

LEMMA InitThread == Init => ThreadInv
<1> SUFFICES ASSUME Init PROVE ThreadInv OBVIOUS
<1>1. /\ Idle.pc = "idle" /\ Idle.op = "load" /\ Idle.raw = Absent /\ Absent.key = 0
      /\ Idle = Hand("idle", "load", Absent, 0, 0, Gone)
  BY IdleHand DEF Idle, Absent
<1>2. \A t \in Threads : th[t] = Idle BY DEF Init
<1>3. TypeOK
  <2>1. Idle \in Hands
    BY <1>1, InitFiles DEF Hand, Hands, Content, Absent, Pcs
  <2>2. th \in [Threads -> Hands] BY <2>1 DEF Init
  <2>3. cache \in [{"serve", "command"} -> 0..drawn] BY InitFiles DEF Init
  <2>5. lost \in BOOLEAN BY DEF Init
  <2>4. /\ up \in {"off", "boot", "on"} /\ mem \in (IF up = "on" THEN 1 ELSE 0)..token
        /\ stray \subseteq {"threads", "processes"} /\ faults \in 0..MaxFaults
    BY InitFiles, BoundsAssumption DEF Init
  <2> QED BY <2>2, <2>3, <2>4, <2>5, InitFiles DEF TypeOK, Hands
<1>4. SealedWhole
  <2>1. \A n \in SessionNames : IsSealed(file[n]) => file[n].tok > 0
    BY <1>1, InitFiles DEF SessionNames, IsSealed, Session
  <2> QED BY <1>1, <1>2, <2>1 DEF SealedWhole, IsSealed
<1>5. HasSession /\ OpensOwn /\ DrawsAlone
  BY <1>1, <1>2 DEF HasSession, OpensOwn, DrawsAlone, Drawing, Busy, Writing
<1>6. Lives BY <1>1, <1>2, Members DEF Init, Lives, Busy
<1> QED BY <1>3, <1>4, <1>5, <1>6 DEF ThreadInv

\* A thread whose call begins.
LEMMA BeginsThread ==
  ASSUME ThreadInv, TypeOK', NEW t \in Threads, NEW op, NEW raw, NEW tok,
         th'[t] = Hand("key", op, raw, tok, 0, Gone), \A u \in Threads \ {t} : th'[u] = th[u],
         file' = file, cache' = cache, IsSealed(raw) => raw.tok > 0,
         op = "save" => tok > 0 /\ t \in {Auth, Cmd}, t = Auth => op = "save", Lives'
  PROVE  ThreadInv'
<1>1. /\ th'[t].pc = "key" /\ th'[t].op = op /\ th'[t].raw = raw /\ th'[t].tok = tok
  BY HandFields
<1>2. SealedWhole' BY <1>1 DEF ThreadInv, SealedWhole
<1>3. HasSession' BY <1>1 DEF ThreadInv, HasSession, Busy, Writing
<1>4. OpensOwn' BY <1>1 DEF ThreadInv, OpensOwn
<1>5. DrawsAlone' BY <1>1 DEF ThreadInv, DrawsAlone, Drawing
<1> QED BY <1>2, <1>3, <1>4, <1>5 DEF ThreadInv

LEMMA StartsThread ==
  ASSUME ThreadInv, BootDaemon \/ Refresh \/ Status \/ Login \/ \E t \in Calls : Call(t)
  PROVE  ThreadInv'
<1>1. TypeOK' /\ TypeOK BY StartsType DEF ThreadInv
<1>2. UNCHANGED <<file, cache, drawn>>
  BY DEF BootDaemon, Refresh, Status, Login, Call, rest
<1>3. IsSealed(Session) => Session.tok > 0
  BY DEF ThreadInv, SealedWhole, Session, SessionNames
<1>4. ASSUME NEW t \in Threads, Loads(t), t # Auth, Lives' PROVE ThreadInv'
  <2>1. /\ th'[t] = Hand("key", "load", Session, 0, 0, Gone)
        /\ \A u \in Threads \ {t} : th'[u] = th[u]
    BY <1>1, <1>4, LoadType
  <2> QED BY <1>1, <1>2, <1>3, <1>4, <2>1, BeginsThread
<1>5. ASSUME NEW t \in {Auth, Cmd}, Saves(t, token + 1), token' = token + 1, Lives'
      PROVE  ThreadInv'
  <2>1. token + 1 \in 0..token' /\ token + 1 > 0 /\ token' \in Nat /\ token <= token'
    BY <1>1, <1>5, NumbersType
  <2>2. th \in [Threads -> Hands'] BY <1>1, <1>2, <2>1, Grow, NumbersType
  <2>3. /\ th'[t] = Hand("key", "save", Absent, token + 1, 0, Gone)
        /\ \A u \in Threads \ {t} : th'[u] = th[u]
    BY <1>1, <1>2, <1>5, <2>1, <2>2, SaveType, Members
  <2>4. ~IsSealed(Absent) BY DEF IsSealed, Absent
  <2> QED BY <1>1, <1>2, <1>5, <2>1, <2>3, <2>4, BeginsThread, Members
<1>6. CASE BootDaemon
  <2>1. \A u \in Threads \ {Boot} : th'[u] = th[u] BY <1>1, <1>6, LoadType, Members DEF BootDaemon
  <2>2. Lives' BY <1>2, <1>6, <2>1, Members DEF BootDaemon, ThreadInv, Lives, Busy, Session
  <2> QED BY <1>4, <1>6, <2>2, Members DEF BootDaemon
<1>7. CASE Status
  <2>1. \A u \in Threads \ {Cmd} : th'[u] = th[u] BY <1>1, <1>7, LoadType, Members DEF Status
  <2>2. Lives' BY <1>2, <1>7, <2>1, Members DEF Status, ThreadInv, Lives, Busy, Session
  <2> QED BY <1>4, <1>7, <2>2, Members DEF Status
<1>8. CASE \E t \in Calls : Call(t)
  <2>1. PICK t \in Calls : Call(t) BY <1>8
  <2>2. Lives' BY <1>2, <2>1 DEF Call, ThreadInv, Lives, Session
  <2> QED BY <1>4, <2>1, <2>2, ThreadsAssumption, Members DEF Call
<1>9. CASE Refresh
  <2>1. Lives' BY <1>2, <1>9 DEF Refresh, ThreadInv, Lives, Session
  <2> QED BY <1>5, <1>9, <2>1 DEF Refresh
<1>10. CASE Login
  <2>1. \A u \in Threads \ {Cmd} : th'[u] = th[u]
    BY <1>10, StepMoves, Members, <1>1 DEF Login, Saves
  <2>2. Lives' BY <1>2, <1>10, <2>1, Members DEF Login, ThreadInv, Lives, Busy, Session
  <2> QED BY <1>5, <1>10, <2>2 DEF Login
<1> QED BY <1>6, <1>7, <1>8, <1>9, <1>10

LEMMA EndedThread ==
  ASSUME ThreadInv, TypeOK', NEW p \in {"serve", "command"}, Ended(p), file' = file
  PROVE  ThreadInv'
<1>0. TypeOK BY DEF ThreadInv
<1>1. /\ Idle.pc = "idle" /\ Idle.op = "load" /\ ~IsSealed(Idle.raw)
  BY DEF Idle, IsSealed, Absent
<1>2. /\ \A u \in Threads : th'[u] = IF Proc(u) = p THEN Idle ELSE th[u]
      /\ cache'[p] = 0 /\ \A q \in {"serve", "command"} \ {p} : cache'[q] = cache[q]
  BY <1>0, EndedMoves
<1>3. \A u \in Threads : Proc(u) \in {"serve", "command"} BY DEF Proc
<1>4. SealedWhole' BY <1>1, <1>2 DEF ThreadInv, SealedWhole
<1>5. HasSession' BY <1>1, <1>2, <1>3 DEF ThreadInv, HasSession, Busy, Writing
<1>6. OpensOwn' BY <1>1, <1>2 DEF ThreadInv, OpensOwn
<1>7. DrawsAlone' BY <1>1, <1>2, <1>3 DEF ThreadInv, DrawsAlone, Drawing
<1>8. Lives'
  <2>1. CASE p = "serve"
    <3>1. up' = "off" /\ \A u \in Threads \ {Cmd} : ~Busy(u)'
      BY <1>1, <1>2, <2>1, Members DEF Ended, Busy
    <3> QED BY <3>1, Members DEF Lives
  <2>2. CASE p = "command"
    <3>1. up' = up /\ cache'["serve"] = cache["serve"] BY <1>2, <2>2 DEF Ended
    <3>2. \A u \in Threads \ {Cmd} : th'[u] = th[u] BY <1>2, <2>2, Members
    <3> QED BY <3>1, <3>2, Members DEF ThreadInv, Lives, Busy, Session
  <2> QED BY <2>1, <2>2
<1> QED BY <1>4, <1>5, <1>6, <1>7, <1>8 DEF ThreadInv

LEMMA ReturnsThread ==
  ASSUME ThreadInv, NEW t \in Threads, Returns(t)
  PROVE  ThreadInv'
<1>0. TypeOK /\ TypeOK' /\ Proc(t) \in {"serve", "command"}
  BY ReturnsType DEF ThreadInv, Proc
<1>1. CASE Ended(Proc(t)) BY <1>0, <1>1, EndedThread DEF Returns
<1>2. CASE ~Ended(Proc(t))
  <2>1. /\ t # Cmd /\ Busy(t) /\ Step(t, Idle) /\ UNCHANGED <<file, cache>>
        /\ up # "off" /\ (up = "boot" => t = Boot)
        /\ \/ up' = up
           \/ up' = "on" /\ cache["serve"] # 0
    BY <1>2, ReturnMoves
  <2>2. /\ Idle.pc = "idle" /\ Idle.op = "load" /\ ~IsSealed(Idle.raw)
    BY DEF Idle, IsSealed, Absent
  <2>3. th'[t] = Idle /\ \A u \in Threads \ {t} : th'[u] = th[u]
    BY <1>0, <2>1, StepMoves
  <2>4. SealedWhole' BY <2>1, <2>2, <2>3 DEF ThreadInv, SealedWhole
  <2>5. HasSession' BY <2>1, <2>2, <2>3 DEF ThreadInv, HasSession, Busy, Writing
  <2>6. OpensOwn' BY <2>2, <2>3 DEF ThreadInv, OpensOwn
  <2>7. DrawsAlone' BY <2>1, <2>2, <2>3 DEF ThreadInv, DrawsAlone, Drawing
  <2>8. Lives'
    <3>1. CASE up' = up BY <2>1, <2>2, <2>3, <3>1 DEF ThreadInv, Lives, Session, Busy
    <3>2. CASE up' = "on" /\ cache["serve"] # 0
      BY <2>1, <3>2 DEF ThreadInv, Lives, Session
    <3> QED BY <2>1, <3>1, <3>2
  <2> QED BY <1>0, <2>4, <2>5, <2>6, <2>7, <2>8 DEF ThreadInv
<1> QED BY <1>1, <1>2

\* A thread that works on its call: what any such step keeps.
Works(t) ==
  /\ Others(t) /\ Busy(t) /\ th'[t].pc # "idle" /\ up' = up
  /\ th'[t].op = th[t].op /\ th'[t].raw \in {th[t].raw, Absent}
  /\ th[t].op = "save" => th'[t].tok = th[t].tok
  /\ \A p \in {"serve", "command"} : cache[p] # 0 => cache'[p] = cache[p]

LEMMA WorkThread ==
  ASSUME ThreadInv, TypeOK', NEW t \in Threads, Works(t),
         th'[t].pc \in Writing \cup {"ok"} => th'[t].tok > 0 /\ cache'[Proc(t)] # 0,
         \A n \in SessionNames : IsSealed(file'[n]) => file'[n].tok > 0,
         Session # Absent => Session' # Absent,
         OpensOwn', DrawsAlone'
  PROVE  ThreadInv'
<1>1. ~IsSealed(Absent) BY DEF IsSealed, Absent
<1>2. \A u \in Threads : Proc(u) \in {"serve", "command"} BY DEF Proc
<1>3. SealedWhole'
  <2>1. \A u \in Threads : th'[u].raw \in {th[u].raw, Absent} BY DEF Works, Others
  <2> QED BY <1>1, <2>1 DEF ThreadInv, SealedWhole
<1>4. HasSession'
  <2>1. ASSUME NEW u \in Threads \ {t}
        PROVE  /\ th'[u].op = "save" => th'[u].tok > 0 /\ u \in {Auth, Cmd}
               /\ u = Auth /\ Busy(u)' => th'[u].op = "save"
               /\ th'[u].pc \in Writing \cup {"ok"} => th'[u].tok > 0 /\ cache'[Proc(u)] # 0
    <3>1. th'[u].pc = th[u].pc /\ th'[u].op = th[u].op /\ th'[u].tok = th[u].tok
      BY DEF Works, Others
    <3> QED BY <1>2, <3>1 DEF Works, ThreadInv, HasSession, Busy
  <2>2. /\ th'[t].op = "save" => th'[t].tok > 0 /\ t \in {Auth, Cmd}
        /\ t = Auth => th'[t].op = "save"
    BY DEF Works, ThreadInv, HasSession, Busy
  <2> QED BY <2>1, <2>2 DEF HasSession
<1>5. Lives'
  <2>1. \A u \in Threads : Busy(u)' <=> Busy(u) BY DEF Works, Others, Busy
  <2>2. up' = up BY DEF Works
  <2>3. up' = "on" => cache'["serve"] # 0 BY <2>2 DEF Works, ThreadInv, Lives
  <2> QED BY <2>1, <2>2, <2>3, Members DEF ThreadInv, Lives
<1> QED BY <1>3, <1>4, <1>5 DEF ThreadInv

LEMMA DrawsKept ==
  ASSUME ThreadInv, NEW t \in Threads, Others(t), th'[t].pc \notin {"newkey", "placekey"},
         \A u \in Threads \ {t} : Drawing(u) => cache'[Proc(u)] = 0
  PROVE  DrawsAlone'
<1>1. ASSUME NEW u \in Threads, Drawing(u)' PROVE u # t /\ Drawing(u) /\ th'[u].new = th[u].new
  BY <1>1 DEF Others, Drawing
<1> QED BY <1>1 DEF ThreadInv, DrawsAlone

LEMMA OpensKept ==
  ASSUME ThreadInv, NEW t \in Threads, \A u \in Threads \ {t} : th'[u] = th[u],
         th'[t].pc = "write" => th'[t].fd \in SessionNames \cup {Gone},
         th'[t].pc = "newkey" => th'[t].fd \in KeyNames \cup {Gone}
  PROVE  OpensOwn'
BY DEF ThreadInv, OpensOwn

\* The thread goes on with a key: it has a session whose file that key opens, it
\* saves one, or it has failed.
LEMMA WithKeyWorks ==
  ASSUME ThreadInv, NEW t \in Threads, NEW k, k # 0, th[t].pc \in Keying,
         th'[t] = WithKey(t, k)
  PROVE  /\ th'[t].pc \in {"ok", "save", "error"} /\ th'[t].op = th[t].op /\ th'[t].raw = Absent
         /\ th'[t].pc \in Writing \cup {"ok"} => th'[t].tok > 0
         /\ th[t].op = "save" => th'[t].tok = th[t].tok /\ th'[t].pc = "save"
         /\ th[t].op = "load" => th'[t].tok = th[t].raw.tok
         /\ th[t].op = "load" /\ th'[t].pc = "save" => InClear(t)
<1>0. TypeOK BY DEF ThreadInv
<1>1. Fits(t, k) => th[t].raw.tok > 0 BY DEF Fits, ThreadInv, SealedWhole
<1>2. th[t].op = "save" => th[t].tok > 0 BY DEF ThreadInv, HasSession
<1>3. InClear(t) => th[t].raw.tok > 0 BY DEF InClear
<1>4. CASE th[t].op = "load" /\ Fits(t, k)
           /\ th'[t] = Hand("ok", "load", Absent, th[t].raw.tok, 0, Gone)
  <2>1. th'[t].pc = "ok" /\ th'[t].op = "load" /\ th'[t].raw = Absent /\ th'[t].tok = th[t].raw.tok
    BY <1>4, HandFields
  <2> QED BY <1>1, <1>4, <2>1
<1>5. CASE th[t].op = "load" /\ InClear(t)
           /\ th'[t] = Hand("save", "load", Absent, th[t].raw.tok, 0, Gone)
  <2>1. /\ th'[t].pc = "save" /\ th'[t].op = "load" /\ th'[t].raw = Absent
        /\ th'[t].tok = th[t].raw.tok
    BY <1>5, HandFields
  <2> QED BY <1>3, <1>5, <2>1
<1>6. CASE th[t].op = "load" /\ th'[t] = Hand("error", "load", Absent, th[t].raw.tok, 0, Gone)
  <2>1. /\ th'[t].pc = "error" /\ th'[t].op = "load" /\ th'[t].raw = Absent
        /\ th'[t].tok = th[t].raw.tok
    BY <1>6, HandFields
  <2> QED BY <1>6, <2>1 DEF Writing
<1>7. CASE th[t].op = "save" /\ th'[t] = Hand("save", "save", Absent, th[t].tok, 0, Gone)
  <2>1. th'[t].pc = "save" /\ th'[t].op = "save" /\ th'[t].raw = Absent /\ th'[t].tok = th[t].tok
    BY <1>7, HandFields
  <2> QED BY <1>2, <1>7, <2>1
<1> QED BY <1>0, <1>4, <1>5, <1>6, <1>7, WithKeyHand

\* A call that is over.
LEMMA OverWorks ==
  ASSUME ThreadInv, NEW t \in Threads, NEW pc, th'[t] = Over(t, pc)
  PROVE  /\ th'[t].pc = pc /\ th'[t].op = th[t].op /\ th'[t].raw = Absent
         /\ th'[t].tok = th[t].tok /\ th'[t].fd = Gone
<1>1. th'[t] = Hand(pc, th[t].op, Absent, th[t].tok, 0, Gone) BY OverHand
<1> QED BY <1>1, HandFields

\* A call that ends with a result, its files as they are.
LEMMA OverThread ==
  ASSUME ThreadInv, TypeOK', NEW t \in Threads, NEW pc \in {"ok", "error"}, Step(t, Over(t, pc)),
         Busy(t), pc = "ok" => th[t].pc \in Writing, UNCHANGED <<file, cache, up>>
  PROVE  ThreadInv' /\ Works(t)
<1>1. th'[t] = Over(t, pc) /\ Others(t) /\ \A u \in Threads \ {t} : th'[u] = th[u]
  BY StepMoves DEF ThreadInv
<1>2. /\ th'[t].pc = pc /\ th'[t].op = th[t].op /\ th'[t].raw = Absent /\ th'[t].tok = th[t].tok
  BY <1>1, OverWorks
<1>3. Works(t) BY <1>1, <1>2 DEF Works
<1>4. OpensOwn' BY <1>1, <1>2, OpensKept
<1>5. DrawsAlone'
  <2>1. \A u \in Threads \ {t} : Drawing(u) => cache'[Proc(u)] = 0
    BY DEF ThreadInv, DrawsAlone
  <2> QED BY <1>1, <1>2, <2>1, DrawsKept
<1>6. th'[t].pc \in Writing \cup {"ok"} => th'[t].tok > 0 /\ cache'[Proc(t)] # 0
  BY <1>2 DEF ThreadInv, HasSession, Writing
<1>7. \A n \in SessionNames : IsSealed(file'[n]) => file'[n].tok > 0
  BY DEF ThreadInv, SealedWhole
<1>8. Session # Absent => Session' # Absent BY DEF Session
<1> QED BY <1>3, <1>4, <1>5, <1>6, <1>7, <1>8, WorkThread

LEMMA FailsThread ==
  ASSUME ThreadInv, NEW t \in Threads, Fails(t)
  PROVE  ThreadInv' /\ Works(t)
<1>1. TypeOK' /\ UNCHANGED <<file, cache, up>> BY FailsType DEF ThreadInv, Fails, local
<1>2. Busy(t) BY DEF Fails, Busy
<1>3. PICK pc \in {"ok", "error"} :
        Step(t, Over(t, pc)) /\ (pc = "ok" => th[t].pc \in Writing)
  BY DEF Fails, Writing
<1> QED BY <1>1, <1>2, <1>3, OverThread

\* The key that is there, cached or on file.
LEMMA KeyLoadedThread ==
  ASSUME ThreadInv, TypeOK', NEW t \in Threads, NEW k \in 0..drawn, k # 0,
         th[t].pc \in Keying, KeyLoaded(t, k), cache[Proc(t)] \in {0, k},
         \A u \in Threads \ {t} : Drawing(u) => Proc(u) # Proc(t),
         UNCHANGED <<file, up>>
  PROVE  ThreadInv' /\ Works(t) /\ th'[t] = WithKey(t, k) /\ \A u \in Threads \ {t} : th'[u] = th[u]
<1>0. TypeOK BY DEF ThreadInv
<1>1. th'[t] = WithKey(t, k) /\ Others(t) /\ \A u \in Threads \ {t} : th'[u] = th[u]
  BY <1>0, StepMoves DEF KeyLoaded
<1>2. /\ th'[t].pc \in {"ok", "save", "error"} /\ th'[t].op = th[t].op /\ th'[t].raw = Absent
      /\ th'[t].pc \in Writing \cup {"ok"} => th'[t].tok > 0
      /\ th[t].op = "save" => th'[t].tok = th[t].tok
  BY <1>1, WithKeyWorks
<1>3. /\ Proc(t) \in {"serve", "command"} /\ cache'[Proc(t)] = k
      /\ \A p \in {"serve", "command"} \ {Proc(t)} : cache'[p] = cache[p]
  BY <1>0, NumbersType DEF KeyLoaded, TypeOK
<1>4. Works(t)
  <2>1. Busy(t) BY DEF Busy, Keying
  <2>2. \A p \in {"serve", "command"} : cache[p] # 0 => cache'[p] = cache[p] BY <1>3
  <2> QED BY <1>1, <1>2, <2>1, <2>2 DEF Works
<1>5. OpensOwn' BY <1>1, <1>2, OpensKept
<1>6. DrawsAlone'
  <2>1. ASSUME NEW u \in Threads \ {t}, Drawing(u) PROVE cache'[Proc(u)] = 0
    <3>1. Proc(u) # Proc(t) /\ cache[Proc(u)] = 0 /\ Proc(u) \in {"serve", "command"}
      BY <2>1 DEF ThreadInv, DrawsAlone, Proc
    <3> QED BY <1>3, <3>1
  <2> QED BY <1>1, <1>2, <2>1, DrawsKept
<1>7. th'[t].pc \in Writing \cup {"ok"} => th'[t].tok > 0 /\ cache'[Proc(t)] # 0
  BY <1>2, <1>3
<1>8. \A n \in SessionNames : IsSealed(file'[n]) => file'[n].tok > 0
  BY DEF ThreadInv, SealedWhole
<1>9. Session # Absent => Session' # Absent BY DEF Session
<1> QED BY <1>1, <1>4, <1>5, <1>6, <1>7, <1>8, <1>9, WorkThread

LEMMA KeyFoundThread ==
  ASSUME ThreadInv, NEW t \in Threads, KeyFound(t)
  PROVE  /\ ThreadInv' /\ Works(t) /\ \A u \in Threads \ {t} : th'[u] = th[u]
         /\ \/ \E k \in 0..drawn : k # 0 /\ k \in {cache[Proc(t)], Key.key} /\ KeyLoaded(t, k)
                                   /\ th'[t] = WithKey(t, k)
            \/ th'[t] = Over(t, "error") /\ cache' = cache
<1>0. TypeOK /\ TypeOK' BY KeyFoundType DEF ThreadInv
<1>1. UNCHANGED <<file, drawn, up>> /\ th[t].pc = "key" /\ Busy(t) /\ th[t].pc \in Keying
  BY DEF KeyFound, local, AtKey, Busy, Keying
<1>2. \A u \in Threads \ {t} : Drawing(u) => Proc(u) # Proc(t)
  BY DEF KeyFound, AtKey, Drawing
<1>3. cache[Proc(t)] \in 0..drawn /\ Key.key \in 0..drawn
  BY <1>0, NumbersType, FileType DEF Key, Names
<1>4. CASE cache[Proc(t)] # 0 /\ KeyLoaded(t, cache[Proc(t)])
  <2>1. ThreadInv' /\ Works(t) /\ th'[t] = WithKey(t, cache[Proc(t)])
        /\ \A u \in Threads \ {t} : th'[u] = th[u]
    BY <1>0, <1>1, <1>2, <1>3, <1>4, KeyLoadedThread
  <2> QED BY <1>3, <1>4, <2>1
<1>5. CASE cache[Proc(t)] = 0 /\ IsSealed(Key) /\ KeyLoaded(t, Key.key)
  <2>1. Key.key # 0 BY <1>5 DEF IsSealed
  <2>2. ThreadInv' /\ Works(t) /\ th'[t] = WithKey(t, Key.key)
        /\ \A u \in Threads \ {t} : th'[u] = th[u]
    BY <1>0, <1>1, <1>2, <1>3, <1>5, <2>1, KeyLoadedThread
  <2> QED BY <1>3, <1>5, <2>1, <2>2
<1>6. CASE Step(t, Over(t, "error")) /\ UNCHANGED cache
  <2>1. ThreadInv' /\ Works(t) BY <1>0, <1>1, <1>6, OverThread
  <2> QED BY <1>0, <1>6, <2>1, StepMoves
<1> QED BY <1>4, <1>5, <1>6 DEF KeyFound

LEMMA KeyRereadThread ==
  ASSUME ThreadInv, NEW t \in Threads, KeyReread(t)
  PROVE  ThreadInv'
<1>0. TypeOK /\ TypeOK' BY KeyRereadType DEF ThreadInv
<1>1. UNCHANGED <<file, drawn, up>> /\ Busy(t) /\ th[t].pc \in Keying /\ Drawing(t)
  BY DEF KeyReread, local, Busy, Keying, Drawing
<1>2. /\ \A u \in Threads \ {t} : Drawing(u) => Proc(u) # Proc(t)
      /\ cache[Proc(t)] = 0
  BY <1>1 DEF ThreadInv, DrawsAlone
<1>3. CASE IsSealed(Key) /\ KeyLoaded(t, Key.key)
  <2>1. Key.key # 0 /\ Key.key \in 0..drawn BY <1>0, <1>3, FileType DEF IsSealed, Key, Names
  <2> QED BY <1>0, <1>1, <1>2, <1>3, <2>1, KeyLoadedThread
<1>4. CASE Step(t, Over(t, "error")) /\ UNCHANGED cache
  BY <1>0, <1>1, <1>4, OverThread
<1> QED BY <1>3, <1>4 DEF KeyReread

LEMMA KeyDrawnThread ==
  ASSUME ThreadInv, NEW t \in Threads, KeyDrawn(t)
  PROVE  /\ ThreadInv' /\ Works(t)
         /\ th'[t].pc = "newkey" /\ th'[t].op = th[t].op /\ th'[t].raw = th[t].raw
         /\ th'[t].tok = th[t].tok /\ th'[t].fd = ".atrest.key.tmp"
<1>0. TypeOK /\ TypeOK' BY KeyDrawnType DEF ThreadInv
<1>1. /\ UNCHANGED <<cache, up>> /\ th[t].pc = "key" /\ Busy(t) /\ cache[Proc(t)] = 0
      /\ \A u \in Threads \ {t} : Drawing(u) => Proc(u) # Proc(t)
  BY DEF KeyDrawn, local, AtKey, Busy, Drawing
<1>2. /\ th'[t] = Hand("newkey", th[t].op, th[t].raw, th[t].tok, drawn + 1, ".atrest.key.tmp")
      /\ Others(t) /\ \A u \in Threads \ {t} : th'[u] = th[u]
      /\ \A n \in Names \ {".atrest.key.tmp"} : file'[n] = file[n]
  BY <1>0, KeyDrawnMoves
<1>3. /\ th'[t].pc = "newkey" /\ th'[t].op = th[t].op /\ th'[t].raw = th[t].raw
      /\ th'[t].tok = th[t].tok /\ th'[t].new = drawn + 1 /\ th'[t].fd = ".atrest.key.tmp"
  BY <1>2, HandFields
<1>4. Works(t) BY <1>1, <1>2, <1>3 DEF Works
<1>5. OpensOwn' BY <1>2, <1>3, OpensKept DEF KeyNames
<1>6. DrawsAlone'
  <2>1. \A u \in Threads \ {t} : Drawing(u)' => Drawing(u) /\ th'[u].new = th[u].new
    BY <1>2 DEF Drawing
  <2>2. th'[t].new > 0 BY <1>0, <1>3, NumbersType
  <2> QED BY <1>1, <2>1, <2>2 DEF ThreadInv, DrawsAlone
<1>7. \A n \in SessionNames : file'[n] = file[n] BY <1>2 DEF SessionNames, Names
<1>8. \A n \in SessionNames : IsSealed(file'[n]) => file'[n].tok > 0
  BY <1>7 DEF ThreadInv, SealedWhole
<1>9. Session' = Session BY <1>7 DEF Session, SessionNames
<1>10. th'[t].pc \notin Writing \cup {"ok"} BY <1>3 DEF Writing
<1> QED BY <1>0, <1>3, <1>4, <1>5, <1>6, <1>8, <1>9, <1>10, WorkThread

LEMMA KeyWrittenThread ==
  ASSUME ThreadInv, TypeOK', NEW t \in Threads, KeyWritten(t)
  PROVE  /\ ThreadInv' /\ Works(t)
         /\ th'[t].pc = "placekey" /\ th'[t].op = th[t].op /\ th'[t].raw = th[t].raw
         /\ th'[t].tok = th[t].tok /\ th'[t].new = th[t].new
         /\ \A n \in SessionNames : file'[n] = file[n]
<1>0. TypeOK BY DEF ThreadInv
<1>1. /\ UNCHANGED <<cache, up>> /\ th[t].pc = "newkey" /\ Busy(t)
  BY DEF KeyWritten, local, Busy
<1>2. /\ th'[t] = Hand("placekey", th[t].op, th[t].raw, th[t].tok, th[t].new, th[t].fd)
      /\ Others(t) /\ \A u \in Threads \ {t} : th'[u] = th[u]
      /\ \A n \in Names : file'[n] = IF n = th[t].fd THEN [key |-> th[t].new, tok |-> 0]
                                     ELSE file[n]
  BY <1>0, KeyWrittenMoves
<1>3. /\ th'[t].pc = "placekey" /\ th'[t].op = th[t].op /\ th'[t].raw = th[t].raw
      /\ th'[t].tok = th[t].tok /\ th'[t].new = th[t].new
  BY <1>2, HandFields
<1>4. Works(t) BY <1>1, <1>2, <1>3 DEF Works
<1>5. OpensOwn' BY <1>2, <1>3, OpensKept
<1>6. DrawsAlone'
  <2>1. \A u \in Threads : /\ Drawing(u)' <=> Drawing(u)
                           /\ th'[u].new = th[u].new
    BY <1>1, <1>2, <1>3 DEF Drawing
  <2> QED BY <1>1, <2>1 DEF ThreadInv, DrawsAlone
<1>7. \A n \in SessionNames : file'[n] = file[n]
  <2>1. th[t].fd \in KeyNames \cup {Gone} BY <1>1 DEF ThreadInv, OpensOwn
  <2>2. \A n \in SessionNames : n \in Names /\ n \notin KeyNames \cup {Gone}
    BY DEF SessionNames, Names, KeyNames, Gone
  <2> QED BY <1>2, <2>1, <2>2
<1>8. \A n \in SessionNames : IsSealed(file'[n]) => file'[n].tok > 0
  BY <1>7 DEF ThreadInv, SealedWhole
<1>9. Session' = Session BY <1>7 DEF Session, SessionNames
<1>10. th'[t].pc \notin Writing \cup {"ok"} BY <1>3 DEF Writing
<1> QED BY <1>3, <1>4, <1>5, <1>6, <1>7, <1>8, <1>9, <1>10, WorkThread

LEMMA KeyPlacedThread ==
  ASSUME ThreadInv, TypeOK', NEW t \in Threads, KeyPlaced(t)
  PROVE  ThreadInv' /\ Works(t)
<1>0. TypeOK BY DEF ThreadInv
<1>1. /\ up' = up /\ th[t].pc = "placekey" /\ Busy(t) /\ Drawing(t) /\ th[t].pc \in Keying
  BY DEF KeyPlaced, local, Busy, Drawing, Keying
<1>2. /\ th'[t] = WithKey(t, th[t].new) /\ Others(t)
      /\ \A u \in Threads \ {t} : th'[u].fd = Moved(th[u].fd, ".atrest.key.tmp", ".atrest.key")
      /\ \A n \in SessionNames : file'[n] = file[n]
      /\ \A p \in {"serve", "command"} :
           cache'[p] = IF p = Proc(t) THEN th[t].new ELSE cache[p]
  BY <1>0, KeyPlacedMoves
<1>3. /\ th[t].new > 0 /\ cache[Proc(t)] = 0 /\ Proc(t) \in {"serve", "command"}
      /\ \A u \in Threads \ {t} : Drawing(u) => Proc(u) # Proc(t)
  BY <1>1 DEF ThreadInv, DrawsAlone, Proc
<1>4. /\ th'[t].pc \in {"ok", "save", "error"} /\ th'[t].op = th[t].op /\ th'[t].raw = Absent
      /\ th'[t].pc \in Writing \cup {"ok"} => th'[t].tok > 0
      /\ th[t].op = "save" => th'[t].tok = th[t].tok
  BY <1>1, <1>2, <1>3, WithKeyWorks
<1>5. Works(t)
  <2>1. \A p \in {"serve", "command"} : cache[p] # 0 => cache'[p] = cache[p]
    BY <1>2, <1>3
  <2> QED BY <1>1, <1>2, <1>4, <2>1 DEF Works
<1>6. OpensOwn'
  <2>1. ASSUME NEW u \in Threads \ {t}
        PROVE  /\ th'[u].pc = "write" => th'[u].fd \in SessionNames \cup {Gone}
               /\ th'[u].pc = "newkey" => th'[u].fd \in KeyNames \cup {Gone}
    <3>1. th'[u].pc = th[u].pc BY <1>2 DEF Others
    <3>2. CASE th[u].pc = "write"
      <4>1. th[u].fd \in SessionNames \cup {Gone} BY <3>2 DEF ThreadInv, OpensOwn
      <4>2. th'[u].fd \in SessionNames \cup {Gone} BY <1>2, <4>1 DEF Moved, SessionNames, Gone
      <4> QED BY <3>1, <3>2, <4>2
    <3>3. CASE th[u].pc = "newkey"
      <4>1. th[u].fd \in KeyNames \cup {Gone} BY <3>3 DEF ThreadInv, OpensOwn
      <4> QED BY <1>2, <3>1, <3>3, <4>1 DEF Moved, KeyNames
    <3> QED BY <3>1, <3>2, <3>3
  <2>2. th'[t].pc \notin {"write", "newkey"} BY <1>4
  <2> QED BY <2>1, <2>2 DEF OpensOwn
<1>7. DrawsAlone'
  <2>1. ASSUME NEW u \in Threads \ {t}, Drawing(u) PROVE cache'[Proc(u)] = 0
    <3>1. Proc(u) # Proc(t) /\ cache[Proc(u)] = 0 /\ Proc(u) \in {"serve", "command"}
      BY <1>3, <2>1 DEF ThreadInv, DrawsAlone, Proc
    <3> QED BY <1>2, <3>1
  <2> QED BY <1>2, <1>4, <2>1, DrawsKept
<1>8. \A n \in SessionNames : IsSealed(file'[n]) => file'[n].tok > 0
  BY <1>2 DEF ThreadInv, SealedWhole
<1>9. Session' = Session BY <1>2 DEF Session, SessionNames
<1>10. cache'[Proc(t)] # 0 BY <1>2, <1>3
<1> QED BY <1>4, <1>5, <1>6, <1>7, <1>8, <1>9, <1>10, WorkThread

LEMMA SaveStartsThread ==
  ASSUME ThreadInv, TypeOK', NEW t \in Threads, SaveStarts(t)
  PROVE  /\ ThreadInv' /\ Works(t)
         /\ th'[t].pc = "write" /\ th'[t].op = th[t].op /\ th'[t].tok = th[t].tok
         /\ th'[t].raw = th[t].raw /\ th'[t].fd = "session.json.tmp"
<1>0. TypeOK BY DEF ThreadInv
<1>1. /\ UNCHANGED <<cache, up>> /\ th[t].pc = "save" /\ Busy(t)
  BY DEF SaveStarts, local, Busy
<1>2. /\ th'[t] = Hand("write", th[t].op, th[t].raw, th[t].tok, th[t].new, "session.json.tmp")
      /\ Others(t) /\ \A u \in Threads \ {t} : th'[u] = th[u]
      /\ file'["session.json.tmp"] = Empty
      /\ \A n \in Names \ {"session.json.tmp"} : file'[n] = file[n]
  BY <1>0, SaveStartsMoves
<1>3. /\ th'[t].pc = "write" /\ th'[t].op = th[t].op /\ th'[t].tok = th[t].tok
      /\ th'[t].raw = th[t].raw /\ th'[t].fd = "session.json.tmp"
  BY <1>2, HandFields
<1>4. Works(t) BY <1>1, <1>2, <1>3 DEF Works
<1>5. OpensOwn' BY <1>2, <1>3, OpensKept DEF SessionNames
<1>6. DrawsAlone'
  <2>1. \A u \in Threads \ {t} : Drawing(u) => cache'[Proc(u)] = 0
    BY <1>1 DEF ThreadInv, DrawsAlone
  <2> QED BY <1>2, <1>3, <2>1, DrawsKept
<1>7. \A n \in SessionNames : IsSealed(file'[n]) => file'[n].tok > 0
  <2>1. ~IsSealed(Empty) BY DEF IsSealed, Empty
  <2> QED BY <1>2, <2>1 DEF ThreadInv, SealedWhole, SessionNames, Names
<1>8. Session' = Session BY <1>2 DEF Session, Names
<1>9. th'[t].tok > 0 /\ cache'[Proc(t)] # 0
  BY <1>1, <1>3 DEF ThreadInv, HasSession, Writing
<1> QED BY <1>3, <1>4, <1>5, <1>6, <1>7, <1>8, <1>9, WorkThread

LEMMA SaveWritesThread ==
  ASSUME ThreadInv, TypeOK', NEW t \in Threads, SaveWrites(t)
  PROVE  /\ ThreadInv' /\ Works(t)
         /\ th'[t].pc = "rename" /\ th'[t].op = th[t].op /\ th'[t].tok = th[t].tok
         /\ th'[t].raw = th[t].raw
         /\ \A n \in KeyNames : file'[n] = file[n]
<1>0. TypeOK BY DEF ThreadInv
<1>1. /\ UNCHANGED <<cache, up>> /\ th[t].pc = "write" /\ Busy(t)
  BY DEF SaveWrites, local, Busy
<1> DEFINE c == [key |-> cache[Proc(t)], tok |-> th[t].tok]
<1>2. /\ th'[t] = Hand("rename", th[t].op, th[t].raw, th[t].tok, th[t].new, th[t].fd)
      /\ Others(t) /\ \A u \in Threads \ {t} : th'[u] = th[u]
      /\ \A n \in Names : file'[n] = IF n = th[t].fd THEN c ELSE file[n]
  BY <1>0, SaveWritesMoves
<1>3. /\ th'[t].pc = "rename" /\ th'[t].op = th[t].op /\ th'[t].tok = th[t].tok
      /\ th'[t].raw = th[t].raw
  BY <1>2, HandFields
<1>4. Works(t) BY <1>1, <1>2, <1>3 DEF Works
<1>5. OpensOwn' BY <1>2, <1>3, OpensKept
<1>6. DrawsAlone'
  <2>1. \A u \in Threads \ {t} : Drawing(u) => cache'[Proc(u)] = 0
    BY <1>1 DEF ThreadInv, DrawsAlone
  <2> QED BY <1>2, <1>3, <2>1, DrawsKept
<1>7. th[t].tok > 0 /\ cache[Proc(t)] # 0
  BY <1>1 DEF ThreadInv, HasSession, Writing
<1>8. c.tok > 0 /\ c # Absent
  <2>1. c.tok = th[t].tok OBVIOUS
  <2>2. Absent.tok = -1 BY DEF Absent
  <2> QED BY <1>0, <1>7, <2>1, <2>2, HandType
<1> HIDE DEF c
<1>9. /\ \A n \in SessionNames : IsSealed(file'[n]) => file'[n].tok > 0
      /\ Session # Absent => Session' # Absent
  BY <1>2, <1>8 DEF ThreadInv, SealedWhole, SessionNames, Names, Session
<1>10. \A n \in KeyNames : file'[n] = file[n]
  <2>1. th[t].fd \in SessionNames \cup {Gone} BY <1>1 DEF ThreadInv, OpensOwn
  <2>2. \A n \in KeyNames : n \in Names /\ n \notin SessionNames \cup {Gone}
    BY DEF SessionNames, Names, KeyNames, Gone
  <2> QED BY <1>2, <2>1, <2>2
<1> QED BY <1>1, <1>3, <1>4, <1>5, <1>6, <1>7, <1>9, <1>10, WorkThread

LEMMA SaveRenamesThread ==
  ASSUME ThreadInv, TypeOK', NEW t \in Threads, SaveRenames(t)
  PROVE  /\ ThreadInv' /\ Works(t)
         /\ th'[t].pc = "ok" /\ th'[t].op = th[t].op /\ th'[t].tok = th[t].tok
<1>0. TypeOK BY DEF ThreadInv
<1>1. /\ UNCHANGED <<cache, up>> /\ th[t].pc = "rename" /\ Busy(t)
  BY DEF SaveRenames, local, Busy
<1>2. /\ th'[t] = Hand("ok", th[t].op, Absent, th[t].tok, 0, Gone) /\ Others(t)
      /\ \A u \in Threads \ {t} : th'[u].fd = Moved(th[u].fd, "session.json.tmp", "session.json")
      /\ file["session.json.tmp"] # Absent /\ file'["session.json"] = file["session.json.tmp"]
      /\ file'["session.json.tmp"] = Absent
  BY <1>0, SaveRenamesMoves
<1>3. th'[t].pc = "ok" /\ th'[t].op = th[t].op /\ th'[t].tok = th[t].tok /\ th'[t].raw = Absent
  BY <1>2, HandFields
<1>4. Works(t) BY <1>1, <1>2, <1>3 DEF Works
<1>5. OpensOwn'
  <2>1. ASSUME NEW u \in Threads \ {t}
        PROVE  /\ th'[u].pc = "write" => th'[u].fd \in SessionNames \cup {Gone}
               /\ th'[u].pc = "newkey" => th'[u].fd \in KeyNames \cup {Gone}
    <3>1. th'[u].pc = th[u].pc BY <1>2 DEF Others
    <3>2. CASE th[u].pc = "write"
      <4>1. th[u].fd \in SessionNames \cup {Gone} BY <3>2 DEF ThreadInv, OpensOwn
      <4>2. th'[u].fd \in SessionNames \cup {Gone} BY <1>2, <4>1 DEF Moved, SessionNames
      <4> QED BY <3>1, <3>2, <4>2
    <3>3. CASE th[u].pc = "newkey"
      <4>1. th[u].fd \in KeyNames \cup {Gone} BY <3>3 DEF ThreadInv, OpensOwn
      <4>2. th'[u].fd \in KeyNames \cup {Gone} BY <1>2, <4>1 DEF Moved, KeyNames, Gone
      <4> QED BY <3>1, <3>3, <4>2
    <3> QED BY <3>1, <3>2, <3>3
  <2> QED BY <1>3, <2>1 DEF OpensOwn
<1>6. DrawsAlone'
  <2>1. \A u \in Threads \ {t} : Drawing(u) => cache'[Proc(u)] = 0
    BY <1>1 DEF ThreadInv, DrawsAlone
  <2> QED BY <1>2, <1>3, <2>1, DrawsKept
<1>7. \A n \in SessionNames : IsSealed(file'[n]) => file'[n].tok > 0
  <2>1. ~IsSealed(Absent) BY DEF IsSealed, Absent
  <2> QED BY <1>2, <2>1 DEF ThreadInv, SealedWhole, SessionNames
<1>8. Session' # Absent BY <1>2 DEF Session
<1>9. th[t].tok > 0 /\ cache[Proc(t)] # 0
  BY <1>1 DEF ThreadInv, HasSession, Writing
<1> QED BY <1>1, <1>3, <1>4, <1>5, <1>6, <1>7, <1>8, <1>9, WorkThread

LEMMA SaveLosesThread ==
  ASSUME ThreadInv, TypeOK', NEW t \in Threads, SaveLosesTmp(t)
  PROVE  ThreadInv'
<1>1. UNCHANGED <<file, cache, up>> /\ Busy(t) /\ th[t].pc \in Writing
  BY DEF SaveLosesTmp, local, Busy, Writing
<1>2. PICK pc \in {"ok", "error"} : Step(t, Over(t, pc)) BY DEF SaveLosesTmp
<1> QED BY <1>1, <1>2, OverThread

LEMMA NextThread == ThreadInv /\ [Next]_vars => ThreadInv'
<1> SUFFICES ASSUME ThreadInv, [Next]_vars PROVE ThreadInv' OBVIOUS
<1>1. CASE BootDaemon \/ Refresh \/ Status \/ Login \/ \E t \in Calls : Call(t)
  BY <1>1, StartsThread
<1>2. ASSUME NEW t \in Threads, Thread(t) PROVE ThreadInv'
  <2>1. TypeOK' BY <1>2, ThreadType
  <2> QED BY <1>2, <2>1, ReturnsThread, KeyFoundThread, KeyDrawnThread, KeyWrittenThread,
          KeyPlacedThread, KeyRereadThread, SaveStartsThread, SaveWritesThread,
          SaveRenamesThread, SaveLosesThread DEF Thread
<1>3. ASSUME NEW t \in Threads, Fails(t) PROVE ThreadInv' BY <1>3, FailsThread
<1>4. ASSUME NEW p \in {"serve", "command"}, Kill(p) PROVE ThreadInv'
  <2>1. faults' \in 0..MaxFaults BY <1>4, FaultType DEF Kill, ThreadInv
  <2>2. TypeOK' BY <1>4, <2>1, EndedType DEF Kill, ThreadInv
  <2> QED BY <1>4, <2>2, EndedThread DEF Kill
<1>5. CASE UNCHANGED vars
  BY <1>5 DEF vars, ThreadInv, TypeOK, Content, SealedWhole, HasSession, OpensOwn, DrawsAlone,
              Drawing, Lives, Busy, Session
<1> QED BY <1>1, <1>2, <1>3, <1>4, <1>5 DEF Next

\* Every variable keeps its type, whichever process is killed and whichever
\* write fails: a daemon that serves has a token in memory (LoadSession answers
\* with a session or an error).
THEOREM AtRestTypes == Spec => []TypeOK
<1>1. Spec => []ThreadInv BY InitThread, NextThread, PTL DEF Spec
<1> QED BY <1>1, PTL DEF ThreadInv

-----------------------------------------------------------------------------
(* Who is alone with what, while nobody met a session in clear.            *)

LEMMA InitClear == Init => ClearParts
<1> SUFFICES ASSUME Init PROVE ClearParts OBVIOUS
<1>1. ThreadInv /\ TypeOK BY InitThread DEF ThreadInv
<1>2. /\ Idle.pc = "idle" /\ Idle.op = "load" BY DEF Idle
<1>3. \A t \in Threads : th[t] = Idle BY DEF Init
<1>4. \A t \in Threads : th[t].pc = "idle" /\ ~Busy(t) /\ ~Reseals(t) /\ ~Drawing(t)
  BY <1>2, <1>3 DEF Busy, Reseals, Drawing, Writing, Keying
<1>5. ClearAlone /\ SavesNewest /\ TmpOwned
  BY <1>4, Members DEF ClearAlone, SavesNewest, TmpOwned, LoggingIn, Writing, Keying
<1>6. /\ Absent.key = 0 /\ Key.key \in Nat
      /\ \A p \in {"serve", "command"} : cache[p] = 0
  BY <1>1, FileType DEF Init, Absent, Key, Names
<1>7. OneKeyFor BY <1>4, <1>6, InitFiles DEF OneKeyFor
<1>8. NewestSaved BY InitFiles DEF NewestSaved
<1>9. Readable BY InitFiles, <1>6 DEF Readable, IsSealed
<1> QED BY <1>5, <1>7, <1>8, <1>9 DEF ClearParts

\* A thread of the daemon that re-seals is the one that boots it.
LEMMA CallResealing ==
  ASSUME ThreadInv, ClearParts, NEW t \in Calls, th[t].pc \in Writing
  PROVE  t = Boot /\ up = "boot" /\ Reseals(Boot) /\ ~IsSealed(Session) /\ ~Busy(Cmd)
<1>1. up = "boot" BY DEF ClearParts, ClearAlone
<1>2. Busy(t) BY DEF Busy, Writing
<1>3. t = Boot
  BY <1>1, <1>2, Members, ThreadsAssumption DEF ThreadInv, Lives
<1>4. th[t].op = "load"
  BY <1>3, Members, HandType DEF ThreadInv, HasSession
<1>5. Reseals(Boot) BY <1>3, <1>4 DEF Reseals
<1> QED BY <1>1, <1>3, <1>5 DEF ClearParts, ClearAlone

\* Only one thread at a time writes session.json.
LEMMA WriterAlone ==
  ASSUME ThreadInv, ClearParts, NEW t \in Threads, NEW u \in Threads,
         th[t].pc \in Writing, th[u].pc \in Writing
  PROVE  t = u
<1>0. token \in Nat /\ mem \in Nat BY NumbersType DEF ThreadInv
<1>1. \A v \in Threads : th[v].pc \in Writing => Busy(v) BY DEF Busy, Writing
<1>2. ASSUME NEW v \in Calls, th[v].pc \in Writing
      PROVE  v = Boot /\ up = "boot" /\ ~Busy(Cmd)
  BY <1>2, CallResealing
<1>3. th[Auth].pc \in Writing => up = "on" /\ mem = token
  BY DEF ClearParts, SavesNewest
<1>4. th[Cmd].pc \in Writing => up = "off" \/ mem < token
  <2>1. CASE th[Cmd].op = "load" BY <2>1 DEF ClearParts, ClearAlone, Reseals
  <2>2. CASE th[Cmd].op = "save" BY <2>2 DEF ClearParts, SavesNewest, LoggingIn
  <2> QED BY <2>1, <2>2, Members, HandType DEF ThreadInv
<1>5. th[Auth].pc \in Writing => th[Cmd].pc \notin Writing BY <1>0, <1>3, <1>4
<1>6. th[Auth].pc \in Writing => \A v \in Calls : th[v].pc \notin Writing BY <1>2, <1>3
<1>7. th[Cmd].pc \in Writing => \A v \in Calls : th[v].pc \notin Writing
  BY <1>1, <1>2, Members
<1> QED BY <1>2, <1>5, <1>6, <1>7, Members

\* Without a key, a process at work is the only one.
LEMMA KeylessAlone ==
  ASSUME ThreadInv, ClearParts, Key = Absent, NEW t \in Threads \ {Cmd}, Busy(t), Busy(Cmd),
         cache["serve"] = 0
  PROVE  FALSE
<1>1. up = "boot" BY Members DEF ThreadInv, TypeOK, Lives
<1>2. Session # Absent BY <1>1 DEF ThreadInv, Lives
<1>3. Key.key = 0 BY DEF Absent
<1>4. ~IsSealed(Session) BY <1>2, <1>3 DEF ClearParts, Readable, IsSealed
<1> QED BY <1>1, <1>4 DEF ClearParts, ClearAlone

\* Only one thread at a time draws a key.
LEMMA DrawerAlone ==
  ASSUME ThreadInv, ClearParts, NEW t \in Threads, NEW u \in Threads, Drawing(u),
         Drawing(t) \/ (th[t].pc = "key" /\ cache[Proc(t)] = 0
                          /\ \A v \in Threads \ {t} : Drawing(v) => Proc(v) # Proc(t))
  PROVE  t = u
<1> SUFFICES ASSUME t # u PROVE FALSE OBVIOUS
<1>1. Busy(t) /\ Busy(u) BY DEF Drawing, Busy
<1>2. Key = Absent BY DEF ClearParts, OneKeyFor
<1>3. cache[Proc(t)] = 0 /\ cache[Proc(u)] = 0 BY DEF ThreadInv, DrawsAlone
<1>4. Proc(t) # Proc(u) BY DEF ThreadInv, DrawsAlone
<1>5. CASE u = Cmd
  <2>1. t \in Threads \ {Cmd} /\ cache["serve"] = 0 BY <1>3, <1>4, <1>5, Members
  <2> QED BY <1>1, <1>2, <1>5, <2>1, KeylessAlone
<1>6. CASE t = Cmd
  <2>1. u \in Threads \ {Cmd} /\ cache["serve"] = 0 BY <1>3, <1>4, <1>6, Members
  <2> QED BY <1>1, <1>2, <1>6, <2>1, KeylessAlone
<1> QED BY <1>4, <1>5, <1>6, Members

LEMMA StrayGrows == [Next]_vars /\ stray' = {} => stray = {}
<1> SUFFICES ASSUME [Next]_vars PROVE stray \subseteq stray' OBVIOUS
<1>1. ASSUME NEW t \in Threads, Thread(t) PROVE stray \subseteq stray'
  BY <1>1 DEF Thread, Returns, KeyFound, KeyDrawn, KeyWritten, KeyPlaced, KeyReread,
              SaveStarts, SaveWrites, SaveRenames, SaveLosesTmp, Late
<1>2. CASE BootDaemon \/ Refresh \/ Status \/ Login \/ \E t \in Calls : Call(t)
  BY <1>2 DEF BootDaemon, Refresh, Status, Login, Call, Meets
<1>3. ASSUME NEW t \in Threads, Fails(t) PROVE stray \subseteq stray' BY <1>3 DEF Fails
<1>4. ASSUME NEW p \in {"serve", "command"}, Kill(p) PROVE stray \subseteq stray'
  BY <1>4 DEF Kill
<1>5. CASE UNCHANGED vars BY <1>5 DEF vars
<1> QED BY <1>1, <1>2, <1>3, <1>4, <1>5 DEF Next

-----------------------------------------------------------------------------
(* Calls begin and end.                                                    *)

LEMMA SameFiles ==
  ASSUME ClearParts, UNCHANGED <<file, cache>>
  PROVE  /\ Session' = Session /\ Key' = Key /\ Readable'
         /\ Key' = Absent \/ IsSealed(Key')
         /\ \A p \in {"serve", "command"} : cache'[p] \in {0, Key'.key}
BY DEF ClearParts, Readable, OneKeyFor, Session, Key

LEMMA StartsClear ==
  ASSUME ThreadInv, ClearParts, stray' = {},
         BootDaemon \/ Refresh \/ Status \/ Login \/ \E t \in Calls : Call(t)
  PROVE  ClearParts'
<1>0. TypeOK /\ TypeOK' BY StartsType DEF ThreadInv
<1>1. /\ UNCHANGED <<file, cache, lost>>
  BY DEF BootDaemon, Refresh, Status, Login, Call, rest
<1>2. /\ Session' = Session /\ Key' = Key /\ Readable'
      /\ Key' = Absent \/ IsSealed(Key')
      /\ \A p \in {"serve", "command"} : cache'[p] \in {0, Key'.key}
  BY <1>1, SameFiles
<1>3. /\ token \in Nat /\ mem \in Nat /\ mem <= token /\ Session.tok \in Int
      /\ Session.tok <= token
      /\ Absent.tok = -1 /\ Absent.key = 0
  BY <1>0, NumbersType, FileType DEF Session, Names, Absent
<1>4. ASSUME NEW t \in Threads, th'[t].pc = "key", \A u \in Threads \ {t} : th'[u] = th[u]
      PROVE  OneKeyFor' /\ TmpOwned'
  <2>1. \A u \in Threads : Drawing(u)' => Drawing(u) BY <1>4 DEF Drawing
  <2>2. OneKeyFor' BY <1>2, <2>1 DEF OneKeyFor, ClearParts
  <2>3. TmpOwned' BY <1>1, <1>4 DEF TmpOwned, ClearParts
  <2> QED BY <2>2, <2>3
<1>5. CASE BootDaemon
  <2>1. /\ up # "on" /\ ~Busy(Boot) /\ up' = "boot" /\ UNCHANGED <<token, mem>>
        /\ Session # Absent
        /\ ~Busy(Cmd) \/ IsSealed(Session)
    BY <1>5 DEF BootDaemon, Meets, ThreadInv, Lives
  <2>2. /\ th'[Boot] = Hand("key", "load", Session, 0, 0, Gone)
        /\ \A u \in Threads \ {Boot} : th'[u] = th[u]
    BY <1>0, <1>5, LoadType, Members DEF BootDaemon
  <2>3. /\ th'[Boot].pc = "key" /\ th'[Boot].op = "load" /\ th'[Boot].raw = Session
        /\ th'[Boot].tok = 0
    BY <2>2, HandFields
  <2>4. th'[Cmd] = th[Cmd] /\ th'[Auth] = th[Auth] /\ ~Busy(Auth) BY <2>1, <2>2, Members DEF ThreadInv, Lives
  <2>5. ClearAlone'
    <3>1. ~Reseals(Cmd)'
      BY <2>1, <2>4 DEF ClearParts, ClearAlone, Reseals, InClear, Busy, Writing, Keying
    <3>2. Reseals(Boot)' => ~IsSealed(Session) /\ InHand(Boot)' = Session.tok
      BY <2>3 DEF Reseals, InClear, InHand, Writing
    <3>3. \A t \in Calls : th'[t].pc \notin Writing
      <4>1. \A t \in Calls \ {Boot} : t \in Threads \ {Boot, Cmd} BY Members, ThreadsAssumption
      <4>2. \A t \in Calls \ {Boot} : ~Busy(t) /\ th'[t] = th[t]
        BY <2>1, <2>2, <4>1 DEF ThreadInv, Lives
      <4> QED BY <2>3, <4>2 DEF Busy, Writing
    <3>4. ~IsSealed(Session)' => ~Busy(Cmd)' BY <1>2, <2>1, <2>4 DEF Busy
    <3> QED BY <1>2, <2>1, <3>1, <3>2, <3>3, <3>4 DEF ClearAlone
  <2>6. SavesNewest'
    <3>1. LoggingIn' => LoggingIn BY <2>4 DEF LoggingIn
    <3>2. LoggingIn => Session.tok < token /\ Session.tok > 0
      BY <2>1 DEF ClearParts, SavesNewest, Readable
    <3>3. LoggingIn' => th'[Boot].raw.tok < token /\ th'[Boot].tok < token
      BY <1>3, <2>3, <3>1, <3>2
    <3>4. th'[Auth].pc \notin Keying \cup Writing BY <2>4 DEF Busy, Keying, Writing
    <3> QED BY <1>2, <2>1, <2>4, <3>1, <3>3, <3>4 DEF SavesNewest, ClearParts
  <2>7. NewestSaved'
    <3>1. \A t \in Threads : th[t].op = "save" /\ Busy(t) => t # Boot
      BY Members DEF ThreadInv, HasSession
    <3>2. \A t \in Threads : th[t].pc \in Keying \cup Writing \cup {"error"} => Busy(t)
      BY DEF Busy, Keying, Writing
    <3> QED BY <1>1, <1>2, <2>1, <2>2, <3>1, <3>2 DEF NewestSaved, ClearParts
  <2> QED BY <1>2, <1>4, <2>2, <2>3, <2>5, <2>6, <2>7, Members DEF ClearParts
<1>6. CASE Status
  <2>1. /\ UNCHANGED <<up, token, mem>> /\ Session # Absent /\ ~Busy(Cmd)
        /\ up = "off" \/ IsSealed(Session)
    BY <1>6 DEF Status, Meets
  <2>2. /\ th'[Cmd] = Hand("key", "load", Session, 0, 0, Gone)
        /\ \A u \in Threads \ {Cmd} : th'[u] = th[u]
    BY <1>0, <1>6, LoadType, Members DEF Status
  <2>3. th'[Cmd].pc = "key" /\ th'[Cmd].op = "load" /\ th'[Cmd].raw = Session
    BY <2>2, HandFields
  <2>4. /\ th'[Boot] = th[Boot] /\ th'[Auth] = th[Auth] /\ \A t \in Calls : th'[t] = th[t]
    BY <2>2, Members, ThreadsAssumption
  <2>5. ClearAlone'
    <3>1. Reseals(Cmd)' => ~IsSealed(Session) /\ InHand(Cmd)' = Session.tok
      BY <2>3 DEF Reseals, InClear, InHand, Writing
    <3>2. /\ Reseals(Boot)' <=> Reseals(Boot)
          /\ InHand(Boot)' = InHand(Boot)
      BY <2>4 DEF Reseals, InClear, InHand
    <3> QED BY <1>2, <2>1, <2>4, <3>1, <3>2 DEF ClearAlone, ClearParts
  <2>6. SavesNewest'
    <3>1. ~LoggingIn' BY <2>3 DEF LoggingIn
    <3> QED BY <2>1, <2>4, <3>1 DEF SavesNewest, ClearParts
  <2>7. NewestSaved'
    <3>1. \A t \in Threads : th[t].pc \in Keying \cup Writing \cup {"error"} => t # Cmd
      BY <2>1 DEF Busy, Keying, Writing
    <3> QED BY <1>1, <1>2, <2>1, <2>2, <3>1 DEF NewestSaved, ClearParts
  <2> QED BY <1>2, <1>4, <2>2, <2>3, <2>5, <2>6, <2>7, Members DEF ClearParts
<1>7. CASE \E t \in Calls : Call(t)
  <2>1. PICK t \in Calls : Call(t) BY <1>7
  <2>2. UNCHANGED <<up, token, mem>> /\ up = "on" /\ ~Busy(t) /\ Loads(t)
    BY <2>1 DEF Call
  <2>3. t \in Threads /\ t # Cmd /\ t # Auth BY ThreadsAssumption, Members
  <2>4. /\ th'[t] = Hand("key", "load", Session, 0, 0, Gone)
        /\ \A u \in Threads \ {t} : th'[u] = th[u]
    BY <1>0, <2>2, <2>3, LoadType
  <2>5. th'[t].pc = "key" BY <2>4, HandFields
  <2>6. th'[Cmd] = th[Cmd] /\ th'[Auth] = th[Auth] BY <2>3, <2>4, Members
  <2>7. ClearAlone'
    <3>1. Reseals(Cmd)' <=> Reseals(Cmd) BY <2>6 DEF Reseals, InClear
    <3>2. \A u \in Calls : th'[u].pc \notin Writing
      BY <2>2, <2>4, <2>5, Members DEF ClearParts, ClearAlone, Writing
    <3> QED BY <1>2, <2>2, <2>6, <3>1, <3>2 DEF ClearAlone, ClearParts, Busy
  <2>8. SavesNewest'
    BY <1>2, <2>2, <2>6 DEF SavesNewest, ClearParts, LoggingIn
  <2>9. NewestSaved'
    <3>1. \A u \in Threads : th[u].pc \in Keying \cup Writing \cup {"error"} => u # t
      BY <2>2 DEF Busy, Keying, Writing
    <3> QED BY <1>1, <1>2, <2>2, <2>4, <3>1 DEF NewestSaved, ClearParts
  <2> QED BY <1>2, <1>4, <2>3, <2>4, <2>5, <2>7, <2>8, <2>9 DEF ClearParts
<1>8. ASSUME NEW t \in {Auth, Cmd}, Saves(t, token + 1), token' = token + 1
      PROVE  /\ th'[t] = Hand("key", "save", Absent, token + 1, 0, Gone)
             /\ \A u \in Threads \ {t} : th'[u] = th[u]
  <2>1. token + 1 \in 0..token' /\ token' \in Nat /\ token <= token' BY <1>3, <1>8
  <2>2. drawn' = drawn BY DEF BootDaemon, Refresh, Status, Login, Call, rest
  <2>3. th \in [Threads -> Hands'] BY <1>0, <2>1, <2>2, Grow, NumbersType
  <2> QED BY <1>0, <1>8, <2>1, <2>2, <2>3, SaveType, Members
<1>9. CASE Refresh
  <2>1. /\ up = "on" /\ mem = token /\ ~Busy(Auth) /\ token' = token + 1 /\ mem' = token + 1
        /\ up' = up
    BY <1>9 DEF Refresh
  <2>2. /\ th'[Auth] = Hand("key", "save", Absent, token + 1, 0, Gone)
        /\ \A u \in Threads \ {Auth} : th'[u] = th[u]
    BY <1>8, <1>9, <2>1 DEF Refresh
  <2>3. th'[Auth].pc = "key" /\ th'[Auth].op = "save" /\ th'[Auth].tok = token + 1
    BY <2>2, HandFields
  <2>4. th'[Cmd] = th[Cmd] /\ \A u \in Calls : th'[u] = th[u]
    BY <2>2, Members, ThreadsAssumption
  <2>5. ClearAlone'
    <3>1. Reseals(Cmd)' <=> Reseals(Cmd) BY <2>4 DEF Reseals, InClear
    <3> QED BY <1>2, <2>1, <2>4, <3>1 DEF ClearAlone, ClearParts, Busy
  <2>6. SavesNewest'
    <3>1. ~LoggingIn BY <1>3, <2>1 DEF ClearParts, SavesNewest
    <3>2. ~LoggingIn' BY <2>4, <3>1 DEF LoggingIn
    <3> QED BY <2>1, <2>3, <3>2 DEF SavesNewest
  <2>7. NewestSaved' BY <2>1, <2>3, Members DEF NewestSaved, Keying
  <2> QED BY <1>2, <1>4, <2>2, <2>3, <2>5, <2>6, <2>7, Members DEF ClearParts
<1>10. CASE Login
  <2>1. up = "off" /\ token' = token + 1 /\ UNCHANGED <<up, mem>> /\ ~Busy(Cmd)
    BY <1>10 DEF Login
  <2>2. /\ th'[Cmd] = Hand("key", "save", Absent, token + 1, 0, Gone)
        /\ \A u \in Threads \ {Cmd} : th'[u] = th[u]
    BY <1>8, <1>10, <2>1 DEF Login
  <2>3. th'[Cmd].pc = "key" /\ th'[Cmd].op = "save" /\ th'[Cmd].tok = token + 1
    BY <2>2, HandFields
  <2>4. /\ th'[Auth] = th[Auth] /\ \A u \in Calls : th'[u] = th[u]
    BY <2>2, Members, ThreadsAssumption
  <2>5. ClearAlone'
    <3>1. ~Reseals(Cmd)' BY <2>3 DEF Reseals
    <3> QED BY <2>1, <2>4, <3>1 DEF ClearAlone, ClearParts
  <2>6. SavesNewest'
    <3>1. th'[Auth].pc \notin Keying \cup Writing
      BY <2>1, <2>4, Members DEF ThreadInv, Lives, Busy, Keying, Writing
    <3> QED BY <1>2, <1>3, <2>1, <2>3, <3>1 DEF SavesNewest
  <2>7. NewestSaved' BY <2>1, <2>3, Members DEF NewestSaved, Keying
  <2> QED BY <1>2, <1>4, <2>2, <2>3, <2>5, <2>6, <2>7, Members DEF ClearParts
<1> QED BY <1>5, <1>6, <1>7, <1>9, <1>10

LEMMA EndedClear ==
  ASSUME ThreadInv, ThreadInv', ClearParts, NEW p \in {"serve", "command"}, Ended(p),
         UNCHANGED <<file, token>>
  PROVE  ClearParts'
<1>0. TypeOK BY DEF ThreadInv
<1>1. Idle.pc = "idle" /\ Idle.op = "load" BY DEF Idle
<1>2. /\ \A u \in Threads : th'[u] = IF Proc(u) = p THEN Idle ELSE th[u]
      /\ cache'[p] = 0 /\ \A q \in {"serve", "command"} \ {p} : cache'[q] = cache[q]
  BY <1>0, EndedMoves
<1>3. \A u \in Threads : Proc(u) \in {"serve", "command"} BY DEF Proc
<1>4. Session' = Session /\ Key' = Key BY DEF Session, Key
<1>5. Readable' BY <1>4 DEF Readable, ClearParts
<1>6. OneKeyFor'
  <2>1. \A u \in Threads : Drawing(u)' => Drawing(u) BY <1>1, <1>2 DEF Drawing
  <2> QED BY <1>2, <1>4, <2>1 DEF OneKeyFor, ClearParts
<1>7. TmpOwned' BY <1>1, <1>2, <1>3 DEF TmpOwned, ClearParts
<1>8. NewestSaved'
  <2>1. lost' = (lost \/ \E u \in Threads :
                           Proc(u) = p /\ th[u].op = "save" /\ th[u].pc # "ok")
    BY DEF Ended
  <2>2. CASE lost \/ token = 0 \/ Session.tok = token BY <1>4, <2>1, <2>2 DEF NewestSaved
  <2>3. CASE \E u \in Threads : /\ th[u].op = "save" /\ th[u].tok = token
                                /\ th[u].pc \in Keying \cup Writing \cup {"error"}
    <3>1. PICK u \in Threads : /\ th[u].op = "save" /\ th[u].tok = token
                               /\ th[u].pc \in Keying \cup Writing \cup {"error"}
      BY <2>3
    <3>2. CASE Proc(u) = p BY <2>1, <3>1, <3>2 DEF NewestSaved, Keying, Writing
    <3>3. CASE Proc(u) # p
      <4>1. th'[u] = th[u] BY <1>2, <3>3
      <4> QED BY <3>1, <4>1 DEF NewestSaved
    <3> QED BY <3>2, <3>3
  <2> QED BY <2>2, <2>3 DEF ClearParts, NewestSaved
<1>9. CASE p = "serve"
  <2>1. /\ up' = "off" /\ mem' = 0 /\ th'[Cmd] = th[Cmd]
        /\ \A u \in Threads \ {Cmd} : th'[u] = Idle
    BY <1>2, <1>9, Members DEF Ended
  <2>2. ClearAlone'
    <3>1. /\ Reseals(Cmd)' <=> Reseals(Cmd)
          /\ InHand(Cmd)' = InHand(Cmd)
      BY <2>1 DEF Reseals, InHand, InClear
    <3>2. \A u \in Calls : th'[u].pc \notin Writing
      BY <1>1, <2>1, Members, ThreadsAssumption DEF Writing
    <3> QED BY <1>4, <2>1, <3>1, <3>2 DEF ClearAlone, ClearParts
  <2>3. SavesNewest'
    <3>1. LoggingIn' => LoggingIn BY <2>1 DEF LoggingIn
    <3>2. LoggingIn => 0 < token BY Members DEF ClearParts, SavesNewest, ThreadInv, HasSession, LoggingIn
    <3>3. th'[Auth].pc \notin Keying \cup Writing
      BY <1>1, <2>1, Members DEF Keying, Writing
    <3> QED BY <1>4, <2>1, <3>1, <3>2, <3>3 DEF SavesNewest, ClearParts
  <2> QED BY <1>5, <1>6, <1>7, <1>8, <2>2, <2>3 DEF ClearParts
<1>10. CASE p = "command"
  <2>1. /\ UNCHANGED <<up, mem>> /\ th'[Cmd] = Idle
        /\ \A u \in Threads \ {Cmd} : th'[u] = th[u]
    BY <1>2, <1>10, Members DEF Ended
  <2>2. /\ th'[Boot] = th[Boot] /\ th'[Auth] = th[Auth] /\ \A u \in Calls : th'[u] = th[u]
    BY <2>1, Members, ThreadsAssumption
  <2>3. ClearAlone'
    <3>1. ~Busy(Cmd)' /\ ~Reseals(Cmd)' BY <1>1, <2>1 DEF Busy, Reseals, Writing, Keying
    <3>2. /\ Reseals(Boot)' <=> Reseals(Boot)
          /\ InHand(Boot)' = InHand(Boot)
      BY <2>2 DEF Reseals, InHand, InClear
    <3> QED BY <1>4, <2>1, <2>2, <3>1, <3>2 DEF ClearAlone, ClearParts
  <2>4. SavesNewest'
    <3>1. ~LoggingIn' BY <1>1, <2>1 DEF LoggingIn
    <3> QED BY <2>1, <2>2, <3>1 DEF SavesNewest, ClearParts
  <2> QED BY <1>5, <1>6, <1>7, <1>8, <2>3, <2>4 DEF ClearParts
<1> QED BY <1>9, <1>10

LEMMA ReturnsClear ==
  ASSUME ThreadInv, ThreadInv', ClearParts, NEW t \in Threads, Returns(t)
  PROVE  ClearParts'
<1>0. TypeOK /\ Proc(t) \in {"serve", "command"} BY DEF ThreadInv, Proc
<1>1. CASE Ended(Proc(t)) BY <1>0, <1>1, EndedClear DEF Returns
<1>2. CASE ~Ended(Proc(t))
  <2>1. /\ t # Cmd /\ Busy(t) /\ th[t].pc \in {"ok", "error"} /\ Step(t, Idle)
        /\ lost' = (lost \/ (th[t].pc = "error" /\ th[t].op = "save"))
        /\ UNCHANGED <<file, cache, token>>
        /\ \/ up' = up /\ mem' = mem
           \/ up = "boot" /\ up' = "on" /\ mem' = th[t].tok
    BY <1>2, ReturnMoves
  <2>2. /\ up # "off" /\ (up = "boot" => t = Boot) BY <1>2, ReturnMoves
  <2>3. /\ th'[t] = Idle /\ \A u \in Threads \ {t} : th'[u] = th[u]
        /\ Idle.pc = "idle" /\ Idle.op = "load" /\ Idle.tok = 0 /\ Idle.raw.tok = -1
    BY <1>0, <2>1, StepMoves DEF Idle, Absent
  <2>4. /\ Session' = Session /\ Key' = Key /\ Readable'
        /\ Key' = Absent \/ IsSealed(Key')
        /\ \A p \in {"serve", "command"} : cache'[p] \in {0, Key'.key}
    BY <2>1, SameFiles
  <2>5. th'[Cmd] = th[Cmd] BY <2>1, <2>3, Members
  <2>6. ClearAlone'
    <3>1. ~Reseals(Cmd)
      BY <2>2 DEF ClearParts, ClearAlone
    <3>2. ~Reseals(Cmd)' BY <2>5, <3>1 DEF Reseals, InClear
    <3>3. \A u \in Calls : th'[u].pc \notin Writing
      <4>1. ASSUME NEW u \in Calls, th[u].pc \in Writing PROVE u = t
        <5>1. u = Boot /\ up = "boot" BY <4>1, CallResealing
        <5> QED BY <2>2, <5>1
      <4>2. \A u \in Calls : u \in Threads BY Members
      <4> QED BY <2>3, <4>1, <4>2 DEF Writing
    <3>4. up' # "off" BY <2>1, <2>2
    <3>5. up' = "boot" => ~Reseals(Boot)'
      BY <2>1, <2>2, <2>3 DEF Reseals, Writing, Keying
    <3> QED BY <2>2, <2>4, <2>5, <3>2, <3>3, <3>4, <3>5 DEF ClearAlone, ClearParts, Busy
  <2>7. SavesNewest'
    <3>1. LoggingIn' => LoggingIn BY <2>5 DEF LoggingIn
    <3>2. LoggingIn' => mem' < token
      BY <2>1, <2>2, <3>1 DEF ClearParts, SavesNewest
    <3>3. th'[Auth].pc \in Keying \cup Writing
            => th'[Auth] = th[Auth] /\ th[Auth].pc \in Keying \cup Writing
      BY <2>3, Members DEF Keying, Writing
    <3>4. th[Auth].pc \in Keying \cup Writing => up = "on"
      BY DEF ClearParts, SavesNewest
    <3>5. LoggingIn /\ up' = "boot" => th'[Boot].raw.tok < token /\ th'[Boot].tok < token
      <4>1. LoggingIn => token > 0 BY Members DEF ClearParts, SavesNewest, LoggingIn, ThreadInv, HasSession
      <4> QED BY <1>0, <2>1, <2>2, <2>3, <4>1, NumbersType
    <3>6. LoggingIn' => th'[Cmd].tok = token' /\ Session'.tok < token' /\ mem' < token'
      BY <2>1, <2>4, <2>5, <3>1, <3>2 DEF SavesNewest, ClearParts
    <3>7. up = "on" => up' = "on" /\ mem' = mem BY <2>1
    <3> QED BY <2>1, <3>1, <3>3, <3>4, <3>5, <3>6, <3>7 DEF SavesNewest, ClearParts
  <2>8. OneKeyFor'
    <3>1. \A u \in Threads : Drawing(u)' => Drawing(u) BY <2>3 DEF Drawing
    <3> QED BY <2>4, <3>1 DEF OneKeyFor, ClearParts
  <2>9. TmpOwned' BY <2>1, <2>3 DEF TmpOwned, ClearParts
  <2>10. NewestSaved'
    <3>1. ASSUME NEW u \in Threads, th[u].op = "save", th[u].tok = token,
                 th[u].pc \in Keying \cup Writing \cup {"error"}
          PROVE  NewestSaved'
      <4>1. CASE u = t BY <2>1, <3>1, <4>1 DEF NewestSaved, Keying, Writing
      <4>2. CASE u # t
        <5>1. th'[u] = th[u] /\ token' = token BY <2>1, <2>3, <4>2
        <5> QED BY <3>1, <5>1 DEF NewestSaved
      <4> QED BY <4>1, <4>2
    <3> QED BY <2>1, <2>4, <3>1 DEF NewestSaved, ClearParts
  <2> QED BY <2>4, <2>6, <2>7, <2>8, <2>9, <2>10 DEF ClearParts
<1> QED BY <1>1, <1>2

-----------------------------------------------------------------------------
(* A thread works on its call.                                             *)

\* What any step of it keeps that does not replace session.json.
LEMMA WorkClear ==
  ASSUME ThreadInv, ThreadInv', ClearParts, NEW t \in Threads, Works(t),
         UNCHANGED local, Session' = Session,
         th[t].pc \in Keying \cup Writing,
         Reseals(t)' => Reseals(t) /\ InHand(t)' = InHand(t),
         t \in Calls /\ th'[t].pc \in Writing => up = "boot",
         th'[t].tok \in {th[t].tok, th[t].raw.tok},
         th[t].op = "save" => th'[t].pc \in Keying \cup Writing \cup {"error"}
  PROVE  ClearAlone' /\ SavesNewest' /\ NewestSaved'
<1>0. /\ UNCHANGED <<up, token, mem, lost>> /\ token \in Nat /\ Absent.tok = -1
  BY NumbersType DEF local, ThreadInv, Absent
<1>1. \A u \in Threads \ {t} :
        /\ th'[u].pc = th[u].pc /\ th'[u].op = th[u].op /\ th'[u].raw = th[u].raw
        /\ th'[u].tok = th[u].tok
  BY DEF Works, Others
<1>2. \A u \in Threads : Reseals(u)' => Reseals(u) /\ InHand(u)' = InHand(u)
  BY <1>1 DEF Reseals, InHand, InClear
<1>3. ClearAlone'
  <2>1. Busy(Cmd)' <=> Busy(Cmd) BY <1>1, Members DEF Works, Busy
  <2>2. \A u \in Calls : th'[u].pc \in Writing => up = "boot"
    BY <1>1, Members DEF ClearParts, ClearAlone
  <2> QED BY <1>0, <1>2, <2>1, <2>2, Members DEF ClearAlone, ClearParts
<1>4. SavesNewest'
  <2>1. ASSUME NEW u \in {Cmd, Auth}, th'[u].op = "save", th'[u].pc \in Keying \cup Writing
        PROVE  th[u].op = "save" /\ th[u].pc \in Keying \cup Writing /\ th'[u].tok = th[u].tok
    BY <1>1, <2>1, Members DEF Works
  <2>2. LoggingIn' => LoggingIn /\ th'[Cmd].tok = th[Cmd].tok BY <2>1 DEF LoggingIn
  <2>3. th'[Auth].pc \in Keying \cup Writing
          => th[Auth].pc \in Keying \cup Writing /\ th'[Auth].tok = th[Auth].tok
    <3>1. th'[Auth].pc \in Keying \cup Writing => th'[Auth].op = "save"
      BY Members DEF ThreadInv, HasSession, Busy, Keying, Writing
    <3> QED BY <2>1, <3>1
  <2>4. ASSUME LoggingIn, up = "boot" PROVE th'[Boot].raw.tok < token /\ th'[Boot].tok < token
    <3>1. th[Boot].raw.tok < token /\ th[Boot].tok < token
      BY <2>4 DEF ClearParts, SavesNewest
    <3>2. /\ th'[Boot].raw \in {th[Boot].raw, Absent}
          /\ th'[Boot].tok \in {th[Boot].tok, th[Boot].raw.tok}
      BY <1>1, Members DEF Works
    <3> QED BY <1>0, <3>1, <3>2
  <2> QED BY <1>0, <2>2, <2>3, <2>4 DEF SavesNewest, ClearParts
<1>5. NewestSaved'
  <2>1. ASSUME NEW u \in Threads, th[u].op = "save", th[u].tok = token,
               th[u].pc \in Keying \cup Writing \cup {"error"}
        PROVE  th'[u].op = "save" /\ th'[u].tok = token /\ th'[u].pc \in Keying \cup Writing \cup {"error"}
    BY <1>1, <2>1 DEF Works
  <2> QED BY <1>0, <2>1 DEF NewestSaved, ClearParts
<1> QED BY <1>3, <1>4, <1>5

\* The files and keys stay, the drawers are among those of before.
LEMMA SameKey ==
  ASSUME ClearParts, NEW t \in Threads, Others(t), Session' = Session, Key' = Key,
         \A p \in {"serve", "command"} : cache'[p] \in {0, cache[p], Key.key},
         Drawing(t)' => Drawing(t) \/ Key = Absent
  PROVE  OneKeyFor' /\ Readable'
<1>1. \A u \in Threads \ {t} : Drawing(u)' => Drawing(u) BY DEF Others, Drawing
<1>2. \A u \in Threads : Drawing(u)' => Key = Absent
  BY <1>1 DEF ClearParts, OneKeyFor
<1>3. Readable' BY DEF Readable, ClearParts
<1> QED BY <1>2, <1>3 DEF OneKeyFor, ClearParts

LEMMA FailsClear ==
  ASSUME ThreadInv, ClearParts, NEW t \in Threads, Fails(t)
  PROVE  ClearParts'
<1>0. TypeOK /\ ThreadInv' /\ Works(t) BY FailsThread DEF ThreadInv
<1>1. UNCHANGED <<file, cache>> /\ UNCHANGED local /\ Session' = Session /\ Key' = Key
  BY DEF Fails, Session, Key
<1>2. PICK pc \in {"ok", "error"} : Step(t, Over(t, pc)) /\ (th[t].op = "save" => pc = "error")
  BY DEF Fails
<1>3. /\ th'[t].pc = pc /\ th'[t].op = th[t].op /\ th'[t].tok = th[t].tok
      /\ Others(t) /\ \A u \in Threads \ {t} : th'[u] = th[u]
  BY <1>0, <1>2, StepMoves, OverWorks
<1>4. th[t].pc \in Keying \cup Writing BY DEF Fails, Keying, Writing
<1>5. ~Reseals(t)' /\ th'[t].pc \notin Writing
  BY <1>3 DEF Reseals, Keying, Writing
<1>6. ClearAlone' /\ SavesNewest' /\ NewestSaved'
  BY <1>0, <1>1, <1>2, <1>3, <1>4, <1>5, WorkClear
<1>7. OneKeyFor' /\ Readable'
  <2>1. ~Drawing(t)' BY <1>3 DEF Drawing
  <2> QED BY <1>1, <1>3, <2>1, SameKey
<1>8. TmpOwned' BY <1>1, <1>3 DEF TmpOwned, ClearParts
<1> QED BY <1>6, <1>7, <1>8 DEF ClearParts

\* A thread goes on with the key of its process: alone, if its session is in clear.
LEMMA WithKeyClear ==
  ASSUME ThreadInv, ThreadInv', ClearParts, stray' = {}, NEW t \in Threads, Late(t), Works(t),
         NEW k, k # 0, th[t].pc \in Keying, th'[t] = WithKey(t, k),
         UNCHANGED local, Session' = Session
  PROVE  ClearAlone' /\ SavesNewest' /\ NewestSaved' /\ th'[t].pc \in {"ok", "save", "error"}
<1>1. /\ th'[t].pc \in {"ok", "save", "error"} /\ th'[t].op = th[t].op
      /\ th[t].op = "save" => th'[t].tok = th[t].tok /\ th'[t].pc = "save"
      /\ th[t].op = "load" => th'[t].tok = th[t].raw.tok
      /\ th[t].op = "load" /\ th'[t].pc = "save" => InClear(t)
  BY WithKeyWorks
<1>2. th[t].op \in {"load", "save"} BY HandType DEF ThreadInv
<1>3. Reseals(t)' => Reseals(t) /\ InHand(t)' = InHand(t)
  <2>1. SUFFICES ASSUME Reseals(t)' PROVE Reseals(t) /\ InHand(t)' = InHand(t) OBVIOUS
  <2>2. th[t].op = "load" /\ th'[t].pc = "save"
    BY <1>1, <2>1 DEF Reseals, Keying, Writing
  <2>3. Reseals(t) BY <1>1, <2>2 DEF Reseals
  <2>4. th[t].pc \notin Writing BY DEF Keying, Writing
  <2> QED BY <1>1, <2>2, <2>3, <2>4 DEF InHand, Writing
<1>4. t \in Calls /\ th'[t].pc \in Writing => up = "boot"
  <2>1. SUFFICES ASSUME t \in Calls, th'[t].pc \in Writing PROVE up = "boot" OBVIOUS
  <2>2. t # Cmd /\ t # Auth BY <2>1, ThreadsAssumption
  <2>3. th[t].op = "load" BY <1>2, <2>2 DEF ThreadInv, HasSession
  <2>4. InClear(t) BY <1>1, <2>1, <2>3 DEF Writing
  <2>5. up # "on" BY <2>2, <2>3, <2>4 DEF Late
  <2>6. Busy(t) BY DEF Works
  <2>7. up # "off" BY <2>2, <2>6, BootReturns
  <2> QED BY <2>5, <2>7 DEF ThreadInv, TypeOK
<1>5. th'[t].tok \in {th[t].tok, th[t].raw.tok} BY <1>1, <1>2
<1>6. th[t].op = "save" => th'[t].pc \in Keying \cup Writing \cup {"error"}
  BY <1>1 DEF Writing
<1> QED BY <1>1, <1>3, <1>4, <1>5, <1>6, WorkClear

LEMMA KeyFoundClear ==
  ASSUME ThreadInv, ClearParts, stray' = {}, NEW t \in Threads, KeyFound(t)
  PROVE  ClearParts'
<1>0. TypeOK /\ ThreadInv' /\ Works(t) /\ Others(t) /\ \A u \in Threads \ {t} : th'[u] = th[u]
  BY KeyFoundThread DEF ThreadInv, Works
<1>1. /\ file' = file /\ UNCHANGED local /\ Session' = Session /\ Key' = Key /\ Late(t)
      /\ th[t].pc = "key" /\ th[t].pc \in Keying
  BY DEF KeyFound, AtKey, Session, Key, Keying
<1>2. CASE th'[t] = Over(t, "error") /\ cache' = cache
  <2>1. th'[t].pc = "error" /\ th'[t].op = th[t].op /\ th'[t].tok = th[t].tok
    BY <1>0, <1>2, OverWorks
  <2>2. ~Reseals(t)' /\ th'[t].pc \notin Writing /\ ~Drawing(t)'
    BY <2>1 DEF Reseals, Keying, Writing, Drawing
  <2>3. ClearAlone' /\ SavesNewest' /\ NewestSaved' BY <1>0, <1>1, <2>1, <2>2, WorkClear
  <2>4. OneKeyFor' /\ Readable' BY <1>0, <1>1, <1>2, <2>2, SameKey
  <2>5. TmpOwned' BY <1>0, <1>1, <1>2, <2>1 DEF TmpOwned, ClearParts
  <2> QED BY <2>3, <2>4, <2>5 DEF ClearParts
<1>3. ASSUME NEW k \in 0..drawn, k # 0, k \in {cache[Proc(t)], Key.key}, KeyLoaded(t, k),
             th'[t] = WithKey(t, k)
      PROVE  ClearParts'
  <2>1. ClearAlone' /\ SavesNewest' /\ NewestSaved' /\ th'[t].pc \in {"ok", "save", "error"}
    BY <1>0, <1>1, <1>3, WithKeyClear
  <2>2. /\ Proc(t) \in {"serve", "command"} /\ cache'[Proc(t)] = k
        /\ \A p \in {"serve", "command"} \ {Proc(t)} : cache'[p] = cache[p]
    BY <1>0, <1>3, NumbersType DEF KeyLoaded, TypeOK
  <2>3. OneKeyFor' /\ Readable'
    <3>1. \A p \in {"serve", "command"} : cache'[p] \in {0, cache[p], Key.key}
      BY <1>3, <2>2
    <3>2. ~Drawing(t)' BY <2>1 DEF Drawing
    <3> QED BY <1>0, <1>1, <3>1, <3>2, SameKey
  <2>4. TmpOwned'
    <3>1. ASSUME NEW u \in Threads, th[u].pc = "rename"
          PROVE  cache'[Proc(u)] = cache[Proc(u)]
      <4>1. cache[Proc(u)] # 0 BY <3>1 DEF ThreadInv, HasSession, Writing
      <4> QED BY <4>1, <1>0 DEF Works, Proc
    <3> QED BY <1>0, <1>1, <2>1, <3>1 DEF TmpOwned, ClearParts
  <2> QED BY <2>1, <2>3, <2>4 DEF ClearParts
<1> QED BY <1>2, <1>3, KeyFoundThread

LEMMA KeyDrawnClear ==
  ASSUME ThreadInv, ClearParts, NEW t \in Threads, KeyDrawn(t)
  PROVE  ClearParts'
<1>0. /\ TypeOK /\ ThreadInv' /\ Works(t) /\ Others(t)
      /\ th'[t].pc = "newkey" /\ th'[t].op = th[t].op /\ th'[t].raw = th[t].raw
      /\ th'[t].tok = th[t].tok /\ th'[t].fd = ".atrest.key.tmp"
  BY KeyDrawnThread DEF ThreadInv, Works
<1>1. /\ \A u \in Threads \ {t} : th'[u] = th[u]
      /\ \A n \in Names \ {".atrest.key.tmp"} : file'[n] = file[n]
  BY <1>0, KeyDrawnMoves
<1>2. /\ UNCHANGED cache /\ UNCHANGED local /\ th[t].pc = "key" /\ Key = Absent
      /\ cache[Proc(t)] = 0 /\ \A u \in Threads \ {t} : Drawing(u) => Proc(u) # Proc(t)
  BY DEF KeyDrawn, AtKey, Drawing
<1>3. Session' = Session /\ Key' = Key BY <1>1 DEF Session, Key, Names
<1>4. ClearAlone' /\ SavesNewest' /\ NewestSaved'
  <2>1. /\ th[t].pc \in Keying \cup Writing
        /\ th'[t].pc \in Keying \cup Writing \cup {"error"} /\ th'[t].pc \notin Writing
    BY <1>0, <1>2 DEF Keying, Writing
  <2>2. Reseals(t)' => Reseals(t) /\ InHand(t)' = InHand(t)
    BY <1>0, <1>2 DEF Reseals, InClear, InHand, Keying, Writing
  <2> QED BY <1>0, <1>2, <1>3, <2>1, <2>2, WorkClear
<1>5. OneKeyFor' /\ Readable' BY <1>0, <1>2, <1>3, SameKey
<1>6. TmpOwned'
  <2>1. \A u \in Threads \ {t} : ~Drawing(u)
    BY <1>2, DrawerAlone
  <2>2. \A u \in Threads \ {t} : th[u].pc \notin {"newkey", "placekey"} BY <2>1 DEF Drawing
  <2>3. file'["session.json.tmp"] = file["session.json.tmp"] BY <1>1 DEF Names
  <2> QED BY <1>0, <1>1, <1>2, <2>2, <2>3 DEF TmpOwned, ClearParts
<1> QED BY <1>4, <1>5, <1>6 DEF ClearParts

LEMMA KeyWrittenClear ==
  ASSUME ThreadInv, TypeOK', ClearParts, NEW t \in Threads, KeyWritten(t)
  PROVE  ClearParts'
<1>0. /\ TypeOK /\ ThreadInv' /\ Works(t) /\ Others(t)
      /\ th'[t].pc = "placekey" /\ th'[t].op = th[t].op /\ th'[t].raw = th[t].raw
      /\ th'[t].tok = th[t].tok /\ th'[t].new = th[t].new
      /\ \A n \in SessionNames : file'[n] = file[n]
  BY KeyWrittenThread DEF ThreadInv, Works
<1>1. /\ \A u \in Threads \ {t} : th'[u] = th[u]
      /\ \A n \in Names : file'[n] = IF n = th[t].fd THEN [key |-> th[t].new, tok |-> 0]
                                     ELSE file[n]
  BY <1>0, KeyWrittenMoves
<1>2. UNCHANGED cache /\ UNCHANGED local /\ th[t].pc = "newkey" /\ Drawing(t)
  BY DEF KeyWritten, Drawing
<1>3. th[t].fd = ".atrest.key.tmp" BY <1>2 DEF ClearParts, TmpOwned
<1>4. /\ Session' = Session /\ Key' = Key
      /\ file'[".atrest.key.tmp"] = [key |-> th[t].new, tok |-> 0]
  BY <1>1, <1>3 DEF Session, Key, Names
<1>5. ClearAlone' /\ SavesNewest' /\ NewestSaved'
  <2>1. /\ th[t].pc \in Keying \cup Writing
        /\ th'[t].pc \in Keying \cup Writing \cup {"error"} /\ th'[t].pc \notin Writing
    BY <1>0, <1>2 DEF Keying, Writing
  <2>2. Reseals(t)' => Reseals(t) /\ InHand(t)' = InHand(t)
    BY <1>0, <1>2 DEF Reseals, InClear, InHand, Keying, Writing
  <2> QED BY <1>0, <1>2, <1>4, <2>1, <2>2, WorkClear
<1>6. OneKeyFor' /\ Readable' BY <1>0, <1>2, <1>4, SameKey
<1>7. TmpOwned'
  <2>1. \A u \in Threads \ {t} : th[u].pc \notin {"newkey", "placekey"}
    BY <1>2, DrawerAlone DEF Drawing
  <2>2. file'["session.json.tmp"] = file["session.json.tmp"] BY <1>0 DEF SessionNames
  <2> QED BY <1>0, <1>1, <1>2, <1>4, <2>1, <2>2 DEF TmpOwned, ClearParts
<1> QED BY <1>5, <1>6, <1>7 DEF ClearParts

LEMMA KeyPlacedClear ==
  ASSUME ThreadInv, TypeOK', ClearParts, stray' = {}, NEW t \in Threads, KeyPlaced(t)
  PROVE  ClearParts'
<1>0. TypeOK /\ ThreadInv' /\ Works(t) /\ Others(t) BY KeyPlacedThread DEF ThreadInv, Works
<1>1. /\ th'[t] = WithKey(t, th[t].new)
      /\ \A u \in Threads \ {t} : th'[u].fd = Moved(th[u].fd, ".atrest.key.tmp", ".atrest.key")
      /\ file'[".atrest.key"] = file[".atrest.key.tmp"]
      /\ \A n \in SessionNames : file'[n] = file[n]
      /\ \A p \in {"serve", "command"} :
           cache'[p] = IF p = Proc(t) THEN th[t].new ELSE cache[p]
  BY <1>0, KeyPlacedMoves
<1>2. UNCHANGED local /\ Late(t) /\ th[t].pc = "placekey" /\ Drawing(t) /\ th[t].pc \in Keying
  BY DEF KeyPlaced, Drawing, Keying
<1>3. /\ th[t].new > 0 /\ Key = Absent /\ Key.key = 0 /\ Proc(t) \in {"serve", "command"}
      /\ file[".atrest.key.tmp"] = [key |-> th[t].new, tok |-> 0]
  <2>1. th[t].new > 0 /\ Proc(t) \in {"serve", "command"}
    BY <1>2 DEF ThreadInv, DrawsAlone, Proc
  <2>2. Key = Absent BY <1>2 DEF ClearParts, OneKeyFor
  <2>3. Absent.key = 0 BY DEF Absent
  <2>4. file[".atrest.key.tmp"] = [key |-> th[t].new, tok |-> 0]
    BY <1>2 DEF ClearParts, TmpOwned
  <2> QED BY <2>1, <2>2, <2>3, <2>4
<1>4. Session' = Session BY <1>1 DEF Session, SessionNames
<1>5. ClearAlone' /\ SavesNewest' /\ NewestSaved' /\ th'[t].pc \in {"ok", "save", "error"}
  BY <1>0, <1>1, <1>2, <1>3, <1>4, WithKeyClear
<1>6. Key'.key = th[t].new /\ IsSealed(Key') BY <1>1, <1>3 DEF Key, IsSealed
<1>7. \A p \in {"serve", "command"} : cache[p] = 0
  BY <1>3 DEF ClearParts, OneKeyFor
<1>8. \A u \in Threads \ {t} : th'[u].pc = th[u].pc /\ ~Drawing(u)
  BY <1>0, <1>2, DrawerAlone DEF Others
<1>9. OneKeyFor'
  <2>1. \A u \in Threads : ~Drawing(u)' BY <1>5, <1>8 DEF Drawing
  <2> QED BY <1>1, <1>6, <1>7, <2>1 DEF OneKeyFor
<1>10. Readable' BY <1>3, <1>4 DEF Readable, ClearParts
<1>11. TmpOwned'
  <2>1. \A u \in Threads : th[u].pc \notin Writing
    BY <1>7 DEF ThreadInv, HasSession, Proc
  <2>2. \A u \in Threads \ {t} : th'[u].pc \notin {"write", "rename", "newkey", "placekey"}
    BY <1>8, <2>1 DEF Drawing, Writing
  <2> QED BY <1>5, <2>2 DEF TmpOwned
<1> QED BY <1>5, <1>9, <1>10, <1>11 DEF ClearParts

LEMMA SaveStartsClear ==
  ASSUME ThreadInv, TypeOK', ClearParts, NEW t \in Threads, SaveStarts(t)
  PROVE  ClearParts'
<1>0. /\ TypeOK /\ ThreadInv' /\ Works(t) /\ Others(t)
      /\ th'[t].pc = "write" /\ th'[t].op = th[t].op /\ th'[t].tok = th[t].tok
      /\ th'[t].raw = th[t].raw /\ th'[t].fd = "session.json.tmp"
  BY SaveStartsThread DEF ThreadInv, Works
<1>1. /\ \A u \in Threads \ {t} : th'[u] = th[u]
      /\ \A n \in Names \ {"session.json.tmp"} : file'[n] = file[n]
  BY <1>0, SaveStartsMoves
<1>2. UNCHANGED cache /\ UNCHANGED local /\ th[t].pc = "save" /\ th[t].pc \in Writing
  BY DEF SaveStarts, Writing
<1>3. Session' = Session /\ Key' = Key /\ file'[".atrest.key.tmp"] = file[".atrest.key.tmp"]
  BY <1>1 DEF Session, Key, Names
<1>4. ClearAlone' /\ SavesNewest' /\ NewestSaved'
  <2>1. th'[t].pc \in Writing BY <1>0 DEF Writing
  <2>2. Reseals(t)' => Reseals(t) /\ InHand(t)' = InHand(t)
    BY <1>0, <1>2, <2>1 DEF Reseals, InHand
  <2>3. t \in Calls => up = "boot" BY <1>2 DEF ClearParts, ClearAlone
  <2> QED BY <1>0, <1>2, <1>3, <2>1, <2>2, <2>3, WorkClear
<1>5. OneKeyFor' /\ Readable'
  <2>1. ~Drawing(t)' BY <1>0 DEF Drawing
  <2> QED BY <1>0, <1>2, <1>3, <2>1, SameKey
<1>6. TmpOwned'
  <2>1. \A u \in Threads \ {t} : th[u].pc \notin {"write", "rename"}
    BY <1>2, WriterAlone DEF Writing
  <2> QED BY <1>0, <1>1, <1>2, <1>3, <2>1 DEF TmpOwned, ClearParts
<1> QED BY <1>4, <1>5, <1>6 DEF ClearParts

LEMMA SaveWritesClear ==
  ASSUME ThreadInv, TypeOK', ClearParts, NEW t \in Threads, SaveWrites(t)
  PROVE  ClearParts'
<1>0. /\ TypeOK /\ ThreadInv' /\ Works(t) /\ Others(t)
      /\ th'[t].pc = "rename" /\ th'[t].op = th[t].op /\ th'[t].tok = th[t].tok
      /\ th'[t].raw = th[t].raw
      /\ \A n \in KeyNames : file'[n] = file[n]
  BY SaveWritesThread DEF ThreadInv, Works
<1>1. /\ \A u \in Threads \ {t} : th'[u] = th[u]
      /\ \A n \in Names : file'[n] = IF n = th[t].fd
                                     THEN [key |-> cache[Proc(t)], tok |-> th[t].tok]
                                     ELSE file[n]
  BY <1>0, SaveWritesMoves
<1>2. UNCHANGED cache /\ UNCHANGED local /\ th[t].pc = "write" /\ th[t].pc \in Writing
  BY DEF SaveWrites, Writing
<1>3. th[t].fd = "session.json.tmp" BY <1>2 DEF ClearParts, TmpOwned
<1>4. /\ Session' = Session /\ Key' = Key
      /\ file'[".atrest.key.tmp"] = file[".atrest.key.tmp"]
      /\ file'["session.json.tmp"] = [key |-> cache[Proc(t)], tok |-> th[t].tok]
  BY <1>0, <1>1, <1>3 DEF Session, Key, Names, KeyNames
<1>5. ClearAlone' /\ SavesNewest' /\ NewestSaved'
  <2>1. th'[t].pc \in Writing BY <1>0 DEF Writing
  <2>2. Reseals(t)' => Reseals(t) /\ InHand(t)' = InHand(t)
    BY <1>0, <1>2, <2>1 DEF Reseals, InHand
  <2>3. t \in Calls => up = "boot" BY <1>2 DEF ClearParts, ClearAlone
  <2> QED BY <1>0, <1>2, <1>4, <2>1, <2>2, <2>3, WorkClear
<1>6. OneKeyFor' /\ Readable'
  <2>1. ~Drawing(t)' BY <1>0 DEF Drawing
  <2> QED BY <1>0, <1>2, <1>4, <2>1, SameKey
<1>7. TmpOwned'
  <2>1. \A u \in Threads \ {t} : th[u].pc \notin {"write", "rename"}
    BY <1>2, WriterAlone DEF Writing
  <2> QED BY <1>0, <1>1, <1>2, <1>4, <2>1 DEF TmpOwned, ClearParts
<1> QED BY <1>5, <1>6, <1>7 DEF ClearParts

\* The rename puts the newest session there, or the one that was there, sealed.
LEMMA SaveRenamesClear ==
  ASSUME ThreadInv, TypeOK', ClearParts, NEW t \in Threads, SaveRenames(t)
  PROVE  ClearParts'
<1>0. /\ TypeOK /\ ThreadInv' /\ Works(t) /\ Others(t)
      /\ th'[t].pc = "ok" /\ th'[t].op = th[t].op /\ th'[t].tok = th[t].tok
  BY SaveRenamesThread DEF ThreadInv, Works
<1>1. /\ \A u \in Threads \ {t} : th'[u].fd = Moved(th[u].fd, "session.json.tmp", "session.json")
      /\ file'["session.json"] = file["session.json.tmp"]
      /\ \A n \in KeyNames : file'[n] = file[n]
  BY <1>0, SaveRenamesMoves
<1>2. /\ UNCHANGED cache /\ UNCHANGED <<up, token, mem, lost>>
      /\ th[t].pc = "rename" /\ th[t].pc \in Writing
  BY DEF SaveRenames, Writing, local
<1>3. /\ th[t].tok > 0 /\ cache[Proc(t)] # 0 /\ Proc(t) \in {"serve", "command"}
      /\ token \in Nat /\ mem \in Nat
  BY <1>0, <1>2, NumbersType DEF ThreadInv, HasSession, Proc
<1>4. /\ Session'.tok = th[t].tok /\ Session'.key = cache[Proc(t)]
      /\ Session'.key = Key.key
  <2>1. file["session.json.tmp"] = [key |-> cache[Proc(t)], tok |-> th[t].tok]
    BY <1>2 DEF ClearParts, TmpOwned
  <2>2. cache[Proc(t)] = Key.key BY <1>3 DEF ClearParts, OneKeyFor
  <2> QED BY <1>1, <2>1, <2>2 DEF Session
<1>5. Key' = Key /\ file'[".atrest.key.tmp"] = file[".atrest.key.tmp"] /\ IsSealed(Session')
  BY <1>1, <1>3, <1>4 DEF Key, KeyNames, IsSealed
<1>6. \A u \in Threads \ {t} :
        /\ th'[u].pc = th[u].pc /\ th'[u].op = th[u].op /\ th'[u].raw = th[u].raw
        /\ th'[u].tok = th[u].tok /\ th'[u].new = th[u].new
        /\ th[u].pc \notin Writing
  BY <1>0, <1>2, WriterAlone DEF Others
\* Who else has a session in hand: nobody that would bring an older one back.
<1>7. t # Cmd => up # "off" BY <1>0, BootReturns DEF Works
<1>8. t \in Calls => t = Boot /\ up = "boot" /\ Reseals(Boot) /\ ~IsSealed(Session) /\ ~Busy(Cmd)
  BY <1>2, CallResealing
<1>9. t = Auth => up = "on" /\ th[t].op = "save" /\ th[t].tok = token /\ mem = token
  BY <1>2, Members DEF ClearParts, SavesNewest, ThreadInv, HasSession, Busy, Writing
<1>10. t = Cmd /\ th[t].op = "save" => th[t].tok = token
  BY <1>2 DEF ClearParts, SavesNewest, LoggingIn
<1>11. t = Cmd /\ th[t].op = "load" => up = "off" /\ Session.tok = th[t].tok
  BY <1>2 DEF ClearParts, ClearAlone, Reseals, InHand
<1>12. t = Boot /\ up = "boot" => Session.tok = th[t].tok
  BY <1>2, <1>8, ThreadsAssumption DEF ClearParts, ClearAlone, InHand
<1>13. ClearAlone'
  <2>1. ~Reseals(Cmd)'
    <3>1. CASE t = Cmd BY <1>0, <3>1 DEF Reseals, Writing, Keying
    <3>2. CASE t # Cmd
      <4>1. ~Reseals(Cmd) BY <1>7, <3>2 DEF ClearParts, ClearAlone
      <4> QED BY <1>6, <3>2, <4>1, Members DEF Reseals, InClear
    <3> QED BY <3>1, <3>2
  <2>2. ~(up = "boot" /\ Reseals(Boot)')
    <3>1. CASE t = Boot BY <1>0, <3>1 DEF Reseals, Writing, Keying
    <3>2. CASE t # Boot /\ up = "boot"
      <4>1. t = Cmd BY <1>8, <1>9, <3>2, Members
      <4>2. Busy(Cmd) BY <1>0, <4>1 DEF Works
      <4>3. IsSealed(Session) BY <3>2, <4>2 DEF ClearParts, ClearAlone
      <4>4. ~Reseals(Boot) BY <3>2, <4>3 DEF ClearParts, ClearAlone
      <4> QED BY <1>6, <3>2, <4>4, Members DEF Reseals, InClear
    <3> QED BY <3>1, <3>2
  <2>3. \A u \in Calls : th'[u].pc \in Writing => up = "boot"
    BY <1>0, <1>6, Members DEF Writing
  <2> QED BY <1>2, <1>5, <2>1, <2>2, <2>3 DEF ClearAlone
<1>14. SavesNewest'
  <2>1. ~LoggingIn'
    <3>1. CASE t = Cmd BY <1>0, <3>1 DEF LoggingIn, Writing, Keying
    <3>2. CASE t = Auth
      <4>1. ~LoggingIn BY <1>3, <1>9, <3>2 DEF ClearParts, SavesNewest
      <4> QED BY <1>6, <3>2, <4>1, Members DEF LoggingIn
    <3>3. CASE t \in Calls
      <4>1. ~Busy(Cmd) /\ t # Cmd BY <1>8, <3>3, ThreadsAssumption
      <4> QED BY <1>6, <4>1, Members DEF LoggingIn, Busy, Writing, Keying
    <3> QED BY <3>1, <3>2, <3>3, Members
  <2>2. th'[Auth].pc \in Keying \cup Writing
          => th[Auth].pc \in Keying \cup Writing /\ th'[Auth].tok = th[Auth].tok
    BY <1>0, <1>6, Members DEF Keying, Writing
  <2> QED BY <1>2, <2>1, <2>2 DEF SavesNewest, ClearParts
<1>15. NewestSaved'
  <2>1. CASE th[t].op = "save"
    <3>1. t \in {Auth, Cmd} BY <2>1 DEF ThreadInv, HasSession
    <3> QED BY <1>2, <1>4, <1>9, <1>10, <2>1, <3>1 DEF NewestSaved
  <2>2. CASE th[t].op = "load"
    <3>1. Session'.tok = Session.tok
      BY <1>4, <1>8, <1>9, <1>11, <1>12, <2>2, Members
    <3>2. \A u \in Threads : th[u].op = "save" => u # t BY <2>2
    <3> QED BY <1>2, <1>6, <3>1, <3>2 DEF NewestSaved, ClearParts
  <2> QED BY <1>0, <2>1, <2>2, HandType
<1>16. Readable' BY <1>3, <1>4, <1>5 DEF Readable
<1>17. OneKeyFor'
  <2>1. \A u \in Threads : Drawing(u)' => Drawing(u) BY <1>0, <1>6 DEF Drawing
  <2> QED BY <1>2, <1>5, <2>1 DEF OneKeyFor, ClearParts
<1>18. TmpOwned'
  <2>1. ASSUME NEW u \in Threads \ {t}, th[u].pc = "newkey" PROVE th'[u].fd = ".atrest.key.tmp"
    <3>1. th[u].fd = ".atrest.key.tmp" BY <2>1 DEF ClearParts, TmpOwned
    <3> QED BY <1>1, <2>1, <3>1 DEF Moved
  <2>2. ASSUME NEW u \in Threads \ {t}
        PROVE  /\ th'[u].pc \notin {"write", "rename"}
               /\ th'[u].pc = "newkey" => th'[u].fd = ".atrest.key.tmp"
               /\ th'[u].pc = "placekey"
                    => file'[".atrest.key.tmp"] = [key |-> th'[u].new, tok |-> 0]
    <3>1. th'[u].pc = th[u].pc /\ th'[u].new = th[u].new /\ th[u].pc \notin Writing BY <1>6
    <3>2. th[u].pc = "placekey" => file[".atrest.key.tmp"] = [key |-> th[u].new, tok |-> 0]
      BY DEF ClearParts, TmpOwned
    <3>3. th'[u].pc \notin {"write", "rename"} BY <3>1 DEF Writing
    <3> QED BY <1>5, <2>1, <3>1, <3>2, <3>3
  <2> QED BY <1>0, <2>2 DEF TmpOwned
<1> QED BY <1>13, <1>14, <1>15, <1>16, <1>17, <1>18 DEF ClearParts

LEMMA NextClear ==
  ASSUME ThreadInv, [Next]_vars, stray' = {}, ClearParts
  PROVE  ClearParts'
<1>0. ThreadInv' /\ TypeOK' BY NextThread DEF ThreadInv
<1>1. CASE BootDaemon \/ Refresh \/ Status \/ Login \/ \E t \in Calls : Call(t)
  BY <1>1, StartsClear
<1>2. ASSUME NEW t \in Threads, Thread(t) PROVE ClearParts'
  <2>1. CASE KeyReread(t)
    <3>1. file[".atrest.key.tmp"] = [key |-> th[t].new, tok |-> 0]
      BY <2>1 DEF KeyReread, ClearParts, TmpOwned
    <3>2. [key |-> th[t].new, tok |-> 0] # Absent BY DEF Absent
    <3> QED BY <2>1, <3>1, <3>2 DEF KeyReread
  <2>2. CASE SaveLosesTmp(t)
    <3>1. file["session.json.tmp"] = [key |-> cache[Proc(t)], tok |-> th[t].tok] /\ th[t].tok > 0
      BY <2>2 DEF SaveLosesTmp, ClearParts, TmpOwned, ThreadInv, HasSession, Writing
    <3>2. th[t].tok > 0 => [key |-> cache[Proc(t)], tok |-> th[t].tok] # Absent BY DEF Absent
    <3> QED BY <2>2, <3>1, <3>2 DEF SaveLosesTmp
  <2> QED BY <1>0, <1>2, <2>1, <2>2, ReturnsClear, KeyFoundClear, KeyDrawnClear, KeyWrittenClear,
          KeyPlacedClear, SaveStartsClear, SaveWritesClear, SaveRenamesClear DEF Thread
<1>3. ASSUME NEW t \in Threads, Fails(t) PROVE ClearParts' BY <1>3, FailsClear
<1>4. ASSUME NEW p \in {"serve", "command"}, Kill(p) PROVE ClearParts'
  BY <1>0, <1>4, EndedClear DEF Kill
<1>5. CASE UNCHANGED vars
  BY <1>5 DEF vars, ClearParts, ClearAlone, SavesNewest, OneKeyFor, TmpOwned, NewestSaved,
              Readable, Reseals, InHand, InClear, LoggingIn, Drawing, Busy, Session, Key
<1> QED BY <1>1, <1>2, <1>3, <1>4, <1>5 DEF Next

LEMMA AlwaysAtRest == Spec => []AtRestInv
<1>1. Init => AtRestInv BY InitThread, InitClear DEF AtRestInv
<1>2. AtRestInv /\ [Next]_vars => AtRestInv'
  BY NextThread, NextClear, StrayGrows DEF AtRestInv
<1> QED BY <1>1, <1>2, PTL DEF Spec

\* The session that takes a TOTP code to rebuild stays readable: killed between
\* two system calls, with a failed write, with any number of calls at work in the
\* daemon and a command beside it, unless two of them had it in clear
\* (SaveSession, generateKey).
THEOREM SessionStaysReadable == Spec => []SessionReadable
<1>1. AtRestInv => SessionReadable BY DEF AtRestInv, ClearParts, SessionReadable
<1> QED BY <1>1, AlwaysAtRest, PTL

\* The newest token is in session.json or on its way there: no re-seal of a
\* session read before brings an older one back (LoadSession, session.go).
THEOREM NewestTokenKept == Spec => []TokenKept
<1>1. AtRestInv => TokenKept
  <2>1. \A t \in Threads : th[t].pc \in Keying \cup Writing \cup {"error"} => Busy(t)
    BY DEF Busy, Keying, Writing
  <2> QED BY <2>1 DEF AtRestInv, ClearParts, NewestSaved, TokenKept
<1> QED BY <1>1, AlwaysAtRest, PTL

=============================================================================
