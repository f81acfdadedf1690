---------------------------- MODULE Serve_proofs ----------------------------
(***************************************************************************)
(* run, serve and web for any number of processes on one session: what a   *)
(* process does to the locks and files of the others, and what it holds    *)
(* itself at every point of its life.                                      *)
(***************************************************************************)
EXTENDS Serve, TLAPS

Locks == {"dir", "run", "sock"}
Files == {"db", "egress", "chat", "term"}
(* The lock under which a file is made and removed.                        *)
Guard(f) == IF f = "db" THEN "dir" ELSE IF f = "egress" THEN "run" ELSE "sock"

Starting == {"idle", "look", "trylock", "sweep", "swept", "open", "create", "proxy", "start", "unproxy"}
Talking  == {"hello", "failed", "reap"}
Running  == {"sockLock", "listen", "serving", "unlink", "unlock", "cancel", "drain"}
Leaving  == {"closeLog", "unlockLog", "exited", "dead"}

Places   == Starting \cup Talking \cup Running \cup Leaving

Process == [pc : Places, kind : Kinds, agent : Agents,
            own : BOOLEAN, log : BOOLEAN, again : BOOLEAN, cancelled : BOOLEAN, cage : BOOLEAN,
            tear : {"none", "up", "closed", "done"}, web : Repos \cup {None}, repo : Repos \cup {None}]

ServeType == /\ proc \in [Procs -> Process]
             /\ lock \in [Locks -> Procs \cup {None}]
             /\ file \in [Files -> Procs \cup {None}]

(* Where the egress is up or half way up, and where it is torn down by the *)
(* goroutine that waits for the cage.                                      *)
Shape(r) ==
  /\ r.pc \in Starting \cup Talking => r.tear = "none"
  /\ r.pc \in Running => r.tear # "none"
  /\ r.pc \in Leaving => r.tear \in {"none", "done"}
  /\ r.pc \in {"idle", "look", "trylock", "sweep", "swept", "open", "create",
               "unlockLog", "exited", "dead"} => ~r.log
  /\ r.cage => r.pc \in Talking \cup {"dead"} \/ r.tear = "up"
  /\ r.pc \in Talking \cup (Running \ {"drain"}) => r.kind \in {"chat", "term"}

(* The locks a process of this session holds.                              *)
Holds(p) == LET r == proc[p] IN
  /\ r.pc \in {"sweep", "swept"} => lock["dir"] = p
  /\ ~r.own => /\ r.pc = "create" \/ r.log => lock["dir"] = p
               /\ r.pc \in {"start", "unproxy", "hello", "failed"} \/ r.tear \in {"up", "closed"}
                    => lock["run"] = p
               /\ r.pc \in {"listen", "serving", "unlink", "unlock"} => lock["sock"] = p

(* The files it relies on.                                                 *)
Has(p) == LET r == proc[p] IN
  ~r.own => /\ r.log => file["db"] = p
            /\ r.pc \in {"start", "hello"} \/ r.tear = "up" => file["egress"] = p
            /\ r.pc = "serving" => file[r.kind] = p

(* And no others: a file is a process' own only as long as it needs it,    *)
(* or for ever if it was killed.                                           *)
Only(p) == LET r == proc[p] IN
  r.pc # "dead" =>
    /\ r.own => \A f \in Files : file[f] # p
    /\ file["db"] = p => r.log
    /\ file["egress"] = p => r.pc \in {"start", "unproxy", "hello", "failed"} \/ r.tear = "up"
    /\ \A f \in {"chat", "term"} : file[f] = p => r.pc = "serving" /\ r.kind = f

PInv(p) == Shape(proc[p]) /\ Holds(p) /\ Has(p) /\ Only(p)

SInv == ServeType /\ \A p \in Procs : PInv(p)

-----------------------------------------------------------------------------
(* What a step of p may do: to its own record anything, to a lock only     *)
(* take or release it, to a file only under its lock or when it is free.   *)
LockStep(p) == /\ lock' \in [Locks -> Procs \cup {None}]
               /\ \A l \in Locks : lock'[l] # lock[l] => {lock[l], lock'[l]} \subseteq {None, p}
FileStep(p) == /\ file' \in [Files -> Procs \cup {None}]
               /\ \A f \in Files : file'[f] # file[f] => /\ file'[f] \in {None, p}
                                                        /\ lock[Guard(f)] \in {None, p}
ProcStep(p) == /\ proc' \in [Procs -> Process]
               /\ \A q \in Procs : q # p => proc'[q] = proc[q]
StepOf(p) == ProcStep(p) /\ LockStep(p) /\ FileStep(p)

(* Such a step leaves the others what they hold and have.                  *)
LEMMA Frame ==
  ASSUME SInv, NEW p \in Procs, StepOf(p), PInv(p)'
  PROVE  SInv'
<1>1. ServeType'
  BY DEF SInv, ServeType, StepOf, ProcStep, LockStep, FileStep
<1>2. ASSUME NEW q \in Procs, q # p PROVE PInv(q)'
  <2>1. proc'[q] = proc[q] /\ PInv(q) /\ q # None
    BY <1>2, NoneAssumption DEF SInv, StepOf, ProcStep
  <2>2. \A l \in Locks : lock[l] = q => lock'[l] = q
    BY <1>2, <2>1 DEF StepOf, LockStep
  <2>3. \A f \in Files : lock[Guard(f)] = q /\ file[f] = q => file'[f] = q
    BY <1>2, <2>1 DEF StepOf, FileStep
  <2>4. \A f \in Files : file'[f] = q => file[f] = q
    BY <1>2, <2>1 DEF StepOf, FileStep
  <2>5. Shape(proc[q])'
    BY <2>1 DEF PInv
  <2>6. Holds(q)'
    BY <2>1, <2>2 DEF PInv, Holds, Locks
  <2>7. Has(q)'
    BY <2>1, <2>3 DEF PInv, Holds, Has, Shape, Files, Guard, Running
  <2>8. Only(q)'
    BY <2>1, <2>4 DEF PInv, Only, Files
  <2> QED
    BY <2>5, <2>6, <2>7, <2>8 DEF PInv
<1> QED
  BY <1>1, <1>2 DEF SInv

(* The three ways in which a step changes the record of its process.       *)
LEMMA SetStep ==
  ASSUME ServeType, NEW p \in Procs, NEW r \in Process, Set(p, r)
  PROVE  ProcStep(p) /\ proc'[p] = r
  BY DEF ServeType, ProcStep, Set

LEMMA GotoStep ==
  ASSUME ServeType, NEW p \in Procs, NEW l \in Places, l # "exited", Goto(p, l)
  PROVE  ProcStep(p) /\ proc'[p] = [proc[p] EXCEPT !.pc = l]
<1>1. [proc[p] EXCEPT !.pc = l] \in Process
  BY DEF ServeType, Process
<1> QED
  BY <1>1, SetStep DEF Goto

LEMMA ExitStep ==
  ASSUME ServeType, NEW p \in Procs, Goto(p, "exited")
  PROVE  ProcStep(p) /\ proc'[p] = Ended(p, "exited")
<1>1. Ended(p, "exited") \in Process
  BY DEF ServeType, Process, Places, Ended, Idle, Kinds, Agents, Starting, Talking,
      Running, Leaving
<1> QED
  BY <1>1, SetStep DEF Goto

(* Nothing but the record changes.                                         *)
LEMMA Still ==
  ASSUME ServeType, NEW p \in Procs, ProcStep(p), UNCHANGED <<lock, file>>
  PROVE  StepOf(p)
  BY DEF ServeType, StepOf, LockStep, FileStep

(* A lock that is free, or one's own, is taken; one's own is released.     *)
LEMMA Locking ==
  ASSUME ServeType, NEW p \in Procs, NEW l \in Locks
  PROVE  /\ TryLock(p, l) /\ lock' = Locked(p, l) => LockStep(p)
         /\ lock' = Unlocked(p, l) => LockStep(p)
         /\ UNCHANGED lock => LockStep(p)
  BY DEF ServeType, LockStep, TryLock, Locked, Unlocked

(* A file is made or removed by a process on a session of its own, which   *)
(* does nothing here, or under its lock.                                   *)
LEMMA Filing ==
  ASSUME ServeType, NEW p \in Procs, NEW f \in Files
  PROVE  /\ proc[p].own \/ lock[Guard(f)] \in {None, p} =>
              (file' = Made(p, f) \/ file' = Unlinked(p, f) => FileStep(p))
         /\ UNCHANGED file => FileStep(p)
  BY DEF ServeType, FileStep, Made, Unlinked
-----------------------------------------------------------------------------
(* A process begins.                                                       *)
Fresh(r) == /\ r \in Process /\ r.pc \in {"look", "proxy"}
            /\ ~r.log /\ ~r.cage /\ r.tear = "none"

LEMMA LaunchedFresh ==
  ASSUME NEW o \in Options, NEW web \in Repos \cup {None}
  PROVE  /\ Fresh(Launched(o, web))
         /\ web \in Repos => Fresh([Launched(o, web) EXCEPT !.repo = web])
<1>1. kindOf(o) \in Kinds /\ pickAgent(o) \in Agents /\ (~resumes(o)) \in BOOLEAN
  BY RecordedAssumption DEF kindOf, pickAgent, Kinds, Agents, Options, resumes
<1> QED
  BY <1>1 DEF Launched, Fresh, Process, Idle, Places, Starting, Agents

LEMMA FreshStep ==
  ASSUME SInv, NEW p \in Procs, At(p, "idle"), NEW r, Fresh(r), Set(p, r), UNCHANGED <<lock, file>>
  PROVE  SInv'
<1>1. ServeType /\ PInv(p)
  BY DEF SInv
<1>2. ProcStep(p) /\ proc'[p] = r
  BY <1>1, SetStep DEF Fresh
<1>3. \A f \in Files : file[f] # p
  BY <1>1 DEF PInv, Shape, Only, At, Files, Starting
<1>4. PInv(p)'
  BY <1>2, <1>3 DEF Fresh, PInv, Shape, Holds, Has, Only, Files, Starting, Talking,
      Running, Leaving
<1> QED
  BY <1>1, <1>2, <1>4, Still, Frame

LEMMA LaunchStep ==
  ASSUME SInv, NEW p \in Procs,
         Launch(p) \/ (\E r \in Repos : handleChatStart(p, r)) \/ ensureTermSocket(p)
  PROVE  SInv'
<1>1. chatOn \in Options /\ termOn \in Options
  BY DEF chatOn, termOn, Options, Modes
<1>2. CASE Launch(p)
  BY <1>2, LaunchedFresh, FreshStep DEF Launch, Resumed
<1>3. ASSUME NEW r \in Repos, handleChatStart(p, r) PROVE SInv'
  BY <1>1, <1>3, LaunchedFresh, FreshStep DEF handleChatStart
<1>4. CASE ensureTermSocket(p)
  BY <1>1, <1>4, LaunchedFresh, FreshStep DEF ensureTermSocket
<1> QED
  BY <1>2, <1>3, <1>4

(* The page stops waiting, the cage ends, a signal comes.                  *)
LEMMA OutsideStep ==
  ASSUME SInv, NEW p \in Procs, spawned(p) \/ CageEnds(p) \/ Signal(p)
  PROVE  SInv'
<1>1. ServeType /\ PInv(p)
  BY DEF SInv
<1>2. CASE spawned(p)
  <2>1. ProcStep(p) /\ proc'[p] = [proc[p] EXCEPT !.web = None]
    BY <1>1, <1>2, SetStep DEF spawned, ServeType, Process
  <2>2. PInv(p)'
    BY <1>1, <1>2, <2>1 DEF spawned, ServeType, Process, PInv, Shape, Holds, Has, Only
  <2> QED
    BY <1>1, <1>2, <2>1, <2>2, Still, Frame DEF spawned
<1>3. CASE CageEnds(p)
  <2>1. ProcStep(p) /\ proc'[p] = [proc[p] EXCEPT !.cage = FALSE]
    BY <1>1, <1>3, SetStep DEF CageEnds, ServeType, Process
  <2>2. PInv(p)'
    BY <1>1, <1>3, <2>1 DEF CageEnds, ServeType, Process, PInv, Shape, Holds, Has, Only
  <2> QED
    BY <1>1, <1>3, <2>1, <2>2, Still, Frame DEF CageEnds
<1>4. CASE Signal(p)
  <2>0. [proc[p] EXCEPT !.cancelled = TRUE] \in Process
    BY <1>1 DEF ServeType, Process
  <2>1. ProcStep(p) /\ proc'[p] = [proc[p] EXCEPT !.cancelled = TRUE]
    BY <1>1, <1>4, <2>0, SetStep DEF Signal
  <2>2. PInv(p)'
    BY <1>1, <1>4, <2>1 DEF Signal, ServeType, Process, PInv, Shape, Holds, Has, Only
  <2> QED
    BY <1>1, <1>4, <2>1, <2>2, Still, Frame DEF Signal
<1> QED
  BY <1>2, <1>3, <1>4

(* A killed process keeps no lock; its files and its cage stay.            *)
LEMMA KillStep ==
  ASSUME SInv, NEW p \in Procs, spawnTimeout(p) \/ Kill(p)
  PROVE  SInv'
<1>1. ServeType /\ PInv(p)
  BY DEF SInv
<1>2. /\ Set(p, Ended(p, "dead"))
      /\ lock' = [l \in DOMAIN lock |-> IF lock[l] = p THEN None ELSE lock[l]]
      /\ UNCHANGED file
  BY DEF spawnTimeout, Kill, Killed
<1>3. Ended(p, "dead") \in Process
  BY <1>1 DEF ServeType, Process, Places, Ended, Idle, Kinds, Agents, Starting,
      Talking, Running, Leaving
<1>4. ProcStep(p) /\ proc'[p] = Ended(p, "dead")
  BY <1>1, <1>2, <1>3, SetStep
<1>5. LockStep(p)
  BY <1>1, <1>2 DEF ServeType, LockStep
<1>6. FileStep(p)
  BY <1>1, <1>2 DEF ServeType, FileStep
<1>7. PInv(p)'
  BY <1>4 DEF PInv, Shape, Holds, Has, Only, Ended, Idle, Starting, Talking, Running,
      Leaving
<1> QED
  BY <1>4, <1>5, <1>6, <1>7, Frame DEF StepOf
-----------------------------------------------------------------------------
(* The event log: the sweep, then the database.                            *)

(* The records that a step may leave.                                      *)
LEMMA Records ==
  ASSUME ServeType, NEW p \in Procs, NEW l \in Places
  PROVE  /\ [proc[p] EXCEPT !.pc = l, !.log = TRUE] \in Process
         /\ [proc[p] EXCEPT !.pc = l, !.log = FALSE] \in Process
         /\ [proc[p] EXCEPT !.pc = l, !.again = TRUE] \in Process
         /\ [proc[p] EXCEPT !.pc = l, !.cancelled = TRUE] \in Process
         /\ [proc[p] EXCEPT !.pc = l, !.tear = "up"] \in Process
         /\ [proc[p] EXCEPT !.pc = l, !.cage = TRUE, !.tear = "none"] \in Process
         /\ [proc[p] EXCEPT !.pc = l, !.cage = TRUE, !.tear = "up"] \in Process
         /\ [proc[p] EXCEPT !.tear = "closed"] \in Process
         /\ [proc[p] EXCEPT !.tear = "done"] \in Process
  BY DEF ServeType, Process

(* SweepStale.                                                             *)
LEMMA SweepStep ==
  ASSUME SInv, NEW p \in Procs, SweepStale(p)
  PROVE  SInv'
<1> USE DEF At, Files, Locks, Starting, Talking, Running, Leaving
<1>1. ServeType /\ PInv(p)
  BY DEF SInv
<1>2. CASE sweepOne(p) /\ file["db"] = None
  <2>1. ProcStep(p) /\ proc'[p] = [proc[p] EXCEPT !.pc = "open"]
    BY <1>1, <1>2, GotoStep DEF sweepOne, Places
  <2>2. LockStep(p)
    BY <1>1, <1>2, Locking DEF sweepOne
  <2>3. FileStep(p)
    BY <1>1, <1>2, Filing DEF sweepOne, Guard
  <2>4. PInv(p)'
    BY <1>1, <1>2, <2>1, NoneAssumption
    DEF sweepOne, ServeType, Process, PInv, Shape, Holds, Has, Only
  <2> QED
    BY <2>1, <2>2, <2>3, <2>4, Frame DEF StepOf
<1>3. CASE sweepOne(p) /\ file["db"] # None
  <2>1. ProcStep(p) /\ proc'[p] = [proc[p] EXCEPT !.pc = "trylock"]
    BY <1>1, <1>3, GotoStep DEF sweepOne, Places
  <2>2. LockStep(p)
    BY <1>1, <1>3, Locking DEF sweepOne
  <2>3. FileStep(p)
    BY <1>1, <1>3, Filing DEF sweepOne, Guard
  <2>4. PInv(p)'
    BY <1>1, <1>3, <2>1, NoneAssumption
    DEF sweepOne, ServeType, Process, PInv, Shape, Holds, Has, Only
  <2> QED
    BY <2>1, <2>2, <2>3, <2>4, Frame DEF StepOf
<1>4. CASE sweepLock(p) /\ lock["dir"] = None
  <2>1. ProcStep(p) /\ proc'[p] = [proc[p] EXCEPT !.pc = "sweep"]
    BY <1>1, <1>4, GotoStep DEF sweepLock, HasLock, Places
  <2>2. LockStep(p)
    BY <1>1, <1>4 DEF sweepLock, HasLock, LockStep, ServeType
  <2>3. FileStep(p)
    BY <1>1, <1>4, Filing DEF sweepLock, Guard
  <2>4. PInv(p)'
    BY <1>1, <1>4, <2>1, NoneAssumption
    DEF sweepLock, ServeType, Process, PInv, Shape, Holds, Has, Only, HasLock
  <2> QED
    BY <2>1, <2>2, <2>3, <2>4, Frame DEF StepOf
<1>5. CASE sweepLock(p) /\ lock["dir"] # None /\ Goto(p, "open")
  <2>1. ProcStep(p) /\ proc'[p] = [proc[p] EXCEPT !.pc = "open"]
    BY <1>1, <1>5, GotoStep DEF sweepLock, HasLock, Places
  <2>2. LockStep(p)
    BY <1>1, <1>5, Locking DEF sweepLock, HasLock
  <2>3. FileStep(p)
    BY <1>1, <1>5, Filing DEF sweepLock, Guard
  <2>4. PInv(p)'
    BY <1>1, <1>5, <2>1, NoneAssumption
    DEF sweepLock, ServeType, Process, PInv, Shape, Holds, Has, Only, HasLock
  <2> QED
    BY <2>1, <2>2, <2>3, <2>4, Frame DEF StepOf
<1>6. CASE sweepLock(p) /\ lock["dir"] # None /\ Goto(p, "proxy")
  <2>1. ProcStep(p) /\ proc'[p] = [proc[p] EXCEPT !.pc = "proxy"]
    BY <1>1, <1>6, GotoStep DEF sweepLock, HasLock, Places
  <2>2. LockStep(p)
    BY <1>1, <1>6, Locking DEF sweepLock, HasLock
  <2>3. FileStep(p)
    BY <1>1, <1>6, Filing DEF sweepLock, Guard
  <2>4. PInv(p)'
    BY <1>1, <1>6, <2>1, NoneAssumption
    DEF sweepLock, ServeType, Process, PInv, Shape, Holds, Has, Only, HasLock
  <2> QED
    BY <2>1, <2>2, <2>3, <2>4, Frame DEF StepOf
<1>7. CASE removeDBFiles(p)
  <2>1. ProcStep(p) /\ proc'[p] = [proc[p] EXCEPT !.pc = "swept"]
    BY <1>1, <1>7, GotoStep DEF removeDBFiles, Places
  <2>2. LockStep(p)
    BY <1>1, <1>7, Locking DEF removeDBFiles
  <2>3. FileStep(p)
    BY <1>1, <1>7 DEF removeDBFiles, FileStep, ServeType, Guard, PInv, Holds
  <2>4. PInv(p)'
    BY <1>1, <1>7, <2>1, NoneAssumption
    DEF removeDBFiles, ServeType, Process, PInv, Shape, Holds, Has, Only
  <2> QED
    BY <2>1, <2>2, <2>3, <2>4, Frame DEF StepOf
<1>8. CASE endSweep(p)
  <2>1. ProcStep(p) /\ proc'[p] = [proc[p] EXCEPT !.pc = "open"]
    BY <1>1, <1>8, GotoStep DEF endSweep, Places
  <2>2. LockStep(p)
    BY <1>1, <1>8, Locking DEF endSweep
  <2>3. FileStep(p)
    BY <1>1, <1>8, Filing DEF endSweep, Guard
  <2>4. PInv(p)'
    BY <1>1, <1>8, <2>1, NoneAssumption
    DEF endSweep, ServeType, Process, PInv, Shape, Holds, Has, Only, Unlocked
  <2> QED
    BY <2>1, <2>2, <2>3, <2>4, Frame DEF StepOf
<1> QED
  BY <1>2, <1>3, <1>4, <1>5, <1>6, <1>7, <1>8 DEF SweepStale, sweepOne, sweepLock, HasLock

(* Open: the lock, then the database.                                      *)
LEMMA OpenStep ==
  ASSUME SInv, NEW p \in Procs, acquireLock(p) \/ create(p)
  PROVE  SInv'
<1> USE DEF At, Files, Locks, Starting, Talking, Running, Leaving
<1>1. ServeType /\ PInv(p)
  BY DEF SInv
<1>2. CASE /\ acquireLock(p)
           /\ TryLock(p, "dir")
           /\ lock' = Locked(p, "dir")
           /\ Goto(p, "create")
  <2>1. ProcStep(p) /\ proc'[p] = [proc[p] EXCEPT !.pc = "create"]
    BY <1>1, <1>2, GotoStep DEF acquireLock, Places
  <2>2. LockStep(p)
    BY <1>1, <1>2, Locking
  <2>3. FileStep(p)
    BY <1>1, <1>2, Filing DEF acquireLock, Guard
  <2>4. PInv(p)'
    BY <1>1, <1>2, <2>1, NoneAssumption
    DEF acquireLock, ServeType, Process, PInv, Shape, Holds, Has, Only, TryLock, Locked
  <2> QED
    BY <2>1, <2>2, <2>3, <2>4, Frame DEF StepOf
<1>3. CASE acquireLock(p) /\ UNCHANGED lock /\ Goto(p, "exited")
  <2>1. ProcStep(p) /\ proc'[p] = Ended(p, "exited")
    BY <1>1, <1>3, ExitStep DEF acquireLock
  <2>2. LockStep(p)
    BY <1>1, <1>3, Locking
  <2>3. FileStep(p)
    BY <1>1, <1>3, Filing DEF acquireLock, Guard
  <2>4. PInv(p)'
    BY <1>1, <1>3, <2>1, NoneAssumption
    DEF acquireLock, ServeType, Process, PInv, Shape, Holds, Has, Only, Ended, Idle
  <2> QED
    BY <2>1, <2>2, <2>3, <2>4, Frame DEF StepOf
<1>4. CASE acquireLock(p) /\ UNCHANGED lock /\ Goto(p, "proxy")
  <2>1. ProcStep(p) /\ proc'[p] = [proc[p] EXCEPT !.pc = "proxy"]
    BY <1>1, <1>4, GotoStep DEF acquireLock, Places
  <2>2. LockStep(p)
    BY <1>1, <1>4, Locking
  <2>3. FileStep(p)
    BY <1>1, <1>4, Filing DEF acquireLock, Guard
  <2>4. PInv(p)'
    BY <1>1, <1>4, <2>1, NoneAssumption
    DEF acquireLock, ServeType, Process, PInv, Shape, Holds, Has, Only
  <2> QED
    BY <2>1, <2>2, <2>3, <2>4, Frame DEF StepOf
<1>5. CASE /\ create(p)
           /\ file' = Made(p, "db")
           /\ UNCHANGED lock
           /\ Set(p, [proc[p] EXCEPT !.pc = "proxy", !.log = TRUE])
  <2>1. ProcStep(p) /\ proc'[p] = [proc[p] EXCEPT !.pc = "proxy", !.log = TRUE]
    BY <1>1, <1>5, SetStep, Records DEF Places
  <2>2. LockStep(p)
    BY <1>1, <1>5, Locking
  <2>3. FileStep(p)
    BY <1>1, <1>5, Filing DEF create, Guard, PInv, Holds
  <2>4. PInv(p)'
    BY <1>1, <1>5, <2>1, NoneAssumption
    DEF create, ServeType, Process, PInv, Shape, Holds, Has, Only, Made
  <2> QED
    BY <2>1, <2>2, <2>3, <2>4, Frame DEF StepOf
<1>6. CASE /\ create(p)
           /\ file' = Unlinked(p, "db")
           /\ lock' = Unlocked(p, "dir")
           /\ Goto(p, "proxy")
  <2>1. ProcStep(p) /\ proc'[p] = [proc[p] EXCEPT !.pc = "proxy"]
    BY <1>1, <1>6, GotoStep DEF create, Places
  <2>2. LockStep(p)
    BY <1>1, <1>6, Locking
  <2>3. FileStep(p)
    BY <1>1, <1>6, Filing DEF create, Guard, PInv, Holds
  <2>4. PInv(p)'
    BY <1>1, <1>6, <2>1, NoneAssumption
    DEF create, ServeType, Process, PInv, Shape, Holds, Has, Only, Unlinked, Unlocked
  <2> QED
    BY <2>1, <2>2, <2>3, <2>4, Frame DEF StepOf
<1> QED
  BY <1>2, <1>3, <1>4, <1>5, <1>6 DEF acquireLock, create

(* The egress and the cage.                                                *)
LEMMA ProxyStep ==
  ASSUME SInv, NEW p \in Procs, startCage(p)
  PROVE  SInv'
<1> USE DEF At, Files, Locks, Starting, Talking, Running, Leaving
<1>1. ServeType /\ PInv(p)
  BY DEF SInv
<1>2. CASE /\ startProxy(p)
           /\ TryLock(p, "run")
           /\ lock' = Locked(p, "run")
           /\ file' = Made(p, "egress")
           /\ Goto(p, "start")
  <2>1. ProcStep(p) /\ proc'[p] = [proc[p] EXCEPT !.pc = "start"]
    BY <1>1, <1>2, GotoStep DEF startProxy, Places
  <2>2. LockStep(p)
    BY <1>1, <1>2, Locking
  <2>3. FileStep(p)
    BY <1>1, <1>2, Filing DEF Guard, TryLock
  <2>4. PInv(p)'
    BY <1>1, <1>2, <2>1, NoneAssumption
    DEF startProxy, ServeType, Process, PInv, Shape, Holds, Has, Only, TryLock,
        Locked, Made
  <2> QED
    BY <2>1, <2>2, <2>3, <2>4, Frame DEF StepOf
<1>3. CASE /\ startProxy(p)
           /\ TryLock(p, "run")
           /\ lock' = Locked(p, "run")
           /\ UNCHANGED file
           /\ Goto(p, "unproxy")
  <2>1. ProcStep(p) /\ proc'[p] = [proc[p] EXCEPT !.pc = "unproxy"]
    BY <1>1, <1>3, GotoStep DEF startProxy, Places
  <2>2. LockStep(p)
    BY <1>1, <1>3, Locking
  <2>3. FileStep(p)
    BY <1>1, <1>3, Filing
  <2>4. PInv(p)'
    BY <1>1, <1>3, <2>1, NoneAssumption
    DEF startProxy, ServeType, Process, PInv, Shape, Holds, Has, Only, TryLock, Locked
  <2> QED
    BY <2>1, <2>2, <2>3, <2>4, Frame DEF StepOf
<1>4. CASE startProxy(p) /\ UNCHANGED <<lock, file>> /\ Goto(p, "closeLog")
  <2>1. ProcStep(p) /\ proc'[p] = [proc[p] EXCEPT !.pc = "closeLog"]
    BY <1>1, <1>4, GotoStep DEF startProxy, Places
  <2>2. LockStep(p)
    BY <1>1, <1>4, Locking
  <2>3. FileStep(p)
    BY <1>1, <1>4, Filing
  <2>4. PInv(p)'
    BY <1>1, <1>4, <2>1, NoneAssumption
    DEF startProxy, ServeType, Process, PInv, Shape, Holds, Has, Only
  <2> QED
    BY <2>1, <2>2, <2>3, <2>4, Frame DEF StepOf
<1>5. CASE /\ Start(p)
           /\ Set(p, [proc[p] EXCEPT !.pc = Started(p), !.cage = TRUE,
                                       !.tear = IF Started(p) = "hello" THEN "none" ELSE "up"])
  <2>1. /\ ProcStep(p)
        /\ proc'[p] = [proc[p] EXCEPT !.pc = Started(p), !.cage = TRUE,
                                       !.tear = IF Started(p) = "hello" THEN "none" ELSE "up"]
    BY <1>1, <1>5, SetStep, Records DEF Started, Places
  <2>2. LockStep(p)
    BY <1>1, <1>5, Locking DEF Start
  <2>3. FileStep(p)
    BY <1>1, <1>5, Filing DEF Start, Guard
  <2>4. PInv(p)'
    BY <1>1, <1>5, <2>1, NoneAssumption
    DEF Start, ServeType, Process, PInv, Shape, Holds, Has, Only, Started, Kinds
  <2> QED
    BY <2>1, <2>2, <2>3, <2>4, Frame DEF StepOf
<1>6. CASE Start(p) /\ Goto(p, "unproxy")
  <2>1. ProcStep(p) /\ proc'[p] = [proc[p] EXCEPT !.pc = "unproxy"]
    BY <1>1, <1>6, GotoStep DEF Start, Places
  <2>2. LockStep(p)
    BY <1>1, <1>6, Locking DEF Start
  <2>3. FileStep(p)
    BY <1>1, <1>6, Filing DEF Start, Guard
  <2>4. PInv(p)'
    BY <1>1, <1>6, <2>1, NoneAssumption
    DEF Start, ServeType, Process, PInv, Shape, Holds, Has, Only
  <2> QED
    BY <2>1, <2>2, <2>3, <2>4, Frame DEF StepOf
<1>7. CASE unproxy(p)
  <2>1. ProcStep(p) /\ proc'[p] = [proc[p] EXCEPT !.pc = "closeLog"]
    BY <1>1, <1>7, GotoStep DEF unproxy, Places
  <2>2. LockStep(p)
    BY <1>1, <1>7, Locking DEF unproxy
  <2>3. FileStep(p)
    BY <1>1, <1>7, Filing DEF unproxy, Guard, PInv, Holds
  <2>4. PInv(p)'
    BY <1>1, <1>7, <2>1, NoneAssumption
    DEF unproxy, ServeType, Process, PInv, Shape, Holds, Has, Only, Unlocked, Unlinked
  <2> QED
    BY <2>1, <2>2, <2>3, <2>4, Frame DEF StepOf
<1> QED
  BY <1>2, <1>3, <1>4, <1>5, <1>6, <1>7 DEF startCage, startProxy, Start

(* startOpencodeChatSession: the talk with the server, and its failure.     *)
LEMMA OpencodeStep ==
  ASSUME SInv, NEW p \in Procs, startOpencodeChatSession(p)
  PROVE  SInv'
<1> USE DEF At, Files, Locks, Starting, Talking, Running, Leaving
<1>1. ServeType /\ PInv(p)
  BY DEF SInv
<1>2. CASE /\ startOpencodeAttempt(p)
           /\ proc[p].cage
           /\ Set(p, [proc[p] EXCEPT !.pc = "sockLock", !.tear = "up"])
  <2>1. ProcStep(p) /\ proc'[p] = [proc[p] EXCEPT !.pc = "sockLock", !.tear = "up"]
    BY <1>1, <1>2, SetStep, Records DEF startOpencodeAttempt, Places
  <2>2. LockStep(p)
    BY <1>1, <1>2, Locking DEF startOpencodeAttempt
  <2>3. FileStep(p)
    BY <1>1, <1>2, Filing DEF startOpencodeAttempt, Guard
  <2>4. PInv(p)'
    BY <1>1, <1>2, <2>1, NoneAssumption
    DEF startOpencodeAttempt, ServeType, Process, PInv, Shape, Holds, Has, Only
  <2> QED
    BY <2>1, <2>2, <2>3, <2>4, Frame DEF StepOf
<1>3. CASE startOpencodeAttempt(p) /\ Goto(p, "failed")
  <2>1. ProcStep(p) /\ proc'[p] = [proc[p] EXCEPT !.pc = "failed"]
    BY <1>1, <1>3, GotoStep DEF startOpencodeAttempt, Places
  <2>2. LockStep(p)
    BY <1>1, <1>3, Locking DEF startOpencodeAttempt
  <2>3. FileStep(p)
    BY <1>1, <1>3, Filing DEF startOpencodeAttempt, Guard
  <2>4. PInv(p)'
    BY <1>1, <1>3, <2>1, NoneAssumption
    DEF startOpencodeAttempt, ServeType, Process, PInv, Shape, Holds, Has, Only
  <2> QED
    BY <2>1, <2>2, <2>3, <2>4, Frame DEF StepOf
<1>4. CASE teardownFirst(p)
  <2>1. ProcStep(p) /\ proc'[p] = [proc[p] EXCEPT !.pc = "reap"]
    BY <1>1, <1>4, GotoStep DEF teardownFirst, Places
  <2>2. LockStep(p)
    BY <1>1, <1>4, Locking DEF teardownFirst
  <2>3. FileStep(p)
    BY <1>1, <1>4, Filing DEF teardownFirst, Guard, PInv, Holds
  <2>4. PInv(p)'
    BY <1>1, <1>4, <2>1, NoneAssumption
    DEF teardownFirst, ServeType, Process, PInv, Shape, Holds, Has, Only, Unlinked,
        Unlocked
  <2> QED
    BY <2>1, <2>2, <2>3, <2>4, Frame DEF StepOf
<1>5. CASE reap(p) /\ Set(p, [proc[p] EXCEPT !.pc = "proxy", !.again = TRUE])
  <2>1. ProcStep(p) /\ proc'[p] = [proc[p] EXCEPT !.pc = "proxy", !.again = TRUE]
    BY <1>1, <1>5, SetStep, Records DEF reap, Places
  <2>2. LockStep(p)
    BY <1>1, <1>5, Locking DEF reap
  <2>3. FileStep(p)
    BY <1>1, <1>5, Filing DEF reap, Guard
  <2>4. PInv(p)'
    BY <1>1, <1>5, <2>1, NoneAssumption
    DEF reap, ServeType, Process, PInv, Shape, Holds, Has, Only
  <2> QED
    BY <2>1, <2>2, <2>3, <2>4, Frame DEF StepOf
<1>6. CASE reap(p) /\ Goto(p, "closeLog")
  <2>1. ProcStep(p) /\ proc'[p] = [proc[p] EXCEPT !.pc = "closeLog"]
    BY <1>1, <1>6, GotoStep DEF reap, Places
  <2>2. LockStep(p)
    BY <1>1, <1>6, Locking DEF reap
  <2>3. FileStep(p)
    BY <1>1, <1>6, Filing DEF reap, Guard
  <2>4. PInv(p)'
    BY <1>1, <1>6, <2>1, NoneAssumption
    DEF reap, ServeType, Process, PInv, Shape, Holds, Has, Only
  <2> QED
    BY <2>1, <2>2, <2>3, <2>4, Frame DEF StepOf
<1> QED
  BY <1>2, <1>3, <1>4, <1>5, <1>6 DEF startOpencodeChatSession, startOpencodeAttempt, reap

(* teardown, after the cage has ended.                                     *)
LEMMA TeardownStep ==
  ASSUME SInv, NEW p \in Procs, teardown(p)
  PROVE  SInv'
<1> USE DEF At, Files, Locks, Starting, Talking, Running, Leaving
<1>1. ServeType /\ PInv(p)
  BY DEF SInv
<1>2. CASE closeProxy(p)
  <2>1. ProcStep(p) /\ proc'[p] = [proc[p] EXCEPT !.tear = "closed"]
    BY <1>1, <1>2, SetStep, Records DEF closeProxy, Places
  <2>2. LockStep(p)
    BY <1>1, <1>2, Locking DEF closeProxy
  <2>3. FileStep(p)
    BY <1>1, <1>2, Filing DEF closeProxy, Guard, PInv, Holds
  <2>4. PInv(p)'
    BY <1>1, <1>2, <2>1, NoneAssumption
    DEF closeProxy, ServeType, Process, PInv, Shape, Holds, Has, Only, Unlinked,
        CageWaited, Alive, Gone
  <2> QED
    BY <2>1, <2>2, <2>3, <2>4, Frame DEF StepOf
<1>3. CASE unlockProxy(p)
  <2>1. ProcStep(p) /\ proc'[p] = [proc[p] EXCEPT !.tear = "done"]
    BY <1>1, <1>3, SetStep, Records DEF unlockProxy, Places
  <2>2. LockStep(p)
    BY <1>1, <1>3, Locking DEF unlockProxy
  <2>3. FileStep(p)
    BY <1>1, <1>3, Filing DEF unlockProxy, Guard
  <2>4. PInv(p)'
    BY <1>1, <1>3, <2>1, NoneAssumption
    DEF unlockProxy, ServeType, Process, PInv, Shape, Holds, Has, Only, Unlocked,
        Alive, Gone
  <2> QED
    BY <2>1, <2>2, <2>3, <2>4, Frame DEF StepOf
<1> QED
  BY <1>2, <1>3 DEF teardown

(* The socket is removed, then its lock is released, then the cage is told. *)
LEMMA AfterClosing == After("unlink") = "unlock" /\ After("unlock") = "cancel"
<1> DEFINE At1(x) == CHOOSE i \in 1..2 : Closing[i] = x
<1>1. At1("unlink") = 1 /\ At1("unlock") = 2
  BY DEF Closing
<1> QED
  BY <1>1 DEF After, Closing

(* The socket, from its lock to its end.                                   *)
LEMMA SocketStep ==
  ASSUME SInv, NEW p \in Procs, lockSock(p) \/ Listen(p) \/ Shutdown(p) \/ unlink(p) \/ unlock(p)
  PROVE  SInv'
<1> USE DEF At, Files, Locks, Starting, Talking, Running, Leaving
<1>1. ServeType /\ PInv(p)
  BY DEF SInv
<1>2. CASE /\ lockSock(p)
           /\ TryLock(p, "sock")
           /\ lock' = Locked(p, "sock")
           /\ Goto(p, "listen")
  <2>1. ProcStep(p) /\ proc'[p] = [proc[p] EXCEPT !.pc = "listen"]
    BY <1>1, <1>2, GotoStep DEF lockSock, Places
  <2>2. LockStep(p)
    BY <1>1, <1>2, Locking
  <2>3. FileStep(p)
    BY <1>1, <1>2, Filing DEF lockSock, Guard
  <2>4. PInv(p)'
    BY <1>1, <1>2, <2>1, NoneAssumption
    DEF lockSock, ServeType, Process, PInv, Shape, Holds, Has, Only, TryLock, Locked
  <2> QED
    BY <2>1, <2>2, <2>3, <2>4, Frame DEF StepOf
<1>3. CASE lockSock(p) /\ UNCHANGED lock /\ Goto(p, "cancel")
  <2>1. ProcStep(p) /\ proc'[p] = [proc[p] EXCEPT !.pc = "cancel"]
    BY <1>1, <1>3, GotoStep DEF lockSock, Places
  <2>2. LockStep(p)
    BY <1>1, <1>3, Locking
  <2>3. FileStep(p)
    BY <1>1, <1>3, Filing DEF lockSock, Guard
  <2>4. PInv(p)'
    BY <1>1, <1>3, <2>1, NoneAssumption
    DEF lockSock, ServeType, Process, PInv, Shape, Holds, Has, Only
  <2> QED
    BY <2>1, <2>2, <2>3, <2>4, Frame DEF StepOf
<1>4. CASE Listen(p) /\ file' = Made(p, proc[p].kind) /\ Goto(p, "serving")
  <2>1. ProcStep(p) /\ proc'[p] = [proc[p] EXCEPT !.pc = "serving"]
    BY <1>1, <1>4, GotoStep DEF Listen, Places
  <2>2. LockStep(p)
    BY <1>1, <1>4, Locking DEF Listen
  <2>3. FileStep(p)
    BY <1>1, <1>4, Filing DEF Listen, Guard, PInv, Holds, Shape
  <2>4. PInv(p)'
    BY <1>1, <1>4, <2>1, NoneAssumption
    DEF Listen, ServeType, Process, PInv, Shape, Holds, Has, Only, Made
  <2> QED
    BY <2>1, <2>2, <2>3, <2>4, Frame DEF StepOf
<1>5. CASE Listen(p) /\ UNCHANGED file /\ Goto(p, "unlock")
  <2>1. ProcStep(p) /\ proc'[p] = [proc[p] EXCEPT !.pc = "unlock"]
    BY <1>1, <1>5, GotoStep DEF Listen, Places
  <2>2. LockStep(p)
    BY <1>1, <1>5, Locking DEF Listen
  <2>3. FileStep(p)
    BY <1>1, <1>5, Filing
  <2>4. PInv(p)'
    BY <1>1, <1>5, <2>1, NoneAssumption
    DEF Listen, ServeType, Process, PInv, Shape, Holds, Has, Only
  <2> QED
    BY <2>1, <2>2, <2>3, <2>4, Frame DEF StepOf
<1>6. CASE Shutdown(p)
  <2>1. ProcStep(p) /\ proc'[p] = [proc[p] EXCEPT !.pc = "unlink"]
    BY <1>1, <1>6, GotoStep DEF Shutdown, Closing, Places
  <2>2. LockStep(p)
    BY <1>1, <1>6, Locking DEF Shutdown
  <2>3. FileStep(p)
    BY <1>1, <1>6, Filing DEF Shutdown, Guard, PInv, Holds, Shape
  <2>4. PInv(p)'
    BY <1>1, <1>6, <2>1, NoneAssumption
    DEF Shutdown, ServeType, Process, PInv, Shape, Holds, Has, Only, Unlinked
  <2> QED
    BY <2>1, <2>2, <2>3, <2>4, Frame DEF StepOf
<1>7. CASE unlink(p)
  <2>1. ProcStep(p) /\ proc'[p] = [proc[p] EXCEPT !.pc = "unlock"]
    BY <1>1, <1>7, AfterClosing, GotoStep DEF unlink, Places
  <2>2. LockStep(p)
    BY <1>1, <1>7, Locking DEF unlink
  <2>3. FileStep(p)
    BY <1>1, <1>7, Filing DEF unlink, Guard, PInv, Holds, Shape
  <2>4. PInv(p)'
    BY <1>1, <1>7, <2>1, NoneAssumption
    DEF unlink, ServeType, Process, PInv, Shape, Holds, Has, Only, Unlinked
  <2> QED
    BY <2>1, <2>2, <2>3, <2>4, Frame DEF StepOf
<1>8. CASE unlock(p)
  <2>1. ProcStep(p) /\ proc'[p] = [proc[p] EXCEPT !.pc = "cancel"]
    BY <1>1, <1>8, AfterClosing, GotoStep DEF unlock, Places
  <2>2. LockStep(p)
    BY <1>1, <1>8, Locking DEF unlock
  <2>3. FileStep(p)
    BY <1>1, <1>8, Filing DEF unlock, Guard
  <2>4. PInv(p)'
    BY <1>1, <1>8, <2>1, NoneAssumption
    DEF unlock, ServeType, Process, PInv, Shape, Holds, Has, Only, Unlocked
  <2> QED
    BY <2>1, <2>2, <2>3, <2>4, Frame DEF StepOf
<1> QED
  BY <1>2, <1>3, <1>4, <1>5, <1>6, <1>7, <1>8 DEF lockSock, Listen

(* The end of a process.                                                   *)
LEMMA EndStep ==
  ASSUME SInv, NEW p \in Procs, Cancel(p) \/ wait(p) \/ closeLog(p) \/ unlockLog(p)
  PROVE  SInv'
<1> USE DEF At, Files, Locks, Starting, Talking, Running, Leaving
<1>1. ServeType /\ PInv(p)
  BY DEF SInv
<1>2. CASE Cancel(p)
  <2>1. ProcStep(p) /\ proc'[p] = [proc[p] EXCEPT !.pc = "drain", !.cancelled = TRUE]
    BY <1>1, <1>2, SetStep, Records DEF Cancel, Places
  <2>2. LockStep(p)
    BY <1>1, <1>2, Locking DEF Cancel
  <2>3. FileStep(p)
    BY <1>1, <1>2, Filing DEF Cancel, Guard
  <2>4. PInv(p)'
    BY <1>1, <1>2, <2>1, NoneAssumption
    DEF Cancel, ServeType, Process, PInv, Shape, Holds, Has, Only
  <2> QED
    BY <2>1, <2>2, <2>3, <2>4, Frame DEF StepOf
<1>3. CASE wait(p)
  <2>1. ProcStep(p) /\ proc'[p] = [proc[p] EXCEPT !.pc = "closeLog"]
    BY <1>1, <1>3, GotoStep DEF wait, Places
  <2>2. LockStep(p)
    BY <1>1, <1>3, Locking DEF wait
  <2>3. FileStep(p)
    BY <1>1, <1>3, Filing DEF wait, Guard
  <2>4. PInv(p)'
    BY <1>1, <1>3, <2>1, NoneAssumption
    DEF wait, ServeType, Process, PInv, Shape, Holds, Has, Only
  <2> QED
    BY <2>1, <2>2, <2>3, <2>4, Frame DEF StepOf
<1>4. CASE closeLog(p) /\ proc[p].log
  <2>1. ProcStep(p) /\ proc'[p] = [proc[p] EXCEPT !.pc = "unlockLog", !.log = FALSE]
    BY <1>1, <1>4, SetStep, Records DEF closeLog, Places
  <2>2. LockStep(p)
    BY <1>1, <1>4, Locking DEF closeLog
  <2>3. FileStep(p)
    BY <1>1, <1>4, Filing DEF closeLog, Guard, PInv, Holds
  <2>4. PInv(p)'
    BY <1>1, <1>4, <2>1, NoneAssumption
    DEF closeLog, ServeType, Process, PInv, Shape, Holds, Has, Only, Unlinked
  <2> QED
    BY <2>1, <2>2, <2>3, <2>4, Frame DEF StepOf
<1>5. CASE closeLog(p) /\ ~proc[p].log
  <2>1. ProcStep(p) /\ proc'[p] = Ended(p, "exited")
    BY <1>1, <1>5, ExitStep DEF closeLog
  <2>2. LockStep(p)
    BY <1>1, <1>5, Locking DEF closeLog
  <2>3. FileStep(p)
    BY <1>1, <1>5, Filing DEF closeLog, Guard
  <2>4. PInv(p)'
    BY <1>1, <1>5, <2>1, NoneAssumption
    DEF closeLog, ServeType, Process, PInv, Shape, Holds, Has, Only, Ended, Idle
  <2> QED
    BY <2>1, <2>2, <2>3, <2>4, Frame DEF StepOf
<1>6. CASE unlockLog(p)
  <2>1. ProcStep(p) /\ proc'[p] = Ended(p, "exited")
    BY <1>1, <1>6, ExitStep DEF unlockLog
  <2>2. LockStep(p)
    BY <1>1, <1>6, Locking DEF unlockLog
  <2>3. FileStep(p)
    BY <1>1, <1>6, Filing DEF unlockLog, Guard
  <2>4. PInv(p)'
    BY <1>1, <1>6, <2>1, NoneAssumption
    DEF unlockLog, ServeType, Process, PInv, Shape, Holds, Has, Only, Ended, Idle,
        Unlocked
  <2> QED
    BY <2>1, <2>2, <2>3, <2>4, Frame DEF StepOf
<1> QED
  BY <1>2, <1>3, <1>4, <1>5, <1>6 DEF closeLog
-----------------------------------------------------------------------------
(* SInv is inductive.                                                      *)
THEOREM ServeInvariance == Spec => []SInv
<1>1. Init => SInv
  <2> SUFFICES ASSUME Init PROVE SInv
    OBVIOUS
  <2>1. Idle \in Process
    BY DEF Idle, Process, Places, Starting, Kinds, Agents
  <2>2. ServeType
    BY <2>1 DEF Init, ServeType, Locks, Files
  <2>3. ASSUME NEW p \in Procs PROVE PInv(p)
    <3>1. proc[p] = Idle /\ \A f \in Files : file[f] # p
      BY NoneAssumption DEF Init, Files
    <3> QED
      BY <3>1 DEF PInv, Shape, Holds, Has, Only, Files, Idle, Starting, Talking,
          Running, Leaving
  <2> QED
    BY <2>2, <2>3 DEF SInv
<1>2. SInv /\ [Next]_vars => SInv'
  <2> SUFFICES ASSUME SInv, [Next]_vars PROVE SInv'
    OBVIOUS
  <2>1. CASE UNCHANGED vars
    BY <2>1 DEF vars, SInv, ServeType, PInv, Holds, Has, Only
  <2>2. ASSUME NEW p \in Procs, Launch(p) \/ Web(p) PROVE SInv'
    BY <2>2, LaunchStep, OutsideStep, KillStep DEF Web
  <2>3. ASSUME NEW p \in Procs, Steps(p) PROVE SInv'
    BY <2>3, SweepStep, OpenStep, ProxyStep, OpencodeStep, SocketStep, EndStep
    DEF Steps, openChatLog, Opening, Ending
  <2>4. ASSUME NEW p \in Procs, Shutdown(p) \/ teardown(p) \/ CageEnds(p) \/ Signal(p) \/ Kill(p)
        PROVE SInv'
    BY <2>4, SocketStep, TeardownStep, OutsideStep, KillStep
  <2> QED
    BY <2>1, <2>2, <2>3, <2>4 DEF Next, Done
<1> QED
  BY <1>1, <1>2, PTL DEF Spec

(* SweepStale, Open and Close of the event log: the database of a serve    *)
(* that writes it stays in place, with any number of other processes.      *)
THEOREM LogStaysInUse == Spec => []LogInUse
<1>1. SInv => LogInUse
  BY DEF SInv, PInv, Has, LogInUse
<1> QED
  BY <1>1, ServeInvariance, PTL

(* runServe and startProxy: the socket of a serve that serves is its own,  *)
(* and so is the egress of a running cage.                                 *)
THEOREM SocketsServe == Spec => []SockServes
<1>1. SInv => SockServes
  BY DEF SInv, PInv, Has, SockServes, At
<1> QED
  BY <1>1, ServeInvariance, PTL

(* startProxy's lock: two live processes never run a cage on one session,  *)
(* but for a failed opencode start that is being reaped.                   *)
THEOREM OnlyOneCage == Spec => []OneCage
<1>1. SInv => OneCage
  <2> SUFFICES ASSUME SInv, NEW p \in Procs, NEW q \in Procs, p # q,
                      Alive(p), Alive(q), ~proc[p].own, ~proc[q].own,
                      ~At(p, "reap"), ~At(q, "reap"), proc[p].cage, proc[q].cage
               PROVE  FALSE
    BY DEF OneCage
  <2>1. ASSUME NEW x \in {p, q} PROVE lock["run"] = x
    BY <2>1 DEF SInv, PInv, Shape, Holds, Alive, Gone, At, Talking
  <2> QED
    BY <2>1
<1> QED
  BY <1>1, ServeInvariance, PTL

(* runServe's deferred calls and the error paths of the start: a process   *)
(* that ends by itself leaves no file and no cage behind.                  *)
THEOREM NothingIsLeft == Spec => []LeavesNothing
<1>1. SInv => LeavesNothing
  <2> SUFFICES ASSUME SInv, NEW p \in Procs, At(p, "exited")
               PROVE  ~proc[p].cage /\ \A f \in DOMAIN file : file[f] # p
    BY DEF LeavesNothing
  <2>1. PInv(p) /\ DOMAIN file = Files
    BY DEF SInv, ServeType
  <2>2. proc[p].pc = "exited" /\ ~proc[p].log /\ proc[p].tear \in {"none", "done"}
    BY <2>1 DEF PInv, Shape, At, Leaving
  <2> QED
    BY <2>1, <2>2 DEF PInv, Shape, Only, Talking, Files
<1> QED
  BY <1>1, ServeInvariance, PTL
=============================================================================
