------------------------------- MODULE Serve -------------------------------
(* The host processes that use one session: goronation run, goronation      *)
(* serve (terminal and --chat) and goronation web, which spawns serves.     *)
(* They share nothing but the file system: three flocks, the event log's    *)
(* database and the Unix sockets.  A process can be told to end at any      *)
(* moment, can fail at every step of its start, and can be killed between   *)
(* any two steps; its locks then vanish and its files stay.                 *)
EXTENDS Naturals, FiniteSets

CONSTANTS Procs,     \* the processes that may be started
          Repos,     \* the repositories the web page can start a chat on
          MaxStarts, \* maxChatStarts
          Recorded,  \* the agent the session was made with
          None

Agents == {"claude", "opencode"}
ASSUME StartsAssumption == MaxStarts \in Nat \ {0}
ASSUME RecordedAssumption == Recorded \in Agents
ASSUME NoneAssumption == None \notin Procs

VARIABLES proc,     \* per process: where it is and what it holds
          lock,     \* dir: the event log's, run: the egress', sock: the serve's
          file      \* db, and the sockets: the process that made the file

vars == <<proc, lock, file>>

Kinds == {"run", "term", "chat"}
Idle == [pc |-> "idle", kind |-> "run", agent |-> "claude", own |-> FALSE,
         log |-> FALSE, again |-> FALSE, cancelled |-> FALSE, cage |-> FALSE,
         tear |-> "none", web |-> None, repo |-> None]

Init == /\ proc = [p \in Procs |-> Idle]
        /\ lock = [l \in {"dir", "run", "sock"} |-> None]
        /\ file = [f \in {"db", "egress", "chat", "term"} |-> None]

Gone(p) == proc[p].pc \in {"exited", "dead"}
Alive(p) == proc[p].pc # "idle" /\ ~Gone(p)
At(p, pc) == proc[p].pc = pc
Set(p, r) == proc' = [proc EXCEPT ![p] = r]
(* What a process was is forgotten when it is gone, but for its cage and    *)
(* for the page that waits for it.                                          *)
Ended(p, pc) == [Idle EXCEPT !.pc = pc, !.cage = proc[p].cage, !.web = proc[p].web]
Goto(p, pc) == Set(p, IF pc = "exited" THEN Ended(p, pc)
                      ELSE [proc[p] EXCEPT !.pc = pc])

(* A process on a session of its own meets nobody at its locks and files.   *)
TryLock(p, l) == proc[p].own \/ lock[l] = None
Locked(p, l) == IF proc[p].own THEN lock ELSE [lock EXCEPT ![l] = p]
Unlocked(p, l) == IF lock[l] = p THEN [lock EXCEPT ![l] = None] ELSE lock
Made(p, f) == IF proc[p].own THEN file ELSE [file EXCEPT ![f] = p]
Unlinked(p, f) == IF proc[p].own THEN file ELSE [file EXCEPT ![f] = None]

----------------------------------------------------------------------------
(* Starting a process.                                                      *)

Modes == {"repo", "session", "login"}
Options == [cmd : {"run", "serve"}, modes : SUBSET Modes, push : BOOLEAN,
            agent : Agents \cup {None}, chat : BOOLEAN, noLog : BOOLEAN,
            args : BOOLEAN]

(* A new session, this one, or run's login in a directory of its own.       *)
oneMode(o) == Cardinality(o.modes) = 1
parseRunArgs(o) == /\ oneMode(o) /\ (o.push => o.modes # {"login"})
                   /\ ~o.chat /\ ~o.noLog
serveArgs(o) == /\ oneMode(o) /\ "login" \notin o.modes /\ ~o.push
                /\ (o.noLog => o.chat)

(* A session is resumed only with the agent it was made with.               *)
resumes(o) == "session" \in o.modes
pickAgent(o) == IF resumes(o) THEN Recorded
                ELSE IF o.agent = None THEN "claude" ELSE o.agent
agentFits(o) == resumes(o) => o.agent \in {None, Recorded}
checkAgentArgs(o) == o.chat /\ pickAgent(o) = "opencode" => ~o.args

accepted(o) == /\ IF o.cmd = "run" THEN parseRunArgs(o) ELSE serveArgs(o)
               /\ agentFits(o) /\ checkAgentArgs(o)

kindOf(o) == IF o.cmd = "run" THEN "run" ELSE IF o.chat THEN "chat" ELSE "term"

Launched(o, web) ==
    [Idle EXCEPT !.kind = kindOf(o), !.agent = pickAgent(o), !.own = ~resumes(o),
                 !.web = web,
                 !.pc = IF o.chat /\ ~o.noLog THEN "look" ELSE "proxy"]

(* The operator's shell, on this session.  A process on a new session meets *)
(* the others only in its sweep: handleChatStart below starts those.        *)
Resumed == {Launched(o, None) : o \in {x \in Options : accepted(x) /\ resumes(x)}}
Launch(p) == /\ At(p, "idle") /\ \E r \in Resumed : Set(p, r)
             /\ UNCHANGED <<lock, file>>

(* POST /api/chat/start: one start per repository at a time.                *)
busy == {proc[p].web : p \in Procs} \cap Repos
acquire(r) == r \notin busy /\ Cardinality(busy) < MaxStarts

chatOn == [cmd |-> "serve", modes |-> {"repo"}, push |-> FALSE, agent |-> None,
           chat |-> TRUE, noLog |-> FALSE, args |-> FALSE]
handleChatStart(p, r) == /\ At(p, "idle") /\ acquire(r)
                         /\ Set(p, [Launched(chatOn, r) EXCEPT !.repo = r])
                         /\ UNCHANGED <<lock, file>>

(* GET /s/{id}/ws: a serve is spawned when nothing answers on term.sock.    *)
(* Its spawner keeps no state while it waits; its timeout is Kill.          *)
Answers(f) == file[f] # None /\ proc[file[f]].pc = "serving"
termOn == [chatOn EXCEPT !.modes = {"session"}, !.chat = FALSE]
ensureTermSocket(p) == /\ At(p, "idle") /\ ~Answers("term")
                       /\ Set(p, Launched(termOn, None))
                       /\ UNCHANGED <<lock, file>>

(* The spawner waits for the ready line, the end of the child, or 30 s.     *)
spawned(p) == /\ proc[p].web # None
              /\ At(p, "serving") \/ Gone(p)
              /\ Set(p, [proc[p] EXCEPT !.web = None])
              /\ UNCHANGED <<lock, file>>

(* The kernel's part of a SIGKILL: locks go, files and the cage stay.       *)
Killed(p) == /\ Set(p, Ended(p, "dead"))
             /\ lock' = [l \in DOMAIN lock |->
                            IF lock[l] = p THEN None ELSE lock[l]]
             /\ UNCHANGED file
spawnTimeout(p) == /\ proc[p].web # None /\ Alive(p) /\ ~At(p, "serving")
                   /\ Killed(p)

----------------------------------------------------------------------------
(* The event log: sweep what dead serves left, then lock and create.        *)

\* Mutant: the sweep does not ask for the lock.
HasLockAlways(l) == TRUE
HasLock(l) == lock[l] = None

(* A live owner's bytes count against the total; past it, no log.           *)
sweepOne(p) ==
    /\ At(p, "look")
    /\ \/ file["db"] = None /\ Goto(p, "open")
       \/ file["db"] # None /\ Goto(p, "trylock")
    /\ UNCHANGED <<lock, file>>
sweepLock(p) ==
    /\ At(p, "trylock")
    /\ \/ HasLock("dir") /\ lock' = [lock EXCEPT !["dir"] = p] /\ Goto(p, "sweep")
       \/ ~HasLock("dir") /\ UNCHANGED lock /\ \E pc \in {"open", "proxy"} : Goto(p, pc)
    /\ UNCHANGED file
removeDBFiles(p) == /\ At(p, "sweep") /\ Goto(p, "swept")
                    /\ file' = [file EXCEPT !["db"] = None]
                    /\ UNCHANGED lock
endSweep(p) == /\ At(p, "swept") /\ Goto(p, "open")
               /\ lock' = Unlocked(p, "dir") /\ UNCHANGED file

(* Only a lock that another holds fails the start; anything else degrades.  *)
acquireLock(p) ==
    /\ At(p, "open")
    /\ \/ TryLock(p, "dir") /\ lock' = Locked(p, "dir") /\ Goto(p, "create")
       \/ ~TryLock(p, "dir") /\ UNCHANGED lock /\ Goto(p, "exited")
       \/ UNCHANGED lock /\ Goto(p, "proxy")
    /\ UNCHANGED file
create(p) ==
    /\ At(p, "create")
    /\ \/ /\ file' = Made(p, "db") /\ UNCHANGED lock
          /\ Set(p, [proc[p] EXCEPT !.pc = "proxy", !.log = TRUE])
       \/ /\ file' = Unlinked(p, "db") /\ lock' = Unlocked(p, "dir")
          /\ Goto(p, "proxy")

----------------------------------------------------------------------------
(* The egress and the cage.                                                 *)

startProxy(p) ==
    /\ At(p, "proxy")
    /\ \/ /\ TryLock(p, "run") /\ lock' = Locked(p, "run")
          /\ \/ file' = Made(p, "egress") /\ Goto(p, "start")
             \/ UNCHANGED file /\ Goto(p, "unproxy")
       \/ ~TryLock(p, "run") /\ UNCHANGED <<lock, file>> /\ Goto(p, "closeLog")

(* Up: the goroutine that waits for the cage runs.  opencode is talked to   *)
(* before its start is done.                                                *)
Started(p) == IF proc[p].kind = "run" THEN "drain"
              ELSE IF proc[p].kind = "chat" /\ proc[p].agent = "opencode"
                   THEN "hello" ELSE "sockLock"
Start(p) ==
    /\ At(p, "start")
    /\ \/ /\ ~proc[p].cancelled
          /\ Set(p, [proc[p] EXCEPT !.pc = Started(p), !.cage = TRUE,
                        !.tear = IF Started(p) = "hello" THEN "none" ELSE "up"])
       \/ Goto(p, "unproxy")
    /\ UNCHANGED <<lock, file>>

(* readReadyLine to the root session: it agrees, or the attempt fails; the  *)
(* init's error is worth one retry.                                         *)
startOpencodeAttempt(p) ==
    /\ At(p, "hello")
    /\ \/ proc[p].cage /\ Set(p, [proc[p] EXCEPT !.pc = "sockLock", !.tear = "up"])
       \/ Goto(p, "failed")
    /\ UNCHANGED <<lock, file>>
(* fail: teardown closes the proxy, and only then the cage is waited for.   *)
teardownFirst(p) ==
    /\ At(p, "failed") /\ Goto(p, "reap")
    /\ file' = Unlinked(p, "egress") /\ lock' = Unlocked(p, "run")
reap(p) ==
    /\ At(p, "reap") /\ ~proc[p].cage
    /\ \/ ~proc[p].again /\ Set(p, [proc[p] EXCEPT !.pc = "proxy", !.again = TRUE])
       \/ Goto(p, "closeLog")
    /\ UNCHANGED <<lock, file>>

(* The agent ends by itself, or because its context is cancelled, or        *)
(* because its parent died (--die-with-parent).                             *)
CageEnds(p) == /\ proc[p].cage /\ Set(p, [proc[p] EXCEPT !.cage = FALSE])
               /\ UNCHANGED <<lock, file>>

(* run: Wait, then teardown; the proxy's socket goes before its lock.       *)
\* Mutant: a cancelled process does not wait for its cage.
CageWaitedNot(p) == proc[p].cancelled \/ ~proc[p].cage
CageWaited(p) == ~proc[p].cage
closeProxy(p) == /\ Alive(p) /\ proc[p].tear = "up" /\ CageWaited(p)
                 /\ Set(p, [proc[p] EXCEPT !.tear = "closed"])
                 /\ file' = Unlinked(p, "egress") /\ UNCHANGED lock
unlockProxy(p) == /\ Alive(p) /\ proc[p].tear = "closed"
                  /\ Set(p, [proc[p] EXCEPT !.tear = "done"])
                  /\ lock' = Unlocked(p, "run") /\ UNCHANGED file
(* A start that failed after the proxy was up, or half way up.              *)
unproxy(p) == /\ At(p, "unproxy") /\ Goto(p, "closeLog")
              /\ file' = IF file["egress"] = p THEN Unlinked(p, "egress") ELSE file
              /\ lock' = Unlocked(p, "run")

----------------------------------------------------------------------------
(* Serving on the Unix socket, and the end.                                 *)

lockSock(p) ==
    /\ At(p, "sockLock")
    /\ \/ TryLock(p, "sock") /\ lock' = Locked(p, "sock") /\ Goto(p, "listen")
       \/ ~TryLock(p, "sock") /\ UNCHANGED lock /\ Goto(p, "cancel")
    /\ UNCHANGED file
Listen(p) ==
    /\ At(p, "listen")
    /\ \/ file' = Made(p, proc[p].kind) /\ Goto(p, "serving")
       \/ UNCHANGED file /\ Goto(p, "unlock")
    /\ UNCHANGED lock
(* Shutdown closes the listener, or Accept failed; the socket is removed,   *)
(* and only then the lock is given up.                                      *)
\* Mutant: the lock is given up before the socket is removed.
ClosingUnlocked == <<"unlock", "unlink", "cancel">>
Closing == <<"unlink", "unlock", "cancel">>
After(pc) == LET i == CHOOSE i \in 1..2 : Closing[i] = pc IN Closing[i + 1]
Shutdown(p) == /\ At(p, "serving")
               /\ file' = Unlinked(p, proc[p].kind) /\ Goto(p, Closing[1])
               /\ UNCHANGED lock
unlink(p) == /\ At(p, "unlink") /\ file' = Unlinked(p, proc[p].kind)
             /\ Goto(p, After("unlink")) /\ UNCHANGED lock
unlock(p) == /\ At(p, "unlock") /\ lock' = Unlocked(p, "sock")
             /\ Goto(p, After("unlock")) /\ UNCHANGED file

(* cancel(); wait(); shutdown.Wait(); closeLog().                           *)
Cancel(p) == /\ At(p, "cancel")
             /\ Set(p, [proc[p] EXCEPT !.pc = "drain", !.cancelled = TRUE])
             /\ UNCHANGED <<lock, file>>
wait(p) == /\ At(p, "drain") /\ proc[p].tear = "done" /\ Goto(p, "closeLog")
           /\ UNCHANGED <<lock, file>>

(* Close(true): remove while the lock is held, then release it.             *)
\* Mutant: the database stays.
closeLogKept(p) == /\ At(p, "closeLog") /\ Goto(p, "unlockLog")
                   /\ UNCHANGED <<lock, file>>
closeLog(p) ==
    /\ At(p, "closeLog")
    /\ IF proc[p].log
       THEN /\ file' = Unlinked(p, "db")
            /\ Set(p, [proc[p] EXCEPT !.pc = "unlockLog", !.log = FALSE])
       ELSE UNCHANGED file /\ Goto(p, "exited")
    /\ UNCHANGED lock
unlockLog(p) == /\ At(p, "unlockLog") /\ Goto(p, "exited")
                /\ lock' = Unlocked(p, "dir") /\ UNCHANGED file

(* SIGINT, SIGTERM, SIGHUP; the agent's own terminal takes SIGINT from run. *)
Signal(p) == /\ Alive(p) /\ ~proc[p].cancelled
             /\ Set(p, [proc[p] EXCEPT !.cancelled = TRUE])
             /\ UNCHANGED <<lock, file>>
Kill(p) == Alive(p) /\ Killed(p)

----------------------------------------------------------------------------

SweepStale(p) == sweepOne(p) \/ sweepLock(p) \/ removeDBFiles(p) \/ endSweep(p)
openChatLog(p) == SweepStale(p) \/ acquireLock(p) \/ create(p)
startCage(p) == startProxy(p) \/ Start(p) \/ unproxy(p)
startOpencodeChatSession(p) == startOpencodeAttempt(p) \/ teardownFirst(p) \/ reap(p)
Opening(p) == startCage(p) \/ startOpencodeChatSession(p)
teardown(p) == closeProxy(p) \/ unlockProxy(p)
Ending(p) == unlink(p) \/ unlock(p) \/ Cancel(p) \/ wait(p) \/ closeLog(p)
                 \/ unlockLog(p)
Steps(p) == openChatLog(p) \/ Opening(p) \/ lockSock(p) \/ Listen(p) \/ Ending(p)
Web(p) == \/ \E r \in Repos : handleChatStart(p, r)
          \/ ensureTermSocket(p) \/ spawned(p) \/ spawnTimeout(p)
Done == (\A p \in Procs : Gone(p)) /\ UNCHANGED vars

Next == \/ \E p \in Procs : Launch(p) \/ Web(p) \/ Steps(p) \/ Shutdown(p)
                                \/ teardown(p) \/ CageEnds(p) \/ Signal(p) \/ Kill(p)
        \/ Done

Spec == Init /\ [][Next]_vars

----------------------------------------------------------------------------
(* Properties.                                                              *)

\* Type correctness of the processes, their locks and their files.
TypeOK ==
    /\ \A p \in Procs :
          /\ proc[p].kind \in Kinds /\ proc[p].agent \in Agents
          /\ proc[p].tear \in {"none", "up", "closed", "done"}
          /\ proc[p].web \in Repos \cup {None}
    /\ \A l \in DOMAIN lock : lock[l] \in Procs \cup {None}
    /\ \A f \in DOMAIN file : file[f] \in Procs \cup {None}

(* While a serve writes its event log, the database it created stays in     *)
(* place, whatever other serves start, sweep, fail or close meanwhile       *)
(* (SweepStale, Open, Close and abort of the event log).                    *)
LogInUse == \A p \in Procs : Alive(p) /\ proc[p].log /\ ~proc[p].own => file["db"] = p

(* A serve that is serving is reachable: the socket at its path is its own; *)
(* and a running cage has its own egress socket to talk to (runServe's and  *)
(* startProxy's order of lock, remove, listen and remove, unlock).          *)
SockServes == \A p \in Procs : Alive(p) /\ ~proc[p].own =>
    /\ At(p, "serving") => file[proc[p].kind] = p
    /\ proc[p].cage /\ proc[p].tear = "up" => file["egress"] = p

(* Two live processes never run a cage on the same session, but for an      *)
(* opencode start that failed and is being reaped, whose proxy is closed    *)
(* before its cage has ended (startProxy's lock on the run directory).      *)
OneCage == \A p, q \in Procs :
    /\ p # q /\ Alive(p) /\ Alive(q) /\ ~proc[p].own /\ ~proc[q].own
    /\ ~At(p, "reap") /\ ~At(q, "reap")
    => ~(proc[p].cage /\ proc[q].cage)

(* A process that ends by itself, in whatever way its start failed or its   *)
(* service ended, leaves neither a database, nor a socket, nor a cage       *)
(* behind (runServe's defers, abort, startCage's error paths).              *)
LeavesNothing == \A p \in Procs : At(p, "exited") =>
    ~proc[p].cage /\ \A f \in DOMAIN file : file[f] # p

=============================================================================
