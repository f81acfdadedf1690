-------------------------------- MODULE Cage ---------------------------------
(* PID 1 of an opencode cage: goronation init --relay-control                *)
(* (src/cmd/goronation/init.go, init_relay_linux.go, relay_control_linux.go  *)
(* and relay_http.go).  The host hands it one socket for every HTTP request, *)
(* and it relays the request, with the token of this launch, to the port on  *)
(* which the child is expected to listen.  The child and the other processes *)
(* of the cage may die and bind ports whenever they like; the kernel         *)
(* releases the sockets of a dying process before its pidfd tells.           *)
EXTENDS Integers, FiniteSets

CONSTANTS Reqs,         \* requests of the host, each on a socketpair of its own
          MaxInflight,  \* relayMaxInflight
          MaxShort,     \* relayMaxShort
          MaxStreams,   \* relayMaxStreams
          MaxOthers,    \* bound of the model: sockets the other processes bind
          None

ASSUME CageAssumption ==
    /\ {MaxInflight, MaxShort, MaxStreams, MaxOthers} \subseteq Nat \ {0}
    /\ None \notin Nat

VARIABLES pid1,    \* where runInit stands
          out,     \* the status line it has written to its stdout
          child,   \* the child: none, up, bound, proved, released, zombie, reaped
          share,   \* the child listens with SO_REUSEPORT
          lsn,     \* the sockets that listen on 127.0.0.1:port
          others,  \* how many sockets other processes have bound there so far
          ino,     \* relayRun.listenIno: the socket that was proved
          ctl,     \* the control socket: open, gone (closed by the host), closed
          quit,    \* requestRelay.quit
          stopper, \* the goroutine of started: no, termed, killed
          pc,      \* pc[r]: where the handler of r stands
          kind,    \* kind[r]: short or sse, once parsed
          peer,    \* peer[r]: the listener that took the connection of r
          told     \* told[r]: the head, and the token in it, was written

vars == <<pid1, out, child, share, lsn, others, ino, ctl, quit, stopper, pc, kind, peer, told>>
proc == <<child, share, lsn, others>>
reqs == <<pc, kind, peer, told>>
init == <<pid1, out, ino, stopper>>

\* Sockets by number: the child's, then those of the others, each a new one.
ChildSock == 0

Init ==
    /\ pid1 = "boot" /\ out = "nothing"
    /\ child = "none" /\ share \in BOOLEAN /\ lsn = {} /\ others = 0
    /\ ino = None /\ ctl = "open" /\ quit = FALSE /\ stopper = "no"
    /\ pc = [r \in Reqs |-> "idle"]
    /\ kind = [r \in Reqs |-> None]
    /\ peer = [r \in Reqs |-> None]
    /\ told = [r \in Reqs |-> FALSE]

-----------------------------------------------------------------------------
(* The child and the rest of the cage (external).                            *)

Running == child \in {"up", "bound", "proved"}

\* A socket listens next to another one only if both share the port.
ChildBinds ==
    /\ child = "up"
    /\ lsn = {} \/ share
    /\ child' = "bound" /\ lsn' = lsn \cup {ChildSock}
    /\ UNCHANGED <<init, share, others, ctl, quit, reqs>>

\* {"url":...} on its stdout, after the bind.
ChildProves ==
    /\ child = "bound"
    /\ child' = "proved"
    /\ UNCHANGED <<init, share, lsn, others, ctl, quit, reqs>>

\* exit_files; exit_notify comes later.
ChildExits ==
    /\ Running
    /\ child' = "released" /\ lsn' = lsn \ {ChildSock}
    /\ UNCHANGED <<init, share, others, ctl, quit, reqs>>

ExitNotify ==
    /\ child = "released"
    /\ child' = "zombie"
    /\ UNCHANGED <<init, share, lsn, others, ctl, quit, reqs>>

OtherBinds ==
    /\ pid1 # "gone" /\ lsn \subseteq {ChildSock} /\ others < MaxOthers
    /\ ChildSock \in lsn => share
    /\ others' = others + 1
    /\ lsn' = lsn \cup {others'}
    /\ UNCHANGED <<init, child, share, ctl, quit, reqs>>

OtherCloses ==
    /\ lsn \ {ChildSock} # {}
    /\ lsn' = lsn \cap {ChildSock}
    /\ UNCHANGED <<init, child, share, others, ctl, quit, reqs>>

-----------------------------------------------------------------------------
(* runInit.                                                                  *)

\* One line on stdout, which the host reads.
reportStartup == out' = "error"
reportReady   == out' = "ready"

\* bail: PID 1 ends, and with it the cage and every socket of it.
bail ==
    /\ reportStartup /\ pid1' = "gone"
    /\ ctl' = "closed" /\ lsn' = {}
    /\ pc' = [r \in Reqs |-> "over"]
    /\ UNCHANGED <<share, others, ino, quit, stopper, kind, peer, told>>

\* Before the child runs: dumpable and the listener of the proxy, the version
\* of the child, the control socket and the pipes.  Every step may fail.
Boot(from, to) ==
    /\ pid1 = from
    /\ \/ bail /\ UNCHANGED child
       \/ pid1' = to /\ UNCHANGED <<out, ino, stopper, proc, ctl, quit, reqs>>
listenProxy == Boot("boot", "version")
checkChildVersion == Boot("version", "control")
prepareRelay == Boot("control", "start")
ChildStarts ==
    /\ pid1 = "start"
    /\ \/ bail /\ UNCHANGED child
       \/ /\ pid1' = "line" /\ child' = "up"
          /\ UNCHANGED <<out, ino, stopper, share, lsn, others, ctl, quit, reqs>>

\* prove has failed: SIGKILL, waitChild, bail.
ProveFails ==
    /\ pid1 \in {"line", "share", "inode"}
    /\ child' = "reaped"
    /\ bail

\* Mutant: prove waits for the line as long as the child runs.
ProofOverdueNever == ~Running

\* relayProofTimeout, or the stdout of the child ends, or the line is wrong.
ProofOverdue == TRUE

NoProof ==
    /\ pid1 = "line" /\ child # "proved" /\ ProofOverdue
    /\ ProveFails

ReadProof ==
    /\ pid1 = "line" /\ child = "proved"
    /\ pid1' = "share"
    /\ UNCHANGED <<out, ino, stopper, proc, ctl, quit, reqs>>

\* Could a socket with SO_REUSEPORT be bound?  On a free port it could, and
\* the proof fails; if only another process listens it depends on that one.
portSharable == lsn = {} \/ (ChildSock \in lsn /\ share)

CheckShared ==
    /\ pid1 = "share"
    /\ \/ portSharable /\ ProveFails
       \/ /\ ~portSharable
          /\ pid1' = "inode"
          /\ UNCHANGED <<out, ino, stopper, proc, ctl, quit, reqs>>
       \/ ChildSock \notin lsn /\ ProveFails

\* /proc/net/tcp: the one socket that listens there, or an error.
listenerInode == IF Cardinality(lsn) = 1 THEN CHOOSE s \in lsn : TRUE ELSE None

\* The proof is complete: the control socket is read from now on.
started ==
    /\ pid1 = "inode"
    /\ IF listenerInode = None THEN ProveFails
       ELSE /\ pid1' = "serving" /\ reportReady
            /\ ino' = listenerInode
            /\ UNCHANGED <<stopper, proc, ctl, quit, reqs>>

\* waitChild returns: relay.stop, then PID 1 ends with the child's code.
waitChild ==
    /\ pid1 = "serving" /\ child = "zombie"
    /\ child' = "reaped"
    /\ quit' = TRUE /\ ctl' = "closed"
    /\ pid1' = "leaving"
    /\ UNCHANGED <<out, share, lsn, others, ino, stopper, reqs>>

\* runInit returns, the kernel ends what is left of the cage.
Leave ==
    /\ pid1 = "leaving"
    /\ pid1' = "gone" /\ lsn' = {}
    /\ pc' = [r \in Reqs |-> "over"]
    /\ UNCHANGED <<out, child, share, others, ino, ctl, quit, stopper, kind, peer, told>>

-----------------------------------------------------------------------------
(* The control socket.                                                       *)

\* relayClient.Dial: one byte and one end of a new socketpair.
Dial(r) ==
    /\ pc[r] = "idle" /\ ctl = "open"
    /\ pc' = [pc EXCEPT ![r] = "sent"]
    /\ UNCHANGED <<init, proc, ctl, quit, kind, peer, told>>

HostCloses ==
    /\ ctl = "open" /\ pid1 # "gone"
    /\ ctl' = "gone"
    /\ UNCHANGED <<init, proc, quit, reqs>>

Handled == {"slot", "quit", "dial", "alive", "inode", "write", "copy", "leave"}
all     == Cardinality({r \in Reqs : pc[r] \in Handled})
Slotted == {"quit", "dial", "alive", "inode", "write", "copy"}
held(k) == Cardinality({r \in Reqs : pc[r] \in Slotted /\ kind[r] = k})

\* Read until the socket ends; a message that is not one byte with one stream
\* socket is dropped, and the host sends none.
serveControl == pid1 = "serving" /\ ctl # "closed"

accept(r) ==
    /\ serveControl /\ pc[r] = "sent"
    /\ pc' = [pc EXCEPT ![r] = IF quit \/ all >= MaxInflight THEN "over" ELSE "slot"]
    /\ UNCHANGED <<init, proc, ctl, quit, kind, peer, told>>

\* The control socket has ended: onGone sends SIGTERM, which the child may
\* ignore.
onGone ==
    /\ pid1 = "serving" /\ ctl = "gone" /\ stopper = "no"
    /\ \A r \in Reqs : pc[r] # "sent"
    /\ stopper' = "termed"
    /\ UNCHANGED <<pid1, out, ino, proc, ctl, quit, reqs>>

\* Mutant: SIGTERM is all.
KillNever == FALSE

\* relayKillGrace is over and the child has not been reaped.
KillDue == stopper = "termed"

signalKill ==
    /\ pid1 = "serving" /\ KillDue
    /\ stopper' = "killed"
    /\ IF Running THEN child' = "released" /\ lsn' = lsn \ {ChildSock}
       ELSE UNCHANGED <<child, lsn>>
    /\ UNCHANGED <<pid1, out, share, others, ino, ctl, quit, reqs>>

-----------------------------------------------------------------------------
(* requestRelay.handle.                                                      *)

Alive(r) == pid1 # "gone" /\ UNCHANGED <<init, proc, ctl, quit>>

Goto(r, l) == pc' = [pc EXCEPT ![r] = l]

limit(k) == IF k = "sse" THEN MaxStreams ELSE MaxShort

\* What the request line and the headers make of a request: one of the two
\* kinds, or nothing that is relayed, which gets its status.
Heads == {"short", "sse", "refused"}
readHead(h) == h # "refused"

\* parseRequest and the slot of its kind.
parseRequest(r) ==
    /\ pc[r] = "slot" /\ Alive(r)
    /\ \E h \in Heads :
          IF readHead(h)
          THEN /\ kind' = [kind EXCEPT ![r] = h]
               /\ Goto(r, IF held(h) < limit(h) THEN "quit" ELSE "leave")
          ELSE Goto(r, "leave") /\ UNCHANGED kind
    /\ UNCHANGED <<peer, told>>

CheckQuit(r) ==
    /\ pc[r] = "quit" /\ Alive(r)
    /\ Goto(r, IF quit THEN "leave" ELSE "dial")
    /\ UNCHANGED <<kind, peer, told>>

\* Whoever listens at this moment takes the connection.
DialUpstream(r) ==
    /\ pc[r] = "dial" /\ Alive(r)
    /\ \/ Goto(r, "leave") /\ UNCHANGED peer
       \/ \E s \in lsn : peer' = [peer EXCEPT ![r] = s] /\ Goto(r, "alive")
    /\ UNCHANGED <<kind, told>>

\* pidfdAlive: the pidfd is not readable yet.
childAlive(r) ==
    /\ pc[r] = "alive" /\ Alive(r)
    /\ Goto(r, IF child \in {"zombie", "reaped"} THEN "leave" ELSE "inode")
    /\ UNCHANGED <<kind, peer, told>>

\* Mutant: the pidfd alone is asked.
SameListenerByPidfd == TRUE

\* The listener is the one of the proof.
SameListener == listenerInode = ino

upstreamValid(r) ==
    /\ pc[r] = "inode" /\ Alive(r)
    /\ Goto(r, IF SameListener THEN "write" ELSE "leave")
    /\ UNCHANGED <<kind, peer, told>>

\* The head, with Authorization; then exactly the announced body.
WriteHead(r) ==
    /\ pc[r] = "write" /\ Alive(r)
    /\ \/ Goto(r, "leave")
       \/ Goto(r, "copy")
    /\ told' = [told EXCEPT ![r] = TRUE]
    /\ UNCHANGED <<kind, peer>>

\* The host has closed, the upstream has closed, or one of them is idle.
EndCopy(r) ==
    /\ pc[r] = "copy" /\ Alive(r)
    /\ Goto(r, "leave")
    /\ UNCHANGED <<kind, peer, told>>

\* The deferred calls: the slots are free again.
Release(r) ==
    /\ pc[r] = "leave" /\ Alive(r)
    /\ Goto(r, "over")
    /\ UNCHANGED <<kind, peer, told>>

handle(r) ==
    \/ parseRequest(r) \/ CheckQuit(r) \/ DialUpstream(r) \/ childAlive(r)
    \/ upstreamValid(r) \/ WriteHead(r) \/ EndCopy(r) \/ Release(r)

-----------------------------------------------------------------------------

Boots == listenProxy \/ checkChildVersion \/ prepareRelay \/ ChildStarts
runInit == Boots \/ NoProof \/ ReadProof \/ CheckShared \/ started \/ waitChild \/ Leave

Processes == ChildBinds \/ ChildProves \/ ChildExits \/ OtherBinds \/ OtherCloses

\* The end of the cage is the end of the model.
Ended == pid1 = "gone" /\ UNCHANGED vars

Next ==
    \/ runInit \/ Processes \/ ExitNotify \/ HostCloses \/ onGone \/ signalKill
    \/ \E r \in Reqs : Dial(r) \/ accept(r) \/ handle(r)
    \/ Ended

\* The goroutines of PID 1 run, its timers expire, and a process that has
\* begun to exit ends.  The child and the host owe nothing.
Fairness ==
    /\ WF_vars(runInit) /\ WF_vars(ExitNotify)
    /\ WF_vars(onGone) /\ WF_vars(signalKill)
    /\ \A r \in Reqs : WF_vars(accept(r))

Spec == Init /\ [][Next]_vars /\ Fairness

-----------------------------------------------------------------------------

\* Type correctness of PID 1, its child, the sockets and the handlers.
TypeOK ==
    /\ pid1 \in {"boot", "version", "control", "start", "line", "share", "inode", "serving", "leaving", "gone"}
    /\ out \in {"nothing", "ready", "error"}
    /\ child \in {"none", "up", "bound", "proved", "released", "zombie", "reaped"}
    /\ share \in BOOLEAN /\ quit \in BOOLEAN
    /\ others \in 0..MaxOthers /\ lsn \in SUBSET (0..MaxOthers) /\ ino \in 0..MaxOthers \cup {None}
    /\ ctl \in {"open", "gone", "closed"} /\ stopper \in {"no", "termed", "killed"}
    /\ pc \in [Reqs -> Handled \cup {"idle", "sent", "over"}]
    /\ kind \in [Reqs -> {None, "short", "sse"}]
    /\ peer \in [Reqs -> 0..MaxOthers \cup {None}] /\ told \in [Reqs -> BOOLEAN]

\* The token of the launch goes only over a connection that the proved socket
\* has accepted, although the dial, the look at the pidfd, the look at the
\* listener and the write are four steps, and the port may change hands
\* between any two of them.
TokenToProved == \A r \in Reqs : told[r] => peer[r] = ino

\* init says ready or error in bounded time: the host, which waits for the line,
\* is never left without an answer.
StartReported == pid1 = "boot" ~> out # "nothing"

\* Once the host has closed the control socket of a started cage, the cage
\* ends, even if the child ignores SIGTERM.
HostGoneEnds == (ctl = "gone" /\ pid1 = "serving") ~> pid1 = "gone"
==============================================================================
