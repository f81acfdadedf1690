------------------------------- MODULE Egress -------------------------------
(* The egress proxy of one goronation run (src/egress, cmd/goronation/       *)
(* proxy.go): the accept loop, one goroutine per connection, the slots they  *)
(* share, the audit log between them and the disk, and hostProxy.Close that  *)
(* stops all of it.  Bytes are left out; a connection is what it asks for.   *)
EXTENDS Integers, FiniteSets

CONSTANTS Conns,      \* the connections that may come in
          MaxConns,   \* Config.MaxConns is 1..MaxConns
          auditQueue, \* capacity of auditLog.ch
          NoAddr      \* no upstream connection

ASSUME EgressAssumption ==
    /\ IsFiniteSet(Conns)
    /\ MaxConns \in Nat \ {0} /\ auditQueue \in Nat \ {0}
    /\ NoAddr \notin {"public", "private"}

VARIABLES both,      \* ServeBoth (git and pull requests too) or Serve (CONNECT only)
          cap,       \* cap(Server.sem), Config.MaxConns
          at,        \* at[c]: where the goroutine of c stands
          ask,       \* ask[c]: what the client sends
          up,        \* up[c]: the address of its open upstream connection
          line,      \* line[c]: what became of its line of the audit
          body,      \* body[c]: how far the handler is with its r.Body
          passed,    \* passed[c]: the deadlines of its stallBody that have passed
          slots,     \* len(Server.sem)
          conns,     \* Server.conns
          wg,        \* Server.wg
          closed,    \* Server.closed
          cancelled, \* Server.ctx is done
          listening, \* the listener accepts
          closer,    \* where hostProxy.Close stands
          auditClosed, \* auditLog.closed
          dropped    \* auditLog.dropped

conn  == <<at, ask, up, line, body, passed>>
server == <<slots, conns, wg, closed, cancelled>>
host  == <<both, cap, listening, closer, auditClosed, dropped>>
proxyVars == <<conn, server, host>>

\* A CONNECT to an allowed target, one that readRequest or the table of allowed
\* targets turns down, a request with a prefix of the gateway, and the rest.
Asks == {"allowed", "denied", "git", "plain"}
Addrs == {"public", "private"}

\* startProxy: the listener is up, nobody has connected.
ProxyInit ==
    /\ both \in BOOLEAN /\ cap \in 1..MaxConns
    /\ at = [c \in Conns |-> "out"]
    /\ ask = [c \in Conns |-> "plain"]
    /\ up = [c \in Conns |-> NoAddr]
    /\ line = [c \in Conns |-> "none"]
    /\ body = [c \in Conns |-> "none"]
    /\ passed = [c \in Conns |-> {}]
    /\ slots = 0 /\ conns = {} /\ wg = 0
    /\ closed = FALSE /\ cancelled = FALSE
    /\ listening = TRUE /\ closer = "idle"
    /\ auditClosed = FALSE /\ dropped = 0

MoveTo(c, l) == at' = [at EXCEPT ![c] = l]

-----------------------------------------------------------------------------
(* The audit log: Write never waits, a goroutine writes to the file.         *)

Queued == {c \in Conns : line[c] = "queued"}

\* auditLog.Write: it reports success whatever becomes of the line.
Write(c) ==
    IF auditClosed
    THEN line' = [line EXCEPT ![c] = "lost"] /\ UNCHANGED dropped
    ELSE IF Cardinality(Queued) < auditQueue
    THEN line' = [line EXCEPT ![c] = "queued"] /\ UNCHANGED dropped
    ELSE line' = [line EXCEPT ![c] = "dropped"] /\ dropped' = dropped + 1

\* auditLog.run: a line is written, or dropped and counted when the budget is
\* used up or the write fails.
WriteLine(c) ==
    /\ line[c] = "queued"
    /\ \/ line' = [line EXCEPT ![c] = "written"] /\ UNCHANGED dropped
       \/ line' = [line EXCEPT ![c] = "dropped"] /\ dropped' = dropped + 1
    /\ UNCHANGED <<at, ask, up, body, passed, server, both, cap, listening, closer, auditClosed>>

-----------------------------------------------------------------------------
(* Accepting a connection.                                                   *)

\* refuse: a line for the audit, the status, and the client is closed.
refuse(c, l) == Write(c) /\ MoveTo(c, l)

accepted(c) ==
    \/ /\ slots < cap
       /\ slots' = slots + 1
       /\ MoveTo(c, "slot")
       /\ UNCHANGED <<line, dropped>>
    \/ /\ slots = cap
       /\ refuse(c, "done")
       /\ UNCHANGED slots

\* The accept loop of Serve handles one connection at a time; ServeBoth starts
\* a goroutine that reads the first line.
Serve(c) == ~both /\ (\A d \in Conns : at[d] # "slot") /\ accepted(c)
ServeBoth(c) == both /\ MoveTo(c, "sniff") /\ UNCHANGED <<slots, line, dropped>>

Accept(c) ==
    /\ at[c] = "out" /\ listening
    /\ \E a \in Asks : ask' = [ask EXCEPT ![c] = a]
    /\ Serve(c) \/ ServeBoth(c)
    /\ UNCHANGED <<up, body, passed, conns, wg, closed, cancelled, both, cap, listening, closer, auditClosed>>

\* dispatch: CONNECT, a git or pull request path, or 400.  The first line may
\* also be too long, late or missing.
dispatch(c) ==
    /\ at[c] = "sniff"
    /\ \/ /\ ask[c] \in {"allowed", "denied"}
          /\ accepted(c)
       \/ /\ ask[c] = "git" /\ slots < cap
          /\ slots' = slots + 1
          /\ MoveTo(c, "head")
          /\ UNCHANGED <<line, dropped>>
       \/ /\ ask[c] = "git" /\ slots = cap
          /\ refuse(c, "done")
          /\ UNCHANGED slots
       \/ /\ MoveTo(c, "done")
          /\ UNCHANGED <<slots, line, dropped>>
    /\ UNCHANGED <<ask, up, body, passed, conns, wg, closed, cancelled, both, cap, listening, closer, auditClosed>>

\* Mutant: Close is not asked about under the lock.
addConnLate(c) ==
    /\ conns' = conns \cup {c}
    /\ wg' = wg + 1
    /\ MoveTo(c, "read")
    /\ UNCHANGED slots

\* The connection is counted in wg under mu, or given up when Close was first.
addConn(c) ==
    \/ /\ ~closed
       /\ conns' = conns \cup {c}
       /\ wg' = wg + 1
       /\ MoveTo(c, "read")
       /\ UNCHANGED slots
    \/ /\ closed
       /\ slots' = slots - 1
       /\ MoveTo(c, "done")
       /\ UNCHANGED <<conns, wg>>

AddConn(c) ==
    /\ at[c] = "slot"
    /\ addConn(c)
    /\ UNCHANGED <<ask, up, line, body, passed, closed, cancelled, host>>

-----------------------------------------------------------------------------
(* handle: one CONNECT.                                                      *)

\* What readRequest and the table of allowed targets make of the request.
Permits(a) == a = "allowed"

\* A well-formed CONNECT to an allowed target is dialled; everything else, a
\* header that is late or a client that went away is refused.
readRequest(c) ==
    /\ at[c] = "read"
    /\ \/ /\ Permits(ask[c])
          /\ MoveTo(c, "dial")
          /\ UNCHANGED <<line, dropped>>
       \/ refuse(c, "leave")
    /\ UNCHANGED <<ask, up, body, passed, server, both, cap, listening, closer, auditClosed>>

\* forbidden: loopback, private, link-local ... addresses.
forbidden(a) == a = "private"

\* dialUpstream: every address is checked when it is dialled; a forbidden one
\* is skipped.
dialUpstream(addrs) == {a \in addrs : ~forbidden(a)}

Dial(c) ==
    /\ at[c] = "dial"
    /\ \/ \E addrs \in SUBSET Addrs : \E a \in dialUpstream(addrs) :
             /\ up' = [up EXCEPT ![c] = a]
             /\ MoveTo(c, "grant")
             /\ UNCHANGED <<line, dropped>>
       \/ /\ ~cancelled
          /\ refuse(c, "leave")
          /\ UNCHANGED up
       \/ /\ cancelled
          /\ MoveTo(c, "leave")
          /\ UNCHANGED <<up, line, dropped>>
    /\ UNCHANGED <<ask, body, passed, server, both, cap, listening, closer, auditClosed>>

\* The line of the audit comes before the 200.
Grant(c) ==
    /\ at[c] = "grant"
    /\ Write(c)
    /\ MoveTo(c, "answer")
    /\ UNCHANGED <<ask, up, body, passed, server, both, cap, listening, closer, auditClosed>>

Answer(c) ==
    /\ at[c] = "answer"
    /\ \/ MoveTo(c, "relay") /\ UNCHANGED up
       \/ MoveTo(c, "leave") /\ up' = [up EXCEPT ![c] = NoAddr]
    /\ UNCHANGED <<ask, line, body, passed, server, host>>

\* relay returns: both directions have ended, an error, the idle timer, or ctx.
EndRelay(c) ==
    /\ at[c] = "relay"
    /\ MoveTo(c, "leave")
    /\ up' = [up EXCEPT ![c] = NoAddr]
    /\ UNCHANGED <<ask, line, body, passed, server, host>>

removeConn(c) ==
    /\ at[c] = "leave"
    /\ conns' = conns \ {c}
    /\ MoveTo(c, "release")
    /\ UNCHANGED <<ask, up, line, body, passed, slots, wg, closed, cancelled, host>>

Release(c) ==
    /\ at[c] = "release"
    /\ slots' = slots - 1
    /\ wg' = wg - 1
    /\ MoveTo(c, "done")
    /\ UNCHANGED <<ask, up, line, body, passed, conns, closed, cancelled, host>>

-----------------------------------------------------------------------------
(* The other HTTP requests, in the http.Server that ServeBoth makes, one per *)
(* connection.  Close neither closes nor awaits them.                        *)

\* The header is read, or late or malformed.  stallGuardBody wraps the body of
\* the request, if it has one, and fixes the absolute deadline of its reading.
ReadHeader(c) ==
    /\ at[c] = "head"
    /\ \/ MoveTo(c, "handler") /\ \E b \in {"unread", "over"} : body' = [body EXCEPT ![c] = b]
       \/ MoveTo(c, "gone") /\ UNCHANGED body
    /\ UNCHANGED <<ask, up, line, passed, server, host>>

\* The handler calls stallBody.Read, which sets a deadline on the connection.
\* It may also never do so, or stop and wait for its upstream: then none is set.
Read(c) ==
    /\ at[c] = "handler" /\ body[c] \in {"unread", "begun"}
    /\ MoveTo(c, "body")
    /\ body' = [body EXCEPT ![c] = "begun"]
    /\ UNCHANGED <<ask, up, line, passed, server, host>>

\* Time: IdleTimeout since this Read began, and the absolute deadline.
Stall(c) ==
    /\ at[c] = "body" /\ "idle" \notin passed[c]
    /\ passed' = [passed EXCEPT ![c] = @ \cup {"idle"}]
    /\ UNCHANGED <<at, ask, up, line, body, server, host>>

Late(c) ==
    /\ at[c] \in {"handler", "body"} /\ body[c] \in {"unread", "begun"} /\ "absolute" \notin passed[c]
    /\ passed' = [passed EXCEPT ![c] = @ \cup {"absolute"}]
    /\ UNCHANGED <<at, ask, up, line, body, server, host>>

\* Mutant: only the idle deadline, which every Read pushes back.
BodyDeadlineIdle(c) == "idle" \in passed[c]

\* The deadline of a Read is the earlier of the two; the absolute one is not
\* moved by what the client sends.  What net/http has buffered is still read
\* after it: such Reads are few, and counted as before the deadline.
BodyDeadline(c) == passed[c] # {}

\* The Read ends before its deadline: with some bytes, or with the end of the
\* body or an error.
ReadReturns(c) ==
    /\ at[c] = "body" /\ ~BodyDeadline(c)
    /\ MoveTo(c, "handler")
    /\ \E b \in {"begun", "over"} : body' = [body EXCEPT ![c] = b]
    /\ UNCHANGED <<ask, up, line, passed, server, host>>

\* The Read fails at its deadline, and the handler reads no more.
ReadTimesOut(c) ==
    /\ at[c] = "body" /\ BodyDeadline(c)
    /\ MoveTo(c, "handler")
    /\ body' = [body EXCEPT ![c] = "over"]
    /\ passed' = [passed EXCEPT ![c] = {}]
    /\ UNCHANGED <<ask, up, line, server, host>>

\* The handler of the gateway answers, with its own line in the audit.  It may
\* not have read the body to its end, or not at all.
EndHandler(c) ==
    /\ at[c] = "handler"
    /\ Write(c)
    /\ MoveTo(c, "finish")
    /\ passed' = [passed EXCEPT ![c] = {}]
    /\ UNCHANGED <<ask, up, body, server, both, cap, listening, closer, auditClosed>>

\* net/http reads some of what is left of the body before it closes.  A Read
\* before has left its deadline on the connection; without one nothing limits
\* this but the client.
finishRequest(c) ==
    /\ at[c] = "finish"
    /\ MoveTo(c, "gone")
    /\ body' = [body EXCEPT ![c] = "none"]
    /\ UNCHANGED <<ask, up, line, passed, server, host>>

\* ConnState: the slot is given back when the connection has really ended.
ConnClosed(c) ==
    /\ at[c] = "gone"
    /\ slots' = slots - 1
    /\ MoveTo(c, "done")
    /\ UNCHANGED <<ask, up, line, body, passed, conns, wg, closed, cancelled, host>>

-----------------------------------------------------------------------------
(* hostProxy.Close: listener, Server.Close, the accept loop, the audit.      *)

CloseListener ==
    /\ closer = "idle"
    /\ listening' = FALSE
    /\ closer' = "mark"
    /\ UNCHANGED <<conn, server, both, cap, auditClosed, dropped>>

MarkClosed ==
    /\ closer = "mark"
    /\ closed' = TRUE
    /\ closer' = "cancel"
    /\ UNCHANGED <<conn, slots, conns, wg, cancelled, both, cap, listening, auditClosed, dropped>>

\* ctx, and then the connections collected under mu: a read or a write of
\* theirs fails now, as it may at any time.
Cancel ==
    /\ closer = "cancel"
    /\ cancelled' = TRUE
    /\ closer' = "wait"
    /\ UNCHANGED <<conn, slots, conns, wg, closed, both, cap, listening, auditClosed, dropped>>

Wait ==
    /\ closer = "wait"
    /\ wg = 0
    /\ both \/ \A c \in Conns : at[c] # "slot"
    /\ closer' = "audit"
    /\ UNCHANGED <<conn, server, both, cap, listening, auditClosed, dropped>>

\* Mutant: the audit is closed first.
AuditBefore == closer \in {"wait", "audit"}

AuditAfter == closer = "audit"

CloseAudit ==
    /\ AuditAfter
    /\ auditClosed' = TRUE
    /\ closer' = IF closer = "audit" THEN "drain" ELSE closer
    /\ UNCHANGED <<conn, server, both, cap, listening, dropped>>

\* Mutant: no time limit on a writer that is stuck.
DrainWaits == Queued = {}

\* The writer is done, or auditCloseWait has passed.
DrainOver == TRUE

Drain ==
    /\ closer = "drain"
    /\ DrainOver
    /\ closer' = "returned"
    /\ UNCHANGED <<conn, server, both, cap, listening, auditClosed, dropped>>

-----------------------------------------------------------------------------
Handle(c) ==
    \/ dispatch(c) \/ AddConn(c) \/ readRequest(c) \/ Dial(c) \/ Grant(c) \/ Answer(c)
    \/ removeConn(c) \/ Release(c)
    \/ ReadHeader(c) \/ ReadTimesOut(c) \/ ConnClosed(c)

Closing == CloseListener \/ MarkClosed \/ Cancel \/ Wait \/ CloseAudit \/ Drain

ProxyNext ==
    \/ \E c \in Conns :
          \/ Accept(c) \/ Handle(c) \/ EndRelay(c)
          \/ Read(c) \/ Stall(c) \/ Late(c) \/ ReadReturns(c) \/ EndHandler(c) \/ finishRequest(c)
          \/ WriteLine(c)
    \/ Closing

\* Goroutines run, time passes, and every deadline they wait under comes; a relay
\* ends when its ctx is done.  Nothing is assumed of clients, of a handler of
\* the gateway (it may read or not, and wait for its upstream for ever), of
\* net/http with a body that nobody has read, or of the disk behind the audit.
Fairness ==
    /\ \A c \in Conns : /\ WF_proxyVars(Handle(c))
                        /\ WF_proxyVars(cancelled /\ EndRelay(c))
                        /\ WF_proxyVars(Stall(c)) /\ WF_proxyVars(Late(c))
                        /\ WF_proxyVars(body[c] # "unread" /\ finishRequest(c))
    /\ WF_proxyVars(MarkClosed \/ Cancel \/ Wait \/ CloseAudit \/ Drain)

ProxySpec == ProxyInit /\ [][ProxyNext]_proxyVars /\ Fairness

-----------------------------------------------------------------------------

\* A tunnel the client has been told of.
Granted(c) == at[c] \in {"answer", "relay"}

(* The line of a granted tunnel is in the queue of the audit, in its file,   *)
(* or counted in what Close reports as dropped: none vanishes in a log that  *)
(* was closed.  What is still queued when auditCloseWait is over is neither  *)
(* written nor counted.                                                      *)
Accounted ==
    /\ \A c \in Conns : Granted(c) => line[c] \in {"queued", "written", "dropped"}
    /\ dropped = Cardinality({c \in Conns : line[c] = "dropped"})

(* When Close has waited, no CONNECT is tracked and no tunnel is open, and   *)
(* none is opened later by a connection that was being accepted.  Requests   *)
(* to the gateway may go on.                                                 *)
ClosedMeansClosed ==
    closer \in {"audit", "drain", "returned"} =>
        conns = {} /\ \A c \in Conns : up[c] = NoAddr

(* Close returns, although clients may send nothing, tunnels may be busy,    *)
(* requests to the gateway may go on and the disk may be stuck.              *)
CloseReturns == closer = "mark" ~> closer = "returned"

(* No body is read for ever: although a client may send a byte whenever the  *)
(* idle deadline is near, and a handler may read as often as it likes, there *)
(* is a last Read, and it returns.  This bounds the reading alone: a handler *)
(* that waits for its upstream, or a body that is not read, keeps its slot.  *)
BodyEnds == \A c \in Conns : <>[](at[c] # "body")

=============================================================================
