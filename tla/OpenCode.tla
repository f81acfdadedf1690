------------------------------ MODULE OpenCode ------------------------------
(* The opencode adapter and its transport.  opencode runs as an HTTP server *)
(* in the cage; goronation serve reads its one stream of server-sent        *)
(* events, turns them into the conversation's events, and answers approval  *)
(* requests and forms with HTTP requests that are written one at a time.    *)
(* The server has other sessions and other clients than ours, and settles   *)
(* requests on its own: events in flight and answers in flight cross.       *)
EXTENDS Integers, Sequences, FiniteSets

CONSTANTS Sessions,    \* the session IDs the server may give out
          Perms,       \* the IDs of approval requests
          Forms,       \* the IDs of forms
          MaxPending,  \* maxPending
          MaxSeen,     \* maxSeen
          MaxChildren, \* maxChildren
          MaxFlight,   \* bound: events on their way
          MaxQueued,   \* bound: prompts and interrupts wait for so short a queue
          None

ASSUME OpenCodeAssumption ==
    /\ {MaxPending, MaxSeen, MaxChildren, MaxFlight, MaxQueued} \subseteq Nat
    /\ Perms \cap Forms = {} /\ None \notin Sessions /\ "root" \notin Sessions \cup {None}

VARIABLES parent,  \* server: the parent of each session, "root", or None
          req,     \* server: each request's session, content and fate
          sse,     \* events on their way, oldest first
          phase,   \* the transport's start, the conversation, its end
          created, \* the session POST /api/session returned
          stream,  \* the adapter's Stream
          queue,   \* HTTP requests waiting to be written
          verdict  \* what was published of each request, in order

vars == <<parent, req, sse, phase, created, stream, queue, verdict>>

Reqs == Perms \cup Forms
Root == "root"
Unasked == [sid |-> None, hidden |-> FALSE, fate |-> "none"]

Init == /\ parent = [s \in Sessions |-> None]
        /\ req = [r \in Reqs |-> Unasked]
        /\ sse = <<>> /\ queue = <<>>
        /\ phase = "connect" /\ created = None
        /\ stream = [root |-> None, children |-> {}, pending |-> {},
                     seen |-> [r \in Reqs |-> "never"]]
        /\ verdict = [r \in Reqs |-> <<>>]

----------------------------------------------------------------------------
(* The server.  It is seen through its events, once the stream is open.     *)

Listening == phase \in {"open", "root", "talk"}
Emit(es) == /\ Len(sse) + Len(es) <= MaxFlight
            /\ sse' = IF Listening THEN sse \o es ELSE sse
Event(t, s, r) == [type |-> t, sid |-> s, id |-> r, hidden |-> FALSE]

(* Every session of the tree below s, s included.                           *)
Under(s) == {x \in Sessions : \A T \in SUBSET Sessions :
                s \in T /\ (\A y \in Sessions : parent[y] \in T => y \in T) => x \in T}
Open(r) == req[r].fate = "open"
Settled(rs, fate) == [r \in Reqs |-> IF r \in rs /\ Open(r)
                                     THEN [req[r] EXCEPT !.fate = fate] ELSE req[r]]

Conversing == <<phase, created, stream, queue, verdict>>

(* A subagent's session, or another client's root.                          *)
NewSession(s, p) == /\ parent[s] = None /\ (p \in Sessions => parent[p] # None)
                    /\ parent' = [parent EXCEPT ![s] = p]
                    /\ Emit(<<[Event("created", s, None) EXCEPT !.id = p]>>)
                    /\ UNCHANGED <<req>> /\ UNCHANGED Conversing
Ask(r, s, hidden) == /\ req[r] = Unasked /\ parent[s] # None
                     /\ req' = [req EXCEPT ![r] = [sid |-> s, hidden |-> hidden,
                                                   fate |-> "open"]]
                     /\ Emit(<<[Event("asked", s, r) EXCEPT !.hidden = hidden]>>)
                     /\ UNCHANGED parent /\ UNCHANGED Conversing
(* The event once more, while the request is open.                          *)
AskAgain(r) == /\ Open(r)
               /\ Emit(<<[Event("asked", req[r].sid, r) EXCEPT !.hidden = req[r].hidden]>>)
               /\ UNCHANGED <<parent, req>> /\ UNCHANGED Conversing
OtherAnswers(r) == /\ Open(r) /\ req' = Settled({r}, "gone")
                   /\ Emit(<<Event("replied", req[r].sid, r)>>)
                   /\ UNCHANGED parent /\ UNCHANGED Conversing
(* The end of an execution takes its requests with it, and the end of a     *)
(* root's those of its subagents; a subagent's end is its own event.        *)
Tree(s) == IF parent[s] = Root THEN Under(s) ELSE {s}
Ends(s) == /\ parent[s] # None /\ req' = Settled({r \in Reqs : req[r].sid \in Tree(s)}, "gone")
           /\ Emit(<<Event("ended", s, None)>>)
ExecutionEnds(s) == Ends(s) /\ UNCHANGED parent /\ UNCHANGED Conversing

Server == \/ \E s \in Sessions : \/ \E p \in Sessions \cup {Root} : NewSession(s, p)
                                 \/ \E r \in Reqs, h \in BOOLEAN :
                                        (h => r \in Perms) /\ Ask(r, s, h)
                                 \/ ExecutionEnds(s)
          \/ \E r \in Reqs : AskAgain(r) \/ OtherAnswers(r)

----------------------------------------------------------------------------
(* The start: ready line, event stream, then the session, then its event.   *)
(* Each of them may fail or time out instead (Over).                        *)

Serving == <<parent, req>>
readReadyLine == /\ phase = "connect" /\ phase' = "ready"
                 /\ UNCHANGED Serving
                 /\ UNCHANGED <<sse, created, stream, queue, verdict>>
openEventStream == /\ phase = "ready" /\ phase' = "open"
                   /\ UNCHANGED Serving
                   /\ UNCHANGED <<sse, created, stream, queue, verdict>>
createSession ==
    /\ phase = "open" /\ phase' = "root"
    /\ \E s \in Sessions : /\ parent[s] = None /\ created' = s
                           /\ parent' = [parent EXCEPT ![s] = Root]
                           /\ Emit(<<[Event("created", s, None) EXCEPT !.id = Root]>>)
    /\ UNCHANGED <<req, stream, queue, verdict>>

(* A timeout of the start, the end of the event stream, the manual stop:    *)
(* what was on its way is lost.                                             *)
Over == /\ phase # "over" /\ phase' = "over" /\ sse' = <<>> /\ queue' = <<>>
        /\ UNCHANGED Serving
        /\ UNCHANGED <<created, stream, verdict>>

----------------------------------------------------------------------------
(* The Stream.  Each handler gives the new Stream and the requests that it  *)
(* publishes as resolved, all of them by the agent.                         *)

(* An event of a session is shown, and its requests held, if this holds.    *)
scope(s) == s = stream.root \/ s \in {c.sid : c \in stream.children}
Nothing == [stream |-> stream, resolved |-> {}]

(* A root once; a child of what is known, once, within the limit.           *)
sessionCreated(e) ==
    IF e.id = Root
    THEN IF stream.root = None
         THEN [Nothing EXCEPT !.stream.root = e.sid]
         ELSE Nothing
    ELSE IF scope(e.id) /\ ~scope(e.sid) /\ Cardinality(stream.children) < MaxChildren
         THEN [Nothing EXCEPT !.stream.children = @ \cup {[sid |-> e.sid, parent |-> e.id]}]
         ELSE Nothing

held == {p.id : p \in stream.pending}
Held(r) == CHOOSE p \in stream.pending : p.id = r
Without(rs) == {p \in stream.pending : p.id \notin rs}
Seen(rs, how) == [r \in Reqs |-> IF r \in rs THEN how ELSE stream.seen[r]]

(* An ID is a request once, whatever became of it; beyond the limits it is  *)
(* reported and not held.                                                   *)
fresh(r) == stream.seen[r] = "never"
room == /\ Cardinality(stream.pending) < MaxPending
        /\ Cardinality({r \in Reqs : stream.seen[r] # "never"}) < MaxSeen
holds(e, p) == IF scope(e.sid) /\ fresh(e.id) /\ room
               THEN [Nothing EXCEPT !.stream.pending = @ \cup {p},
                                    !.stream.seen = Seen({e.id}, "requested")]
               ELSE Nothing

(* A field of the event, or of its metadata, that the details do not show.  *)
hiddenTopLevel(e) == e.hidden
buildPermission(e) == [id |-> e.id, sid |-> e.sid, truncated |-> hiddenTopLevel(e)]
permissionAsked(e) == holds(e, buildPermission(e))
buildForm(e) == [id |-> e.id, sid |-> e.sid, truncated |-> FALSE]
formCreated(e) == holds(e, buildForm(e))

(* Settled outside: published if we still held it, silent if it is the echo *)
(* of our own answer.                                                       *)
repliedAs(e, by) ==
    IF e.id \in held /\ Held(e.id).sid = e.sid
    THEN [Nothing EXCEPT !.stream.pending = Without({e.id}),
                         !.stream.seen = Seen({e.id}, by),
                         !.resolved = {e.id}]
    ELSE Nothing
\* Mutant: the echo of our own answer counts as well.
repliedEchoed(e) == IF e.id \in held THEN repliedAs(e, "agent")
                    ELSE [Nothing EXCEPT !.resolved = {e.id}]
replied(e) == repliedAs(e, "agent")

(* What the ended session can no longer be told is closed: everything at    *)
(* the end of the root, else only its own.                                  *)
\* Mutant: the end of the root closes only its own requests.
ClosedOwn(s) == {p.id : p \in {x \in stream.pending : x.sid = s}}
Closed(s) == {p.id : p \in {x \in stream.pending : s \in {stream.root, x.sid}}}
closePending(s) == [Nothing EXCEPT !.stream.pending = Without(Closed(s)),
                                   !.stream.seen = Seen(Closed(s), "agent"),
                                   !.resolved = Closed(s)]
executionEnded(e) == IF scope(e.sid) THEN closePending(e.sid) ELSE Nothing

DecodeFrame(e) == CASE e.type = "created" -> sessionCreated(e)
                    [] e.type = "asked"   -> IF e.id \in Perms THEN permissionAsked(e)
                                                               ELSE formCreated(e)
                    [] e.type = "replied" -> replied(e)
                    [] e.type = "ended"   -> executionEnded(e)

Published(rs) == [r \in Reqs |-> IF r \in rs THEN Append(verdict[r], "agent") ELSE verdict[r]]
Decode(e) == LET d == DecodeFrame(e)
             IN  stream' = d.stream /\ verdict' = Published(d.resolved)

(* Before the root nothing is passed on; a root that is not ours ends it.   *)
isRoot(e) == e.type = "created" /\ e.id = Root
isOurs(e) == e.sid = created
ReadSSE ==
    /\ phase \in {"root", "talk"} /\ sse # <<>> /\ sse' = Tail(sse)
    /\ LET e == Head(sse) IN
         \/ phase = "talk" /\ Decode(e) /\ UNCHANGED phase
         \/ phase = "root" /\ isRoot(e) /\ isOurs(e) /\ Decode(e) /\ phase' = "talk"
         \/ /\ phase = "root" /\ isRoot(e) /\ ~isOurs(e) /\ phase' = "over"
            /\ UNCHANGED <<stream, verdict>>
         \/ /\ phase = "root" /\ ~isRoot(e)
            /\ UNCHANGED <<phase, stream, verdict>>
    /\ UNCHANGED <<created, queue>> /\ UNCHANGED Serving
(* An event too long for a line is dropped, and only a request can be that  *)
(* long; a request that is not well-formed is reported and not held either. *)
SkipLine == /\ phase \in {"root", "talk"} /\ sse # <<>> /\ Head(sse).type = "asked"
            /\ sse' = Tail(sse)
            /\ UNCHANGED <<phase, created, stream, queue, verdict>>
            /\ UNCHANGED Serving

----------------------------------------------------------------------------
(* Commands of the page, at any time and for any request.                   *)

Answer(r, outcome) ==
    /\ queue' = Append(queue, [op |-> "reply", sid |-> Held(r).sid, id |-> r,
                               outcome |-> outcome])
    /\ stream' = [stream EXCEPT !.pending = Without({r}), !.seen = Seen({r}, "us")]
    /\ verdict' = [verdict EXCEPT ![r] = Append(@, outcome)]
    /\ UNCHANGED <<sse, phase, created>> /\ UNCHANGED Serving

\* Mutant: a request with a hidden part can be allowed.
PermittedHidden(r, outcome) == r \in held
Permitted(r, outcome) == r \in held /\ (outcome = "allow" => ~Held(r).truncated)
encodePermissionResolve(r, outcome) ==
    phase = "talk" /\ r \in Perms /\ Permitted(r, outcome) /\ Answer(r, outcome)
encodeFormResolve(r, outcome) ==
    phase = "talk" /\ r \in Forms /\ r \in held /\ Answer(r, outcome)
Command(op) == /\ phase = "talk" /\ Len(queue) < MaxQueued
               /\ queue' = Append(queue, [op |-> op, sid |-> stream.root,
                                          id |-> None, outcome |-> None])
               /\ UNCHANGED <<sse, phase, created, stream, verdict>>
               /\ UNCHANGED Serving
encodePrompt == Command("prompt")
encodeCancel == Command("interrupt")

(* One request at a time.  The server takes an answer to an open request    *)
(* under its own session; anything but success ends the conversation (and   *)
(* so does an answer that is not heard of in time: Over).                   *)
Takes(q) == q.op = "reply" => Open(q.id) /\ req[q.id].sid = q.sid
Apply(q) == CASE q.op = "prompt" -> UNCHANGED <<req, sse>>
              [] q.op = "interrupt" -> Ends(q.sid)
              [] q.op = "reply" ->
                 /\ req' = Settled({q.id}, q.outcome)
                 /\ Emit(<<Event("replied", q.sid, q.id)>>)
(* The line is parsed once more before it is sent.                          *)
allowedRoute(q) == /\ q.sid \in Sessions
                   /\ q.op \in {"prompt", "interrupt", "reply"}
                   /\ q.op = "reply" => q.id \in Reqs
ParseHTTPRequest(q) == allowedRoute(q)

\* Mutant: the conversation goes on after an answer that was not taken.
RefusedIgnored == phase
Refused == "over"
Write ==
    /\ phase = "talk" /\ queue # <<>> /\ queue' = Tail(queue)
    /\ LET q == Head(queue) IN
         \/ ParseHTTPRequest(q) /\ Takes(q) /\ Apply(q) /\ UNCHANGED phase
         \/ /\ ~(ParseHTTPRequest(q) /\ Takes(q))
            /\ phase' = Refused /\ UNCHANGED <<req, sse>>
    /\ UNCHANGED <<parent, created, stream, verdict>>

Human == \/ \E r \in Reqs : \/ \E o \in {"allow", "reject"} : encodePermissionResolve(r, o)
                            \/ \E o \in {"answer", "cancel"} : encodeFormResolve(r, o)
         \/ encodePrompt \/ encodeCancel
Transport == readReadyLine \/ openEventStream \/ createSession \/ ReadSSE \/ SkipLine
                 \/ Write \/ Over
(* The server is up when the ready line has come.                           *)
Next == \/ phase \notin {"connect", "over"} /\ Server
        \/ Human \/ Transport
        \/ phase = "over" /\ UNCHANGED vars
Spec == Init /\ [][Next]_vars

----------------------------------------------------------------------------
(* Properties.                                                              *)

\* Type correctness of the server, the transport and the Stream.
TypeOK == /\ \A s \in Sessions : parent[s] \in Sessions \cup {Root, None}
          /\ created \in Sessions \cup {None} /\ Len(sse) <= MaxFlight
          /\ phase \in {"connect", "ready", "open", "root", "talk", "over"}
          /\ Cardinality(stream.pending) <= MaxPending

(* A request is settled at most once on the page, whichever of the human's  *)
(* answer, its echo, another client's answer, the end of the execution and  *)
(* a repeated request come in whichever order (permissionReplied,           *)
(* formSettledBySSE, closePending, the Stream's seen).                      *)
SettledOnce == \A r \in Reqs : Len(verdict[r]) <= 1

(* What the page shows as the human's verdict is what the server was told,  *)
(* or is on its way to it, or the conversation is over: it never goes on    *)
(* after an answer the server did not take (httpWriter, QueuedWriter).      *)
VerdictTrue == phase = "talk" => \A r \in Reqs :
    \A i \in 1..Len(verdict[r]) : verdict[r][i] # "agent" =>
        \/ req[r].fate = verdict[r][i]
        \/ \E j \in 1..Len(queue) : queue[j].id = r /\ queue[j].outcome = verdict[r][i]

(* Nothing with a part that was not shown is ever allowed at the server in  *)
(* the human's name (buildPermission, hiddenTopLevel, the truncated check   *)
(* of encodePermissionResolve).                                             *)
ShownOnly == \A r \in Perms : req[r].fate = "allow" => ~req[r].hidden

(* When no event is on its way, the page offers no request that the server  *)
(* no longer waits for (executionEnded, permissionReplied, formReplied).    *)
NoGhosts == phase = "talk" /\ sse = <<>>
                => \A r \in held : Open(r) /\ Held(r).sid = req[r].sid

=============================================================================
