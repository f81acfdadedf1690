---------------------------- MODULE Cage_proofs -----------------------------
(***************************************************************************)
(* The token of a launch reaches only the socket that was proved: for any  *)
(* number of requests, any limits, and however often the port changes      *)
(* hands.                                                                  *)
(***************************************************************************)
EXTENDS Cage, FiniteSetTheorems, TLAPS

(* Before the proof is complete there is no proved socket, and a socket is *)
(* proved only when the child has bound its own, which it does once.       *)
Early  == {"boot", "version", "control", "start", "line", "share", "inode"}
Proved == /\ pid1 \in Early => ino = None
          /\ pid1 \in {"boot", "version", "control", "start"} => child = "none"
          /\ pid1 = "serving" => ino # None
          /\ pid1 \in {"share", "inode"} \/ ino # None => child \notin {"none", "up"}

(* Sockets are numbered as they are bound; at most one is another's.       *)
Numbered == /\ lsn \subseteq 0..others
            /\ ChildSock \in lsn => child \in {"bound", "proved"}
            /\ \A s, t \in lsn \ {ChildSock} : s = t

(* The port of a child that does not share it is not shared.               *)
Unshared == pid1 = "inode" => (ChildSock \in lsn => ~share)

(* While the proved socket listens, it listens alone: and once it is gone  *)
(* it does not come back.                                                  *)
Alone == ino # None =>
           /\ ino \in 0..others
           /\ ino \in lsn => lsn = {ino} /\ (ino = ChildSock => ~share)

(* A connection that another socket took tells that the proved one is gone.*)
Taken(r) ==
  /\ pc[r] \in Handled => ino # None
  /\ pc[r] \in {"alive", "inode"} => peer[r] = ino \/ ino \notin lsn
  /\ pc[r] = "write" => peer[r] = ino
  /\ told[r] => /\ pc[r] \in {"copy", "leave", "over"}
                /\ peer[r] = ino /\ ino # None

CInv == TypeOK /\ Proved /\ Numbered /\ Unshared /\ Alone /\ \A r \in Reqs : Taken(r)

-----------------------------------------------------------------------------
(* listenerInode names the one socket that listens, or none.               *)
LEMMA ListenerIsAlone ==
  ASSUME TypeOK, listenerInode # None
  PROVE  lsn = {listenerInode}
<1>1. 0..MaxOthers \in SUBSET Nat /\ IsFiniteSet(0..MaxOthers)
  BY CageAssumption, FS_Interval
<1>2. IsFiniteSet(lsn)
  BY <1>1, FS_Subset DEF TypeOK
<1>3. Cardinality(lsn) = 1
  BY DEF listenerInode
<1>4. PICK x : lsn = {x}
  BY <1>2, <1>3, FS_Singleton
<1> QED
  BY <1>3, <1>4 DEF listenerInode

-----------------------------------------------------------------------------
(* The requests, when the processes and PID 1 stand still.                 *)
LEMMA RequestStep ==
  ASSUME CInv, NEW r \in Reqs, Dial(r) \/ accept(r) \/ handle(r)
  PROVE  CInv'
<1>1. /\ UNCHANGED <<pid1, out, ino, stopper>>
      /\ UNCHANGED <<child, lsn, others>> /\ UNCHANGED share
      /\ UNCHANGED ctl /\ UNCHANGED quit
  BY DEF Dial, accept, handle, parseRequest, CheckQuit, DialUpstream, childAlive,
         upstreamValid, WriteHead, EndCopy, Release, Alive, init, proc
<1>2. Proved' /\ Numbered' /\ Unshared' /\ Alone'
  BY <1>1 DEF CInv, Proved, Numbered, Unshared, Alone
<1>3. TypeOK' /\ \A q \in Reqs : Taken(q)'
  <2>1. CASE Dial(r)
    BY <1>1, <2>1 DEF CInv, TypeOK, Taken, Dial, Handled
  <2>2. CASE accept(r)
    <3>1. ino # None
      BY <2>2 DEF CInv, accept, serveControl, Proved
    <3>2. \E l \in {"slot", "over"} : pc' = [pc EXCEPT ![r] = l]
      BY <2>2 DEF accept
    <3>3. pc[r] = "sent" /\ kind' = kind /\ peer' = peer /\ told' = told
      BY <2>2 DEF accept
    <3> QED
      BY <1>1, <3>1, <3>2, <3>3 DEF CInv, TypeOK, Taken, Handled
  <2>3. CASE parseRequest(r)
    BY <1>1, <2>3 DEF CInv, TypeOK, Taken, parseRequest, Handled, Goto, Heads, readHead
  <2>4. CASE CheckQuit(r)
    BY <1>1, <2>4 DEF CInv, TypeOK, Taken, CheckQuit, Handled, Goto
  <2>5. CASE DialUpstream(r)
    BY <1>1, <2>5 DEF CInv, TypeOK, Taken, DialUpstream, Handled, Goto, Alone
  <2>6. CASE childAlive(r)
    BY <1>1, <2>6 DEF CInv, TypeOK, Taken, childAlive, Handled, Goto
  <2>7. CASE upstreamValid(r)
    <3>1. SameListener /\ ino # None => ino \in lsn
      BY ListenerIsAlone DEF CInv, SameListener
    <3> QED
      BY <1>1, <2>7, <3>1 DEF CInv, TypeOK, Taken, upstreamValid, Handled, Goto
  <2>8. CASE WriteHead(r)
    BY <1>1, <2>8 DEF CInv, TypeOK, Taken, WriteHead, Handled, Goto
  <2>9. CASE EndCopy(r)
    BY <1>1, <2>9 DEF CInv, TypeOK, Taken, EndCopy, Handled, Goto
  <2>10. CASE Release(r)
    BY <1>1, <2>10 DEF CInv, TypeOK, Taken, Release, Handled, Goto
  <2> QED
    BY <2>1, <2>2, <2>3, <2>4, <2>5, <2>6, <2>7, <2>8, <2>9, <2>10 DEF handle
<1> QED
  BY <1>2, <1>3 DEF CInv

(* The child and the other processes of the cage.                          *)
LEMMA ProcessStep ==
  ASSUME CInv, Processes \/ ExitNotify
  PROVE  CInv'
<1>1. /\ UNCHANGED <<pid1, out, ino, stopper>> /\ UNCHANGED share
      /\ UNCHANGED ctl /\ UNCHANGED quit /\ UNCHANGED <<pc, kind, peer, told>>
  BY DEF Processes, ExitNotify, ChildBinds, ChildProves, ChildExits, OtherBinds,
         OtherCloses, init, reqs
<1>2. CASE ChildBinds
  <2>1. ino = None /\ child = "up" /\ child' = "bound" /\ lsn' = lsn \cup {0} /\ others' = others
    BY <1>2 DEF CInv, Proved, ChildBinds, ChildSock
  <2>2. TypeOK'
    BY <1>1, <2>1, CageAssumption DEF CInv, TypeOK
  <2>3. Proved' /\ Numbered' /\ Alone'
    BY <1>1, <2>1 DEF CInv, TypeOK, Proved, Numbered, Alone, ChildSock
  <2>4. Unshared'
    BY <1>1, <2>1 DEF CInv, Proved, Unshared
  <2>5. \A r \in Reqs : Taken(r)'
    BY <1>1, <2>1 DEF CInv, Taken, Handled
  <2> QED
    BY <2>2, <2>3, <2>4, <2>5 DEF CInv
<1>3. CASE ChildProves \/ ExitNotify
  <2>1. /\ \/ child = "bound" /\ child' = "proved"
           \/ child = "released" /\ child' = "zombie"
        /\ UNCHANGED <<lsn, others>>
    BY <1>3 DEF ChildProves, ExitNotify
  <2>2. TypeOK'
    BY <1>1, <2>1 DEF CInv, TypeOK
  <2>3. Proved' /\ Numbered'
    BY <1>1, <2>1 DEF CInv, Proved, Numbered
  <2>4. Unshared' /\ Alone' /\ \A r \in Reqs : Taken(r)'
    BY <1>1, <2>1 DEF CInv, Unshared, Alone, Taken
  <2> QED
    BY <2>2, <2>3, <2>4 DEF CInv
<1>4. CASE ChildExits
  BY <1>1, <1>4
  DEF CInv, TypeOK, Proved, Numbered, Unshared, Alone, Taken, ChildExits, Running, ChildSock
<1>5. CASE OtherBinds
  BY <1>1, <1>5, CageAssumption
  DEF CInv, TypeOK, Proved, Numbered, Unshared, Alone, Taken, OtherBinds, ChildSock
<1>6. CASE OtherCloses
  BY <1>1, <1>6
  DEF CInv, TypeOK, Proved, Numbered, Unshared, Alone, Taken, OtherCloses, ChildSock
<1> QED
  BY <1>2, <1>3, <1>4, <1>5, <1>6 DEF Processes

(* PID 1 gives up: the cage ends, nothing was told.                        *)
LEMMA Bails ==
  ASSUME CInv, bail, pid1 \in Early, child' \in {child, "reaped"}
  PROVE  CInv'
<1>1. /\ pid1' = "gone" /\ out' = "error" /\ lsn' = {} /\ ctl' = "closed"
      /\ pc' = [r \in Reqs |-> "over"]
      /\ UNCHANGED <<others, ino, stopper, kind, peer, told>>
      /\ UNCHANGED share /\ UNCHANGED quit
  BY DEF bail, reportStartup
<1>2. ino = None
  BY DEF CInv, Proved
<1>3. TypeOK'
  BY <1>1 DEF CInv, TypeOK
<1>4. Proved' /\ Numbered' /\ Unshared' /\ Alone'
  BY <1>1, <1>2 DEF Proved, Numbered, Unshared, Alone, Early
<1>5. \A r \in Reqs : Taken(r)'
  BY <1>1, <1>2 DEF CInv, Taken, Handled
<1> QED
  BY <1>3, <1>4, <1>5 DEF CInv

(* A step of PID 1 that leaves the sockets and the requests alone.         *)
LEMMA QuietStep ==
  ASSUME CInv, pid1 \in Early,
         pid1' \in Early, child' \in {child, "up"},
         pid1' \in {"share", "inode"} => child' \notin {"none", "up"},
         pid1' \in {"boot", "version", "control", "start"} => child' = "none",
         child' = "up" => ChildSock \notin lsn,
         pid1' = "inode" => (ChildSock \in lsn => ~share),
         UNCHANGED <<out, ino, stopper, lsn, others, pc, kind, peer, told>>,
         UNCHANGED share, UNCHANGED ctl, UNCHANGED quit
  PROVE  CInv'
<1>1. ino = None /\ ino' = None
  BY DEF CInv, Proved
<1>2. TypeOK'
  BY DEF CInv, TypeOK, Early
<1>3. Proved'
  BY <1>1 DEF Proved, Early
<1>4. Numbered' /\ Unshared' /\ Alone'
  BY <1>1 DEF CInv, Numbered, Unshared, Alone
<1>5. \A r \in Reqs : Taken(r)'
  BY <1>1 DEF CInv, Taken
<1> QED
  BY <1>2, <1>3, <1>4, <1>5 DEF CInv

(* runInit up to the proof.                                                *)
LEMMA BootStep ==
  ASSUME CInv, Boots \/ NoProof \/ ReadProof \/ CheckShared
  PROVE  CInv'
<1>1. pid1 \in Early
  BY DEF Boots, listenProxy, checkChildVersion, prepareRelay, ChildStarts, Boot,
         NoProof, ReadProof, CheckShared, Early
<1>2. CASE bail
  BY <1>1, <1>2, Bails
  DEF Boots, listenProxy, checkChildVersion, prepareRelay, ChildStarts, Boot,
      NoProof, ReadProof, CheckShared, ProveFails, bail, proc
<1>3. CASE Boots /\ ~bail
  <2>1. /\ pid1' \in {"version", "control", "start", "line"}
        /\ child' = IF pid1' = "line" THEN "up" ELSE child
        /\ UNCHANGED <<out, ino, stopper, lsn, others, pc, kind, peer, told>>
        /\ UNCHANGED share /\ UNCHANGED ctl /\ UNCHANGED quit
    BY <1>3 DEF Boots, listenProxy, checkChildVersion, prepareRelay, ChildStarts, Boot, proc, reqs
  <2>2. child = "none"
    BY <1>3 DEF CInv, Proved, Boots, listenProxy, checkChildVersion, prepareRelay, ChildStarts, Boot
  <2>3. child' = "up" => ChildSock \notin lsn
    BY <2>1, <2>2 DEF CInv, Numbered
  <2>4. /\ pid1' \in Early /\ pid1' \notin {"share", "inode"} /\ child' \in {child, "up"}
        /\ pid1' \in {"boot", "version", "control", "start"} => child' = "none"
    BY <2>1, <2>2 DEF Early
  <2> QED
    BY <1>1, <2>1, <2>3, <2>4, QuietStep
<1>4. CASE ReadProof
  <2>1. /\ pid1' = "share" /\ child = "proved" /\ child' = child
        /\ UNCHANGED <<out, ino, stopper, lsn, others, pc, kind, peer, told>>
        /\ UNCHANGED share /\ UNCHANGED ctl /\ UNCHANGED quit
    BY <1>4 DEF ReadProof, proc, reqs
  <2> QED
    BY <1>1, <2>1, QuietStep DEF Early
<1>5. CASE CheckShared /\ ~bail
  <2>1. /\ pid1 = "share" /\ pid1' = "inode" /\ child' = child
        /\ UNCHANGED <<out, ino, stopper, lsn, others, pc, kind, peer, told>>
        /\ UNCHANGED share /\ UNCHANGED ctl /\ UNCHANGED quit
    BY <1>5 DEF CheckShared, ProveFails, proc, reqs
  <2>2. ChildSock \in lsn => ~share
    BY <1>5 DEF CheckShared, ProveFails, portSharable
  <2>3. child \notin {"none", "up"}
    BY <2>1 DEF CInv, Proved
  <2> QED
    BY <1>1, <2>1, <2>2, <2>3, QuietStep DEF Early
<1> QED
  BY <1>2, <1>3, <1>4, <1>5 DEF NoProof, ProveFails

(* The proof is complete, or not.                                          *)
LEMMA StartedStep ==
  ASSUME CInv, started
  PROVE  CInv'
<1>1. CASE listenerInode = None
  BY <1>1, Bails DEF started, ProveFails, Early
<1>2. CASE listenerInode # None
  <2>1. /\ pid1 = "inode" /\ pid1' = "serving" /\ out' = "ready" /\ ino' = listenerInode
        /\ UNCHANGED <<stopper, child, lsn, others, pc, kind, peer, told>>
        /\ UNCHANGED share /\ UNCHANGED ctl /\ UNCHANGED quit
    BY <1>2 DEF started, reportReady, proc, reqs
  <2>2. lsn = {ino'} /\ ino' # None /\ ino' \in 0..others /\ ino = None
    BY <1>2, <2>1, ListenerIsAlone DEF CInv, Numbered, Proved, Early
  <2>3. TypeOK'
    BY <2>1, <2>2 DEF CInv, TypeOK
  <2>4. Proved' /\ Numbered'
    BY <2>1, <2>2 DEF CInv, Proved, Numbered, Early
  <2>5. ChildSock \in lsn => ~share
    BY <2>1 DEF CInv, Unshared
  <2>6. Unshared' /\ Alone'
    BY <2>1, <2>2, <2>5 DEF Unshared, Alone
  <2>7. \A r \in Reqs : Taken(r)'
    BY <2>1, <2>2 DEF CInv, Taken, Handled
  <2> QED
    BY <2>3, <2>4, <2>6, <2>7 DEF CInv
<1> QED
  BY <1>1, <1>2

(* The end of the child, of PID 1 and of the host.                         *)
LEMMA EndStep ==
  ASSUME CInv, waitChild \/ Leave \/ HostCloses \/ onGone \/ signalKill
  PROVE  CInv'
<1>1. /\ UNCHANGED <<ino, others, kind, peer, told>> /\ UNCHANGED share
      /\ pc' \in {pc, [r \in Reqs |-> "over"]}
      /\ lsn' \subseteq lsn /\ (ChildSock \in lsn' => child' = child)
      /\ child' \in {child, "released", "reaped"}
      /\ child' # child => pid1 = "serving"
      /\ \/ pid1' = pid1
         \/ pid1 \in {"serving", "leaving"} /\ pid1' \in {"leaving", "gone"}
  BY DEF CInv, Numbered, waitChild, Leave, HostCloses, onGone, signalKill, Running, init, proc, reqs
<1>2. TypeOK'
  <2>1. /\ ctl' \in {"open", "gone", "closed"} /\ stopper' \in {"no", "termed", "killed"}
        /\ out' = out /\ quit' \in BOOLEAN
    BY DEF CInv, TypeOK, waitChild, Leave, HostCloses, onGone, signalKill, init
  <2>2. pc' \in [Reqs -> Handled \cup {"idle", "sent", "over"}]
    BY <1>1 DEF CInv, TypeOK
  <2>3. /\ pid1' \in {pid1, "leaving", "gone"} /\ child' \in {child, "released", "reaped"}
        /\ lsn' \subseteq lsn /\ UNCHANGED <<ino, others, kind, peer, told, share>>
    BY <1>1
  <2> QED
    BY <2>1, <2>2, <2>3 DEF CInv, TypeOK
<1>3. Proved' /\ Numbered'
  BY <1>1 DEF CInv, Proved, Numbered, Early
<1>4. Unshared' /\ Alone'
  BY <1>1 DEF CInv, Unshared, Alone
<1>5. \A r \in Reqs : Taken(r)'
  BY <1>1 DEF CInv, TypeOK, Taken, Handled
<1> QED
  BY <1>2, <1>3, <1>4, <1>5 DEF CInv

(* CInv is inductive.                                                      *)
THEOREM CageInvariance == Spec => []CInv
<1>1. Init => CInv
  <2> SUFFICES ASSUME Init PROVE CInv
    OBVIOUS
  <2>1. TypeOK
    <3>1. 0 \in 0..MaxOthers
      BY CageAssumption
    <3>2. /\ pc \in [Reqs -> Handled \cup {"idle", "sent", "over"}]
          /\ kind \in [Reqs -> {None, "short", "sse"}]
          /\ peer \in [Reqs -> 0..MaxOthers \cup {None}]
          /\ told \in [Reqs -> BOOLEAN]
      BY DEF Init
    <3>3. share \in BOOLEAN /\ quit \in BOOLEAN
      BY DEF Init
    <3>4. others \in 0..MaxOthers /\ lsn \in SUBSET (0..MaxOthers) /\ ino \in 0..MaxOthers \cup {None}
      BY <3>1 DEF Init
    <3> QED
      BY <3>2, <3>3, <3>4 DEF Init, TypeOK
  <2>2. Proved /\ Numbered /\ Unshared /\ Alone
    BY DEF Init, Proved, Numbered, Unshared, Alone
  <2>3. \A r \in Reqs : Taken(r)
    BY DEF Init, Taken, Handled
  <2> QED
    BY <2>1, <2>2, <2>3 DEF CInv
<1>2. CInv /\ [Next]_vars => CInv'
  <2> SUFFICES ASSUME CInv, [Next]_vars PROVE CInv'
    OBVIOUS
  <2>1. CASE UNCHANGED vars
    BY <2>1 DEF vars, CInv, TypeOK, Proved, Numbered, Unshared, Alone, Taken
  <2> QED
    BY <2>1, RequestStep, ProcessStep, BootStep, StartedStep, EndStep DEF Next, runInit, Ended
<1> QED
  BY <1>1, <1>2, PTL DEF Spec

(* Type correctness of PID 1, its child, the sockets and the handlers.     *)
THEOREM CageTypeCorrect == Spec => []TypeOK
<1>1. CInv => TypeOK
  BY DEF CInv
<1> QED
  BY <1>1, CageInvariance, PTL

(* requestRelay.handle: the token goes only to the socket of the proof,    *)
(* whatever the child and the other processes do between the steps.        *)
THEOREM TokenGoesToProved == Spec => []TokenToProved
<1>1. CInv => TokenToProved
  BY DEF CInv, Taken, TokenToProved
<1> QED
  BY <1>1, CageInvariance, PTL
=============================================================================
