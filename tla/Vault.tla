------------------------------- MODULE Vault -------------------------------
(* The vault of one state directory (src/vault): processes that open it      *)
(* under the flock of its directory, the operations of an open Vault, the    *)
(* reset from a shell, and the files vault.json and audit.log with what a    *)
(* killed process and a loss of power leave of them; vault.json.tmp is made  *)
(* afresh by every write, and nobody reads it.                               *)
(* Cryptography is its ideal: a wrap yields the body key it holds to the     *)
(* right PRF output, an entry opens with the body key it was sealed with.    *)
EXTENDS Integers, FiniteSets, Functions

CONSTANTS Procs,      \* processes: daemons that open the vault, shells that reset it
          Creds,      \* passkeys
          Names,      \* (kind, name) of an entry
          MaxWraps,   \* maxWraps
          MaxItems,   \* maxItems
          MaxVaults,  \* bound of the model: how often Init draws an ID and a key
          MaxBack,    \* bound of the model: documents left unconfirmed by failed syncs
          None,       \* no document
          NoOne       \* nobody holds the flock

ASSUME VaultAssumption ==
    /\ MaxWraps \in Nat \ {0} /\ MaxItems \in Nat /\ MaxVaults \in Nat
    /\ MaxBack \in Nat
    /\ IsFiniteSet(Creds) /\ IsFiniteSet(Names)
    /\ NoOne \notin Procs
    /\ None \notin [id : Nat, wraps : UNION {[C -> Nat] : C \in SUBSET Creds},
                    items : UNION {[N -> Nat] : N \in SUBSET Names}]
    /\ None \notin [id : Nat, creds : SUBSET Creds, names : SUBSET Names]

VARIABLES disk,    \* vault.json, as every process sees it
          back,    \* what vault.json may be after a loss of power
          tail,    \* the last line of audit.log
          owner,   \* who holds the flock of the directory
          st,      \* st[p]: "off", "open" (a Vault), "reset" (inside Reset)
          doc,     \* doc[p]: Vault.doc
          key,     \* key[p]: Vault.key, 0 when locked
          pc,      \* pc[p]: the next step of the operation under Vault.mu
          todo,    \* todo[p]: the document to write and the line to log first
          asked,   \* asked[p]: the ID the user of the shell has confirmed
          drawn    \* how many IDs (and body keys) were drawn

files == <<disk, back>>
vars  == <<disk, back, tail, owner, st, doc, key, pc, todo, asked, drawn>>

Ids == 1..MaxVaults
\* What PeekID answers when it cannot read an ID.
unknown == 0

Wrappings == UNION {[C -> Ids \cup {0}] : C \in SUBSET Creds}
Entries   == UNION {[N -> Ids \cup {0}] : N \in SUBSET Names}
document  == [id : Ids, wraps : Wrappings, items : Entries]
Events    == {"init", "add-wrap", "remove-wrap", "reset", "remark", "none"}
auditEntry == [ev : Events, id : Ids \cup {0}, target : Creds \cup {None}]
Line(ev, i, c) == [ev |-> ev, id |-> i, target |-> c]
NoLine    == Line("none", 0, None)
\* A line with the suffix -denied, -failed or -not-durable.
Remark    == Line("remark", 0, None)
Idle      == [doc |-> None, line |-> NoLine]

Init0 ==
    /\ disk = None /\ back = {None} /\ tail = NoLine
    /\ owner = NoOne
    /\ st = [p \in Procs |-> "off"]
    /\ doc = [p \in Procs |-> None]
    /\ key = [p \in Procs |-> 0]
    /\ pc = [p \in Procs |-> "idle"]
    /\ todo = [p \in Procs |-> Idle]
    /\ asked = [p \in Procs |-> None]
    /\ drawn = 0

-----------------------------------------------------------------------------
(* Helpers of the operations.                                                *)

\* What loadDocument accepts.
validate(d) ==
    /\ DOMAIN d.wraps # {}
    /\ Cardinality(DOMAIN d.wraps) <= MaxWraps
    /\ Cardinality(DOMAIN d.items) <= MaxItems

With(f, x, y) == [z \in DOMAIN f \cup {x} |-> IF z = x THEN y ELSE f[z]]

\* What Open takes for a vault: no file, or one that passes the checks.
loadDocument(d) == d # None => validate(d)

\* The body key in a wrap: only the PRF output of its passkey opens it.
unwrapBodyKey(wrap, right) == IF right THEN wrap ELSE 0

\* An entry opens with the body key it was sealed with, and with no other.
openItem(k, item) == k = item

getItem(d, k, n) == n \in DOMAIN d.items /\ openItem(k, d.items[n])

\* The right PRF output opens a wrap that is there.
prove(p, c, right) == c \in DOMAIN doc[p].wraps /\ unwrapBodyKey(doc[p].wraps[c], right) # 0

\* An operation in the critical section of Vault.mu; nothing of it is done yet.
Ready(p) == st[p] = "open" /\ pc[p] = "idle"

\* Mutant: the document is written without its line.
commitUnlogged(p, d, line) ==
    /\ pc' = [pc EXCEPT ![p] = IF d = None THEN "remove" ELSE "write"]
    /\ todo' = [todo EXCEPT ![p] = [doc |-> d, line |-> line]]

\* Vault.commit begins: the audit line, then the document.
commit(p, d, line) ==
    /\ pc' = [pc EXCEPT ![p] = "audit"]
    /\ todo' = [todo EXCEPT ![p] = [doc |-> d, line |-> line]]

\* A refused change is logged if that is possible, and is over.
auditDenied ==
    /\ tail' \in {tail, Remark}
    /\ UNCHANGED <<disk, back, owner, st, doc, key, pc, todo, asked, drawn>>

-----------------------------------------------------------------------------
(* A process opens and closes the vault.                                     *)

lockDir(p) == owner = NoOne /\ owner' = p

Open(p) ==
    /\ st[p] = "off" /\ asked[p] = None
    /\ lockDir(p)
    /\ loadDocument(disk)
    /\ st' = [st EXCEPT ![p] = "open"]
    /\ doc' = [doc EXCEPT ![p] = disk]
    /\ UNCHANGED <<disk, back, tail, key, pc, todo, asked, drawn>>

Forget(p) ==
    /\ st' = [st EXCEPT ![p] = "off"]
    /\ doc' = [doc EXCEPT ![p] = None]
    /\ key' = [key EXCEPT ![p] = 0]
    /\ pc' = [pc EXCEPT ![p] = "idle"]
    /\ todo' = [todo EXCEPT ![p] = Idle]
    /\ owner' = IF owner = p THEN NoOne ELSE owner
    /\ asked' = [asked EXCEPT ![p] = None]

Close(p) ==
    /\ Ready(p)
    /\ Forget(p)
    /\ UNCHANGED <<disk, back, tail, drawn>>

Lock(p) ==
    /\ Ready(p)
    /\ key' = [key EXCEPT ![p] = 0]
    /\ UNCHANGED <<disk, back, tail, owner, st, doc, pc, todo, asked, drawn>>

-----------------------------------------------------------------------------
(* The operations of an open Vault.                                          *)

Init(p, c) ==
    /\ Ready(p) /\ doc[p] = None
    /\ drawn < MaxVaults
    /\ drawn' = drawn + 1
    /\ commit(p, [id |-> drawn', wraps |-> [x \in {c} |-> drawn'], items |-> [n \in {} |-> 0]],
              Line("init", drawn', c))
    /\ UNCHANGED <<disk, back, tail, owner, st, doc, key, asked>>

Unlock(p, c, right) ==
    /\ Ready(p) /\ doc[p] # None
    /\ prove(p, c, right)
    /\ key' = [key EXCEPT ![p] = unwrapBodyKey(doc[p].wraps[c], right)]
    /\ UNCHANGED <<disk, back, tail, owner, st, doc, pc, todo, asked, drawn>>

\* The body key comes from the authorizer's wrap: the vault may be locked.
Wrapped(p, c) == unwrapBodyKey(doc[p].wraps[c], TRUE)

AddWrap(p, c, right, new) ==
    /\ Ready(p) /\ doc[p] # None
    /\ \/ /\ ~prove(p, c, right)
          /\ auditDenied
       \/ /\ prove(p, c, right)
          /\ new \notin DOMAIN doc[p].wraps
          /\ Cardinality(DOMAIN doc[p].wraps) < MaxWraps
          /\ commit(p, [doc[p] EXCEPT !.wraps = With(@, new, Wrapped(p, c))],
                    Line("add-wrap", doc[p].id, new))
          /\ UNCHANGED <<disk, back, tail, owner, st, doc, key, asked, drawn>>

RemoveWrap(p, c, right, target) ==
    /\ Ready(p) /\ doc[p] # None /\ key[p] # 0
    /\ c # target
    /\ \/ /\ ~prove(p, c, right)
          /\ auditDenied
       \/ /\ prove(p, c, right)
          /\ Wrapped(p, c) = key[p]
          /\ Cardinality(DOMAIN doc[p].wraps) > 1
          /\ target \in DOMAIN doc[p].wraps
          /\ commit(p, [doc[p] EXCEPT !.wraps = Restrict(@, DOMAIN @ \ {target})],
                    Line("remove-wrap", doc[p].id, target))
          /\ UNCHANGED <<disk, back, tail, owner, st, doc, key, asked, drawn>>

\* PutCredential and Put: a write without an audit line.
putItem(p, n) ==
    /\ Ready(p) /\ doc[p] # None /\ key[p] # 0
    /\ n \in DOMAIN doc[p].items \/ Cardinality(DOMAIN doc[p].items) < MaxItems
    /\ pc' = [pc EXCEPT ![p] = "write"]
    /\ todo' = [todo EXCEPT ![p] = [doc |-> [doc[p] EXCEPT !.items = With(@, n, key[p])],
                                    line |-> NoLine]]
    /\ UNCHANGED <<disk, back, tail, owner, st, doc, key, asked, drawn>>

-----------------------------------------------------------------------------
(* The steps of commit and writeDocument, each of which may fail.            *)

Goto(p, l) == pc' = [pc EXCEPT ![p] = l]

\* The operation returns; a Reset gives up the flock as well.
Return(p) ==
    /\ Goto(p, "idle")
    /\ todo' = [todo EXCEPT ![p] = Idle]
    /\ st' = [st EXCEPT ![p] = IF @ = "reset" THEN "off" ELSE @]
    /\ owner' = IF st[p] = "reset" THEN NoOne ELSE owner
    /\ asked' = [asked EXCEPT ![p] = None]

\* A change that is not done is noted; an entry has no line to note it in.
Note(p) == IF todo[p].line = NoLine \/ st[p] = "reset" THEN Return(p)
           ELSE Goto(p, "note") /\ UNCHANGED <<todo, st, owner, asked>>

\* No line, no change; the line may be there although the sync failed.
appendAudit(p) ==
    /\ pc[p] = "audit"
    /\ \/ /\ tail' = todo[p].line
          /\ Goto(p, IF st[p] = "reset" THEN "remove" ELSE "write")
          /\ UNCHANGED <<todo, st, owner, asked>>
       \/ /\ tail' \in {tail, todo[p].line}
          /\ Return(p)
    /\ UNCHANGED <<disk, back, doc, key, drawn>>

WriteTmp(p) ==
    /\ pc[p] = "write"
    /\ \/ /\ Goto(p, "rename")
          /\ UNCHANGED <<todo, st, owner, asked>>
       \/ Note(p)
    /\ UNCHANGED <<disk, back, tail, doc, key, drawn>>

\* What a loss of power leaves of the renamed file: all of it, for it was synced.
Survives(d) == {d}

Rename(p) ==
    /\ pc[p] = "rename"
    /\ \/ /\ disk' = todo[p].doc
          /\ back' = back \cup Survives(todo[p].doc)
          /\ Goto(p, "sync")
          /\ UNCHANGED <<todo, st, owner, asked>>
       \/ /\ UNCHANGED <<disk, back>>
          /\ Note(p)
    /\ UNCHANGED <<tail, doc, key, drawn>>

\* Mutant: a document whose sync failed is not taken over.
AppliedIfDurable(p, durable) ==
    doc' = [doc EXCEPT ![p] = IF st[p] = "open" /\ durable THEN todo[p].doc ELSE @]

\* Vault.write takes over an applied document even if the sync failed; Init
\* keeps its key only if it succeeded.
Applied(p, durable) == doc' = [doc EXCEPT ![p] = IF st[p] = "open" THEN todo[p].doc ELSE @]

Sync(p) ==
    /\ pc[p] = "sync"
    /\ \/ /\ back' = {disk}
          /\ Applied(p, TRUE)
          /\ key' = IF todo[p].line.ev = "init" THEN [key EXCEPT ![p] = todo[p].doc.id] ELSE key
          /\ Return(p)
       \/ /\ Cardinality(back) <= MaxBack
          /\ Applied(p, FALSE)
          /\ Note(p)
          /\ UNCHANGED <<back, key>>
    /\ UNCHANGED <<disk, tail, drawn>>

\* The line that says what became of the change, if it can be written.
NoteFailure(p) ==
    /\ pc[p] = "note"
    /\ tail' \in {tail, Remark}
    /\ Return(p)
    /\ UNCHANGED <<disk, back, doc, key, drawn>>

-----------------------------------------------------------------------------
(* goronation vault reset.                                                   *)

readVaultID == IF disk = None THEN unknown ELSE disk.id

\* The ID is shown and confirmed without the flock.
PeekID(p) ==
    /\ st[p] = "off" /\ asked[p] = None
    /\ asked' = [asked EXCEPT ![p] = readVaultID]
    /\ UNCHANGED <<disk, back, tail, owner, st, doc, key, pc, todo, drawn>>

\* Mutant: the confirmed ID is not compared again under the lock.
ResetUnchecked(p) ==
    /\ st[p] = "off" /\ asked[p] # None
    /\ \/ /\ lockDir(p)
          /\ st' = [st EXCEPT ![p] = "reset"]
          /\ commit(p, None, Line("reset", readVaultID, None))
          /\ UNCHANGED <<doc, key, asked>>
       \/ /\ owner # NoOne
          /\ Forget(p)
    /\ UNCHANGED <<disk, back, tail, drawn>>

\* ErrInUse and ErrVaultChanged end the command before anything is done.
Reset(p) ==
    /\ st[p] = "off" /\ asked[p] # None
    /\ \/ /\ lockDir(p)
          /\ readVaultID = asked[p]
          /\ st' = [st EXCEPT ![p] = "reset"]
          /\ commit(p, None, Line("reset", asked[p], None))
          /\ UNCHANGED <<doc, key, asked>>
       \/ /\ owner # NoOne \/ readVaultID # asked[p]
          /\ Forget(p)
    /\ UNCHANGED <<disk, back, tail, drawn>>

RemoveFile(p) ==
    /\ pc[p] = "remove"
    /\ \/ /\ disk' = None
          /\ back' = back \cup {None}
          /\ Goto(p, "removetmp")
          /\ UNCHANGED <<todo, st, owner, asked>>
       \/ /\ Return(p)
          /\ UNCHANGED <<disk, back>>
    /\ UNCHANGED <<tail, doc, key, drawn>>

RemoveTmp(p) ==
    /\ pc[p] = "removetmp"
    /\ \/ /\ Goto(p, "sync")
          /\ UNCHANGED <<todo, st, owner, asked>>
       \/ Return(p)
    /\ UNCHANGED <<disk, back, tail, doc, key, drawn>>

-----------------------------------------------------------------------------
(* Faults.  The kernel releases the flock of a process that dies.            *)

Kill(p) ==
    /\ st[p] # "off" \/ asked[p] # None
    /\ Forget(p)
    /\ UNCHANGED <<disk, back, tail, drawn>>

PowerLoss ==
    /\ \E d \in back : disk' = d /\ back' = {d}
    /\ owner' = NoOne
    /\ st' = [p \in Procs |-> "off"]
    /\ doc' = [p \in Procs |-> None]
    /\ key' = [p \in Procs |-> 0]
    /\ pc' = [p \in Procs |-> "idle"]
    /\ todo' = [p \in Procs |-> Idle]
    /\ asked' = [p \in Procs |-> None]
    /\ UNCHANGED <<tail, drawn>>

Step(p) ==
    \/ Open(p) \/ Close(p) \/ Lock(p)
    \/ \E c \in Creds : Init(p, c)
    \/ \E c \in Creds, right \in BOOLEAN :
          \/ Unlock(p, c, right)
          \/ \E t \in Creds : AddWrap(p, c, right, t) \/ RemoveWrap(p, c, right, t)
    \/ \E n \in Names : putItem(p, n)
    \/ appendAudit(p) \/ WriteTmp(p) \/ Rename(p) \/ Sync(p) \/ NoteFailure(p)
    \/ PeekID(p) \/ Reset(p) \/ RemoveFile(p) \/ RemoveTmp(p)
    \/ Kill(p)

Next == (\E p \in Procs : Step(p)) \/ PowerLoss

Spec == Init0 /\ [][Next]_vars

-----------------------------------------------------------------------------
(* Type correctness of the files and of the processes.                       *)
TypeOK ==
    /\ disk \in document \cup {None}
    /\ back \subseteq document \cup {None}
    /\ tail \in auditEntry
    /\ owner \in Procs \cup {NoOne}
    /\ st \in [Procs -> {"off", "open", "reset"}]
    /\ doc \in [Procs -> document \cup {None}]
    /\ key \in [Procs -> Ids \cup {0}]
    /\ pc \in [Procs -> {"idle", "audit", "write", "rename", "sync", "note",
                         "remove", "removetmp"}]
    /\ todo \in [Procs -> [doc : document \cup {None}, line : auditEntry]]
    /\ asked \in [Procs -> Ids \cup {unknown, None}]
    /\ drawn \in 0..MaxVaults

Alive == \E p \in Procs : st'[p] # "off"

\* What the audit line of a change from one document to another has to say.
Tells(line, old, new) ==
    CASE old = None -> /\ line.ev = "init" /\ line.id = new.id
                       /\ DOMAIN new.wraps = {line.target}
      [] new = None -> line.ev = "reset" /\ line.id = old.id
      [] OTHER -> /\ line.id = old.id /\ line.id = new.id
                  /\ \/ /\ line.ev = "add-wrap"
                        /\ new.wraps = With(old.wraps, line.target, new.wraps[line.target])
                     \/ /\ line.ev = "remove-wrap"
                        /\ new.wraps = Restrict(old.wraps, DOMAIN old.wraps \ {line.target})

Passkeys(d) == IF d = None THEN <<0, {}>> ELSE <<d.id, DOMAIN d.wraps>>

(* Who can open the vault never changes without a line that is in the audit  *)
(* log before it (ADR 0034), whichever process, failure or kill comes in     *)
(* between; only a loss of power may take back what was not confirmed.       *)
AuditedFirst ==
    [][Passkeys(disk') # Passkeys(disk) /\ Alive => Tells(tail, disk, disk')]_vars

(* Reset destroys the vault whose ID the user has confirmed, although the    *)
(* confirmation is given without the lock and other processes may replace    *)
(* the vault meanwhile.                                                      *)
ResetConfirmed ==
    [][disk # None /\ disk' = None /\ Alive =>
          \E p \in Procs : st[p] = "reset" /\ asked[p] = disk.id]_vars

-----------------------------------------------------------------------------
(* What the vault promises (AtomicVault), with the document seen through its *)
(* passkeys: an entry counts only if every one of them yields its key.       *)
Seen(d) ==
    IF d = None THEN None
    ELSE [id |-> d.id, creds |-> DOMAIN d.wraps,
          names |-> {n \in Names : \A c \in DOMAIN d.wraps :
                                    getItem(d, unwrapBodyKey(d.wraps[c], TRUE), n)}]

Promise == INSTANCE AtomicVault WITH shown <- Seen(disk), back <- {Seen(d) : d \in back}

(* Every step of every process is a change of one document as a whole: a     *)
(* removed wrap never comes back through a later write of a stale document,  *)
(* no write loses an entry, and the last passkey cannot be removed.          *)
ImplementsAtomicVault == Promise!ASpec
=============================================================================
