---------------------------- MODULE Vault_proofs ----------------------------
(***************************************************************************)
(* The vault for any number of processes, passkeys, entries and vaults:    *)
(* its audit log and its reset keep what they say, and the protocol of     *)
(* flock, audit line, temporary file, rename and sync implements the       *)
(* document of AtomicVault that is only ever replaced as a whole.          *)
(***************************************************************************)
EXTENDS Vault, FiniteSetTheorems, TLAPS

(* A document that opens: it passes the checks of Open, and each of its    *)
(* wraps yields the one key its entries are sealed with.                   *)
Sound(d) ==
  /\ d \in document
  /\ validate(d)
  /\ \A c \in DOMAIN d.wraps : d.wraps[c] = d.id
  /\ \A n \in DOMAIN d.items : d.items[n] = d.id

Known(d) == d = None \/ (Sound(d) /\ d.id <= drawn)

(* What vault.json is, or may be after a loss of power.                    *)
FInv == /\ disk \in back
        /\ \A d \in back : Known(d)

(* The four changes of a document, each with the line it is logged by.     *)
Created(old, new, line) ==
  /\ old = None
  /\ line.ev = "init" /\ line.id = new.id
  /\ DOMAIN new.wraps = {line.target} /\ DOMAIN new.items = {}
Enrolled(old, new, line) ==
  /\ old # None /\ new.id = old.id /\ new.items = old.items
  /\ line.ev = "add-wrap" /\ line.id = old.id
  /\ line.target \in Creds \ DOMAIN old.wraps
  /\ new.wraps = With(old.wraps, line.target, old.id)
Withdrawn(old, new, line) ==
  /\ old # None /\ new.id = old.id /\ new.items = old.items
  /\ line.ev = "remove-wrap" /\ line.id = old.id
  /\ line.target \in DOMAIN old.wraps /\ DOMAIN old.wraps # {line.target}
  /\ new.wraps = Restrict(old.wraps, DOMAIN old.wraps \ {line.target})
Kept(old, new, line) ==
  /\ old # None /\ new.id = old.id /\ new.wraps = old.wraps
  /\ line = NoLine
  /\ \E n \in Names : DOMAIN new.items = DOMAIN old.items \cup {n}

Change(old, new, line) ==
  /\ Sound(new)
  /\ \/ Created(old, new, line)
     \/ Enrolled(old, new, line)
     \/ Withdrawn(old, new, line)
     \/ Kept(old, new, line)

(* A process with an open vault: it works on the document that is on the   *)
(* disk, its line is the last of the log until the rename, and a vault it  *)
(* makes is not one that a loss of power may bring back.                   *)
Writing(p) ==
  /\ pc[p] \in {"idle", "audit", "write", "rename", "sync", "note"}
  /\ pc[p] # "sync" => doc[p] = disk
  /\ pc[p] = "sync" => disk = todo[p].doc
  /\ pc[p] \in {"audit", "write", "rename", "sync"} =>
       Change(doc[p], todo[p].doc, todo[p].line) /\ todo[p].doc.id <= drawn
  /\ pc[p] \in {"write", "rename"} => todo[p].line \in {tail, NoLine}
  /\ pc[p] \in {"audit", "write", "rename"} /\ doc[p] = None =>
       \A d \in back : d = None \/ d.id < todo[p].doc.id
  /\ key[p] # 0 => doc[p] # None /\ key[p] = doc[p].id

(* A shell inside Reset: until the file is gone it is the confirmed one.   *)
Resetting(p) ==
  /\ pc[p] \in {"audit", "remove", "removetmp", "sync"}
  /\ pc[p] \in {"audit", "remove"} => asked[p] = readVaultID
  /\ pc[p] \in {"removetmp", "sync"} => disk = None
  /\ todo[p] = [doc |-> None, line |-> Line("reset", asked[p], None)]
  /\ pc[p] = "remove" => tail = todo[p].line

PInv(p) ==
  /\ st[p] # "off" => owner = p
  /\ st[p] # "open" => doc[p] = None /\ key[p] = 0
  /\ st[p] = "off" => pc[p] = "idle"
  /\ st[p] = "open" => Writing(p)
  /\ st[p] = "reset" => Resetting(p)

VInv == TypeOK /\ FInv /\ \A p \in Procs : PInv(p)

-----------------------------------------------------------------------------
(* The functions from passkeys to keys, and from names to keys.            *)
LEMMA IdsNat == Ids \subseteq Nat /\ 0 \notin Ids
  BY VaultAssumption DEF Ids

LEMMA MapIntro ==
  ASSUME NEW S, NEW T, NEW C \in SUBSET S, NEW f \in [C -> T]
  PROVE  f \in UNION {[D -> T] : D \in SUBSET S}
  OBVIOUS

LEMMA MapElim ==
  ASSUME NEW S, NEW T, NEW f \in UNION {[D -> T] : D \in SUBSET S}
  PROVE  DOMAIN f \subseteq S /\ f \in [DOMAIN f -> T]
  OBVIOUS

(* A document is not None.                                                 *)
LEMMA Widen ==
  ASSUME NEW S, NEW f \in UNION {[D -> Ids \cup {0}] : D \in SUBSET S}
  PROVE  f \in UNION {[D -> Nat] : D \in SUBSET S}
<1>1. PICK D \in SUBSET S : f \in [D -> Ids \cup {0}]
  OBVIOUS
<1>2. Ids \cup {0} \subseteq Nat
  BY IdsNat
<1>3. f \in [D -> Nat]
  BY <1>1, <1>2
<1> QED
  BY <1>3

LEMMA NotNone ==
  ASSUME NEW d \in document
  PROVE  d # None
<1>1. d.wraps \in UNION {[C -> Nat] : C \in SUBSET Creds}
  BY Widen DEF document, Wrappings
<1>2. d.items \in UNION {[N -> Nat] : N \in SUBSET Names}
  BY Widen DEF document, Entries
<1> QED
  BY <1>1, <1>2, VaultAssumption, IdsNat DEF document

(* One more element is at most one more.                                   *)
LEMMA AtMostOneMore ==
  ASSUME NEW S, IsFiniteSet(S), NEW x
  PROVE  /\ IsFiniteSet(S \cup {x})
         /\ Cardinality(S \cup {x}) <= Cardinality(S) + 1
<1>1. /\ IsFiniteSet(S \cup {x})
      /\ Cardinality(S \cup {x}) \in {Cardinality(S), Cardinality(S) + 1}
  BY FS_AddElement
<1>2. Cardinality(S) \in Nat
  BY FS_CardinalityType
<1> QED
  BY <1>1, <1>2

(* The documents the operations make are sound.                            *)
LEMMA CreateSound ==
  ASSUME NEW c \in Creds, NEW i \in Ids,
         NEW d, d = [id |-> i, wraps |-> [x \in {c} |-> i], items |-> [n \in {} |-> 0]]
  PROVE  Sound(d) /\ DOMAIN d.wraps = {c} /\ DOMAIN d.items = {}
<1>1. DOMAIN d.wraps = {c} /\ DOMAIN d.items = {}
  OBVIOUS
<1>2. d.wraps \in Wrappings
  <2>1. d.wraps \in [{c} -> Ids \cup {0}] /\ {c} \in SUBSET Creds
    OBVIOUS
  <2> QED
    BY <2>1 DEF Wrappings
<1>3. d.items \in Entries
  <2>1. d.items \in [{} -> Ids \cup {0}]
    OBVIOUS
  <2> QED
    BY <2>1, MapIntro, SMTT(30) DEF Entries
<1>4. validate(d)
  <2>1. Cardinality({c}) = 1 /\ Cardinality({}) = 0
    BY FS_Singleton, FS_EmptySet
  <2> QED
    BY <1>1, <2>1, VaultAssumption DEF validate
<1> QED
  BY <1>1, <1>2, <1>3, <1>4 DEF Sound, document

LEMMA EnrolSound ==
  ASSUME NEW d, Sound(d), NEW c \in Creds \ DOMAIN d.wraps,
         Cardinality(DOMAIN d.wraps) < MaxWraps,
         NEW e, e = [d EXCEPT !.wraps = With(@, c, d.id)]
  PROVE  Sound(e) /\ e.id = d.id /\ e.items = d.items /\ e.wraps = With(d.wraps, c, d.id)
<1>1. /\ e.id = d.id /\ e.items = d.items /\ e.wraps = With(d.wraps, c, d.id)
      /\ e = [id |-> e.id, wraps |-> e.wraps, items |-> e.items]
  BY DEF Sound, document
<1>2. DOMAIN d.wraps \subseteq Creds /\ d.wraps \in [DOMAIN d.wraps -> Ids \cup {0}]
  BY MapElim DEF Sound, document, Wrappings
<1>3. DOMAIN e.wraps = DOMAIN d.wraps \cup {c} /\ \A x \in DOMAIN e.wraps : e.wraps[x] = d.id
  BY <1>1 DEF With, Sound
<1>4. e.wraps \in [DOMAIN d.wraps \cup {c} -> Ids \cup {0}]
  BY <1>1, <1>2 DEF With, Sound, document
<1>5. e.wraps \in Wrappings
  BY <1>2, <1>4, MapIntro DEF Wrappings
<1>6. validate(e)
  <2>1. IsFiniteSet(DOMAIN d.wraps)
    BY <1>2, FS_Subset, VaultAssumption
  <2>2. /\ Cardinality(DOMAIN e.wraps) <= Cardinality(DOMAIN d.wraps) + 1
        /\ Cardinality(DOMAIN e.wraps) \in Nat /\ Cardinality(DOMAIN d.wraps) \in Nat
    BY <1>3, <2>1, AtMostOneMore, FS_CardinalityType
  <2> QED
    BY <1>1, <1>3, <2>2, VaultAssumption DEF validate, Sound
<1> QED
  BY <1>1, <1>3, <1>5, <1>6 DEF Sound, document

LEMMA WithdrawSound ==
  ASSUME NEW d, Sound(d), NEW c \in DOMAIN d.wraps, DOMAIN d.wraps # {c},
         NEW e, e = [d EXCEPT !.wraps = Restrict(@, DOMAIN @ \ {c})]
  PROVE  /\ Sound(e) /\ e.id = d.id /\ e.items = d.items
         /\ e.wraps = Restrict(d.wraps, DOMAIN d.wraps \ {c})
<1>1. /\ e.id = d.id /\ e.items = d.items /\ e.wraps = Restrict(d.wraps, DOMAIN d.wraps \ {c})
      /\ e = [id |-> e.id, wraps |-> e.wraps, items |-> e.items]
  BY DEF Sound, document
<1>2. DOMAIN d.wraps \subseteq Creds /\ d.wraps \in [DOMAIN d.wraps -> Ids \cup {0}]
  BY MapElim DEF Sound, document, Wrappings
<1>3. DOMAIN e.wraps = DOMAIN d.wraps \ {c} /\ \A x \in DOMAIN e.wraps : e.wraps[x] = d.id
  BY <1>1 DEF Restrict, Sound
<1>4. e.wraps \in [DOMAIN d.wraps \ {c} -> Ids \cup {0}]
  BY <1>1, <1>2 DEF Restrict, Sound, document
<1>5. e.wraps \in Wrappings
  BY <1>2, <1>4, MapIntro DEF Wrappings
<1>6. validate(e)
  <2>1. IsFiniteSet(DOMAIN d.wraps)
    BY <1>2, FS_Subset, VaultAssumption
  <2>2. Cardinality(DOMAIN e.wraps) <= Cardinality(DOMAIN d.wraps)
    BY <1>3, <2>1, FS_Subset
  <2>3. Cardinality(DOMAIN e.wraps) \in Nat /\ Cardinality(DOMAIN d.wraps) \in Nat
    BY <1>3, <2>1, FS_Subset, FS_CardinalityType
  <2> QED
    BY <1>1, <1>3, <2>2, <2>3, VaultAssumption DEF validate, Sound
<1> QED
  BY <1>1, <1>3, <1>5, <1>6 DEF Sound, document

LEMMA KeepSound ==
  ASSUME NEW d, Sound(d), NEW n \in Names,
         n \in DOMAIN d.items \/ Cardinality(DOMAIN d.items) < MaxItems,
         NEW e, e = [d EXCEPT !.items = With(@, n, d.id)]
  PROVE  /\ Sound(e) /\ e.id = d.id /\ e.wraps = d.wraps
         /\ DOMAIN e.items = DOMAIN d.items \cup {n}
<1>1. /\ e.id = d.id /\ e.wraps = d.wraps /\ e.items = With(d.items, n, d.id)
      /\ e = [id |-> e.id, wraps |-> e.wraps, items |-> e.items]
  BY DEF Sound, document
<1>2. DOMAIN d.items \subseteq Names /\ d.items \in [DOMAIN d.items -> Ids \cup {0}]
  BY MapElim DEF Sound, document, Entries
<1>3. DOMAIN e.items = DOMAIN d.items \cup {n} /\ \A x \in DOMAIN e.items : e.items[x] = d.id
  BY <1>1 DEF With, Sound
<1>4. e.items \in [DOMAIN d.items \cup {n} -> Ids \cup {0}]
  BY <1>1, <1>2 DEF With, Sound, document
<1>5. e.items \in Entries
  BY <1>2, <1>4, MapIntro DEF Entries
<1>6. validate(e)
  <2>1. IsFiniteSet(DOMAIN d.items) /\ Cardinality(DOMAIN d.items) \in Nat
    BY <1>2, FS_Subset, FS_CardinalityType, VaultAssumption
  <2>2. CASE n \in DOMAIN d.items
    <3>1. DOMAIN e.items = DOMAIN d.items
      BY <1>3, <2>2
    <3> QED
      BY <1>1, <3>1 DEF validate, Sound
  <2>3. CASE n \notin DOMAIN d.items
    <3>1. /\ Cardinality(DOMAIN e.items) <= Cardinality(DOMAIN d.items) + 1
          /\ Cardinality(DOMAIN e.items) \in Nat
      BY <1>3, <2>1, AtMostOneMore, FS_CardinalityType
    <3> QED
      BY <1>1, <2>1, <2>3, <3>1, VaultAssumption DEF validate, Sound
  <2> QED
    BY <2>2, <2>3
<1> QED
  BY <1>1, <1>3, <1>5, <1>6 DEF Sound, document

-----------------------------------------------------------------------------
(* A step of p leaves the others alone; what they share changes only when  *)
(* nobody else is inside.                                                  *)
Local(p) ==
  /\ \A q \in Procs \ {p} :
       /\ st'[q] = st[q] /\ doc'[q] = doc[q] /\ key'[q] = key[q]
       /\ pc'[q] = pc[q] /\ todo'[q] = todo[q] /\ asked'[q] = asked[q]
  /\ owner \in {p, NoOne} \/ UNCHANGED <<disk, back, tail, owner, drawn>>

LEMMA Frame ==
  ASSUME VInv, NEW p \in Procs, Local(p), TypeOK', FInv', PInv(p)'
  PROVE  VInv'
<1>1. ASSUME NEW q \in Procs, q # p PROVE PInv(q)'
  <2>1. /\ st'[q] = st[q] /\ doc'[q] = doc[q] /\ key'[q] = key[q]
        /\ pc'[q] = pc[q] /\ todo'[q] = todo[q] /\ asked'[q] = asked[q]
    BY <1>1 DEF Local
  <2>2. PInv(q)
    BY DEF VInv
  <2>3. CASE owner \in {p, NoOne}
    <3>1. st[q] = "off"
      BY <1>1, <2>2, <2>3, VaultAssumption DEF PInv
    <3> QED
      BY <2>1, <2>2, <3>1 DEF PInv
  <2>4. CASE UNCHANGED <<disk, back, tail, owner, drawn>>
    <3>1. Writing(q) => Writing(q)'
      BY <2>1, <2>4 DEF Writing
    <3>2. Resetting(q) => Resetting(q)'
      BY <2>1, <2>4 DEF Resetting, readVaultID, Line
    <3> QED
      BY <2>1, <2>2, <2>4, <3>1, <3>2 DEF PInv
  <2> QED
    BY <2>3, <2>4 DEF Local
<1> QED
  BY <1>1 DEF VInv

LEMMA SameFiles ==
  ASSUME FInv, UNCHANGED <<disk, back, drawn>>
  PROVE  FInv'
  BY DEF FInv, Known

LEMMA ForgetStep ==
  ASSUME TypeOK, NEW p \in Procs, Forget(p), UNCHANGED <<disk, back, tail, drawn>>
  PROVE  TypeOK' /\ Local(p) /\ PInv(p)'
<1>1. TypeOK'
  BY DEF TypeOK, Forget, Idle, NoLine, Line, auditEntry, Events
<1>2. Local(p)
  BY DEF Local, TypeOK, Forget
<1>3. PInv(p)'
  BY DEF PInv, Forget, TypeOK
<1> QED
  BY <1>1, <1>2, <1>3

(* Returning from an operation leaves the vault as open as it was.         *)
LEMMA ReturnStep ==
  ASSUME VInv, NEW p \in Procs, pc[p] # "idle", Return(p)
  PROVE  /\ owner = p
         /\ pc' = [pc EXCEPT ![p] = "idle"] /\ pc'[p] = "idle"
         /\ todo' \in [Procs -> [doc : document \cup {None}, line : auditEntry]]
         /\ st' \in [Procs -> {"off", "open", "reset"}]
         /\ owner' \in Procs \cup {NoOne}
         /\ asked' \in [Procs -> Ids \cup {unknown, None}]
         /\ \A q \in Procs \ {p} : /\ st'[q] = st[q] /\ todo'[q] = todo[q]
                                   /\ asked'[q] = asked[q] /\ pc'[q] = pc[q]
         /\ st[p] = "open" => st'[p] = "open" /\ owner' = p
         /\ st[p] = "reset" => st'[p] = "off"
         /\ st[p] \in {"open", "reset"}
<1>1. Idle \in [doc : document \cup {None}, line : auditEntry]
  BY DEF Idle, NoLine, Line, auditEntry, Events
<1>2. st[p] \in {"open", "reset"} /\ owner = p /\ TypeOK
  BY DEF VInv, TypeOK, PInv
<1> QED
  BY <1>1, <1>2 DEF Return, Goto, TypeOK

-----------------------------------------------------------------------------
(* One lemma per action, or for actions that do alike.                     *)
LEMMA ForgetInv ==
  ASSUME VInv, NEW p \in Procs, Forget(p), UNCHANGED <<disk, back, tail, drawn>>
  PROVE  VInv'
  BY ForgetStep, SameFiles, Frame DEF VInv

LEMMA OpenInv ==
  ASSUME VInv, NEW p \in Procs, Open(p)
  PROVE  VInv'
<1>1. TypeOK'
  BY DEF VInv, TypeOK, Open, lockDir
<1>2. FInv'
  BY SameFiles DEF VInv, Open
<1>3. Local(p)
  BY DEF VInv, TypeOK, Local, Open, lockDir
<1>4. PInv(p)'
  <2>1. st'[p] = "open" /\ owner' = p /\ doc'[p] = disk /\ disk' = disk
    BY DEF VInv, TypeOK, Open, lockDir
  <2>2. pc'[p] = "idle" /\ key'[p] = 0
    BY DEF VInv, PInv, Open
  <2> QED
    BY <2>1, <2>2 DEF PInv, Writing
<1> QED
  BY <1>1, <1>2, <1>3, <1>4, Frame

(* Lock, Unlock and a refused change touch only the key and the log.       *)
LEMMA KeyInv ==
  ASSUME VInv, NEW p \in Procs, Ready(p),
         NEW k \in {0} \cup {i \in Ids : doc[p] # None /\ i = doc[p].id},
         key' = [key EXCEPT ![p] = k],
         UNCHANGED <<disk, back, tail, owner, st, doc, pc, todo, asked, drawn>>
  PROVE  VInv'
<1>1. TypeOK'
  BY DEF VInv, TypeOK
<1>2. FInv'
  BY SameFiles DEF VInv
<1>3. Local(p)
  BY DEF VInv, TypeOK, Local
<1>4. PInv(p)'
  <2>1. st[p] = "open" /\ pc[p] = "idle" /\ Writing(p) /\ owner = p /\ key'[p] = k
    BY DEF VInv, TypeOK, PInv, Ready
  <2> QED
    BY <2>1 DEF PInv, Writing
<1> QED
  BY <1>1, <1>2, <1>3, <1>4, Frame

LEMMA LockInv ==
  ASSUME VInv, NEW p \in Procs, Lock(p)
  PROVE  VInv'
  BY KeyInv DEF Lock

(* The wraps of an open, idle vault.                                       *)
LEMMA OpenDoc ==
  ASSUME VInv, NEW p \in Procs, Ready(p), doc[p] # None
  PROVE  /\ st[p] = "open" /\ pc[p] = "idle" /\ owner = p
         /\ doc[p] = disk /\ Sound(doc[p]) /\ doc[p].id <= drawn
         /\ doc[p].id \in Ids
         /\ key[p] # 0 => key[p] = doc[p].id
         /\ \A c \in Creds, right \in BOOLEAN :
              prove(p, c, right) => c \in DOMAIN doc[p].wraps /\ right /\ Wrapped(p, c) = doc[p].id
<1>1. Writing(p) /\ st[p] = "open" /\ pc[p] = "idle" /\ owner = p
  BY DEF VInv, PInv, Ready
<1>2. doc[p] = disk /\ Known(disk)
  BY <1>1 DEF Writing, VInv, FInv
<1>3. Sound(doc[p]) /\ doc[p].id <= drawn /\ doc[p].id \in Ids
  BY <1>2 DEF Known, Sound, document
<1>4. key[p] # 0 => key[p] = doc[p].id
  BY <1>1 DEF Writing
<1>5. ASSUME NEW c \in Creds, NEW right \in BOOLEAN, prove(p, c, right)
      PROVE  c \in DOMAIN doc[p].wraps /\ right /\ Wrapped(p, c) = doc[p].id
  BY <1>3, <1>5 DEF prove, unwrapBodyKey, Wrapped, Sound
<1> QED
  BY <1>1, <1>2, <1>3, <1>4, <1>5

LEMMA UnlockInv ==
  ASSUME VInv, NEW p \in Procs, NEW c \in Creds, NEW right \in BOOLEAN, Unlock(p, c, right)
  PROVE  VInv'
<1>1. Ready(p) /\ doc[p] # None /\ prove(p, c, right)
  BY DEF Unlock
<1>2. right /\ Wrapped(p, c) = doc[p].id /\ doc[p].id \in Ids
  BY <1>1, OpenDoc
<1>3. key' = [key EXCEPT ![p] = doc[p].id]
  BY <1>2 DEF Unlock, Wrapped, unwrapBodyKey
<1> QED
  BY <1>1, <1>2, <1>3, KeyInv DEF Unlock

LEMMA DeniedInv ==
  ASSUME VInv, NEW p \in Procs, Ready(p), auditDenied
  PROVE  VInv'
<1>1. TypeOK'
  BY DEF VInv, TypeOK, auditDenied, Remark, Line, auditEntry, Events
<1>2. FInv'
  BY SameFiles DEF VInv, auditDenied
<1>3. Local(p)
  BY DEF VInv, PInv, Ready, Local, auditDenied
<1>4. PInv(p)'
  BY DEF VInv, PInv, Ready, Writing, auditDenied
<1> QED
  BY <1>1, <1>2, <1>3, <1>4, Frame

(* An operation begins with the change it is to make.                      *)
LEMMA BeginInv ==
  ASSUME VInv, NEW p \in Procs, Ready(p), drawn' \in {drawn, drawn + 1}, drawn' <= MaxVaults,
         NEW d, NEW line \in auditEntry, NEW l \in {"audit", "write"},
         Change(doc[p], d, line), d.id <= drawn',
         l = "write" => line = NoLine,
         doc[p] = None => \A b \in back : b = None \/ b.id < d.id,
         pc' = [pc EXCEPT ![p] = l],
         todo' = [todo EXCEPT ![p] = [doc |-> d, line |-> line]],
         UNCHANGED <<disk, back, tail, owner, st, doc, key, asked>>
  PROVE  VInv'
<1>1. TypeOK'
  BY VaultAssumption DEF VInv, TypeOK, Change, Sound
<1>2. FInv'
  <2>1. ASSUME NEW b \in back, Known(b) PROVE Known(b)'
    <3>1. Sound(b) => b.id \in Nat
      BY IdsNat DEF Sound, document
    <3>2. drawn \in Nat
      BY VaultAssumption DEF VInv, TypeOK
    <3>3. drawn <= drawn' /\ drawn' \in Nat
      BY <3>2
    <3>4. Sound(b) /\ b.id <= drawn => b.id <= drawn'
      BY <3>1, <3>2, <3>3
    <3> QED
      BY <2>1, <3>4 DEF Known
  <2> QED
    BY <2>1 DEF VInv, FInv
<1>3. Local(p)
  BY DEF VInv, TypeOK, PInv, Ready, Local
<1>4. PInv(p)'
  <2>1. st[p] = "open" /\ pc[p] = "idle" /\ Writing(p) /\ owner = p
    BY DEF VInv, TypeOK, PInv, Ready
  <2>2. pc'[p] = l /\ todo'[p].doc = d /\ todo'[p].line = line
    BY DEF VInv, TypeOK
  <2>3. Writing(p)'
    BY <2>1, <2>2 DEF Writing
  <2> QED
    BY <2>1, <2>3 DEF PInv
<1> QED
  BY <1>1, <1>2, <1>3, <1>4, Frame

LEMMA InitInv ==
  ASSUME VInv, NEW p \in Procs, NEW c \in Creds, Init(p, c)
  PROVE  VInv'
<1> DEFINE d == [id |-> drawn', wraps |-> [x \in {c} |-> drawn'], items |-> [n \in {} |-> 0]]
           line == Line("init", drawn', c)
<1>1. drawn \in 0..MaxVaults /\ drawn' = drawn + 1 /\ drawn' \in Ids
  BY VaultAssumption DEF Init, VInv, TypeOK, Ids
<1>2. Sound(d) /\ DOMAIN d.wraps = {c} /\ DOMAIN d.items = {}
  BY <1>1, CreateSound
<1>3. line \in auditEntry
  BY <1>1 DEF Line, auditEntry, Events
<1>4. Change(doc[p], d, line)
  BY <1>2 DEF Change, Created, Init, Line
<1>5. ASSUME NEW b \in back PROVE b = None \/ b.id < d.id
  <2>1. Sound(b) => b.id \in Nat
    BY IdsNat DEF Sound, document
  <2>2. b = None \/ (Sound(b) /\ b.id <= drawn)
    BY DEF VInv, FInv, Known
  <2> QED
    BY <1>1, <2>1, <2>2
<1>6. Ready(p) /\ drawn' <= MaxVaults /\ d.id <= drawn'
  BY <1>1, VaultAssumption DEF Init, Ids
<1> HIDE DEF d, line
<1>7. /\ pc' = [pc EXCEPT ![p] = "audit"]
      /\ todo' = [todo EXCEPT ![p] = [doc |-> d, line |-> line]]
      /\ UNCHANGED <<disk, back, tail, owner, st, doc, key, asked>>
  BY DEF Init, commit, d, line
<1> QED
  BY <1>1, <1>3, <1>4, <1>5, <1>6, <1>7, BeginInv

LEMMA AddWrapInv ==
  ASSUME VInv, NEW p \in Procs, NEW c \in Creds, NEW right \in BOOLEAN, NEW new \in Creds,
         AddWrap(p, c, right, new)
  PROVE  VInv'
<1> DEFINE d == [doc[p] EXCEPT !.wraps = With(@, new, doc[p].id)]
           line == Line("add-wrap", doc[p].id, new)
<1>1. Ready(p) /\ doc[p] # None
  BY DEF AddWrap
<1>2. CASE prove(p, c, right) /\ new \notin DOMAIN doc[p].wraps
           /\ Cardinality(DOMAIN doc[p].wraps) < MaxWraps
           /\ commit(p, [doc[p] EXCEPT !.wraps = With(@, new, Wrapped(p, c))],
                     Line("add-wrap", doc[p].id, new))
           /\ UNCHANGED <<disk, back, tail, owner, st, doc, key, asked, drawn>>
  <2>1. Wrapped(p, c) = doc[p].id /\ Sound(doc[p]) /\ doc[p].id <= drawn /\ doc[p].id \in Ids
    BY <1>1, <1>2, OpenDoc
  <2>2. Sound(d) /\ d.id = doc[p].id /\ d.items = doc[p].items /\ d.wraps = With(doc[p].wraps, new, doc[p].id)
    BY <1>2, <2>1, EnrolSound
  <2>3. line \in auditEntry
    BY <2>1 DEF Line, auditEntry, Events
  <2>4. Change(doc[p], d, line)
    BY <1>1, <1>2, <2>2 DEF Change, Enrolled, Line
  <2> HIDE DEF d, line
  <2>5. /\ pc' = [pc EXCEPT ![p] = "audit"]
        /\ todo' = [todo EXCEPT ![p] = [doc |-> d, line |-> line]]
    BY <1>2, <2>1 DEF commit, d, line
  <2>6. drawn' = drawn /\ drawn <= MaxVaults
    BY <1>2, VaultAssumption DEF VInv, TypeOK
  <2> QED
    BY <1>1, <1>2, <2>1, <2>2, <2>3, <2>4, <2>5, <2>6, BeginInv
<1>3. CASE auditDenied
  BY <1>1, <1>3, DeniedInv
<1> QED
  BY <1>2, <1>3 DEF AddWrap

LEMMA RemoveWrapInv ==
  ASSUME VInv, NEW p \in Procs, NEW c \in Creds, NEW right \in BOOLEAN, NEW target \in Creds,
         RemoveWrap(p, c, right, target)
  PROVE  VInv'
<1> DEFINE d == [doc[p] EXCEPT !.wraps = Restrict(@, DOMAIN @ \ {target})]
           line == Line("remove-wrap", doc[p].id, target)
<1>1. Ready(p) /\ doc[p] # None /\ c # target
  BY DEF RemoveWrap
<1>2. CASE prove(p, c, right) /\ target \in DOMAIN doc[p].wraps
           /\ commit(p, d, line)
           /\ UNCHANGED <<disk, back, tail, owner, st, doc, key, asked, drawn>>
  <2>1. /\ Sound(doc[p]) /\ doc[p].id <= drawn /\ doc[p].id \in Ids
        /\ c \in DOMAIN doc[p].wraps
    BY <1>1, <1>2, OpenDoc
  <2>2. DOMAIN doc[p].wraps # {target}
    BY <1>1, <2>1
  <2>3. /\ Sound(d) /\ d.id = doc[p].id /\ d.items = doc[p].items
        /\ d.wraps = Restrict(doc[p].wraps, DOMAIN doc[p].wraps \ {target})
    BY <1>2, <2>1, <2>2, WithdrawSound
  <2>4. line \in auditEntry
    BY <2>1 DEF Line, auditEntry, Events
  <2>5. Change(doc[p], d, line)
    BY <1>1, <1>2, <2>2, <2>3 DEF Change, Withdrawn, Line
  <2> HIDE DEF d, line
  <2>6. /\ pc' = [pc EXCEPT ![p] = "audit"]
        /\ todo' = [todo EXCEPT ![p] = [doc |-> d, line |-> line]]
    BY <1>2 DEF commit
  <2>7. drawn' = drawn /\ drawn <= MaxVaults
    BY <1>2, VaultAssumption DEF VInv, TypeOK
  <2> QED
    BY <1>1, <1>2, <2>1, <2>3, <2>4, <2>5, <2>6, <2>7, BeginInv
<1>3. CASE auditDenied
  BY <1>1, <1>3, DeniedInv
<1> QED
  BY <1>2, <1>3 DEF RemoveWrap

LEMMA PutItemInv ==
  ASSUME VInv, NEW p \in Procs, NEW n \in Names, putItem(p, n)
  PROVE  VInv'
<1> DEFINE d == [doc[p] EXCEPT !.items = With(@, n, key[p])]
<1>1. Ready(p) /\ doc[p] # None /\ key[p] # 0
  BY DEF putItem
<1>2. Sound(doc[p]) /\ doc[p].id <= drawn /\ doc[p].id \in Ids /\ key[p] = doc[p].id
  BY <1>1, OpenDoc
<1>3. /\ Sound(d) /\ d.id = doc[p].id /\ d.wraps = doc[p].wraps
      /\ DOMAIN d.items = DOMAIN doc[p].items \cup {n}
  BY <1>2, KeepSound DEF putItem
<1>4. NoLine \in auditEntry
  BY DEF NoLine, Line, auditEntry, Events
<1>5. Change(doc[p], d, NoLine)
  BY <1>1, <1>3 DEF Change, Kept
<1> HIDE DEF d
<1>6. /\ pc' = [pc EXCEPT ![p] = "write"]
      /\ todo' = [todo EXCEPT ![p] = [doc |-> d, line |-> NoLine]]
      /\ UNCHANGED <<disk, back, tail, owner, st, doc, key, asked, drawn>>
  BY DEF putItem, d
<1>7. drawn' = drawn /\ drawn <= MaxVaults
  BY <1>6, VaultAssumption DEF VInv, TypeOK
<1> QED
  BY <1>1, <1>2, <1>3, <1>4, <1>5, <1>6, <1>7, BeginInv

(* The steps of an operation that leave vault.json alone.                  *)
LEMMA NoteFrame ==
  ASSUME VInv, NEW p \in Procs, st[p] = "open", pc[p] # "idle",
         UNCHANGED <<disk, back, doc, key, drawn>>, tail' \in auditEntry,
         pc[p] = "sync" => FALSE,
         \/ Return(p)
         \/ Goto(p, "note") /\ UNCHANGED <<todo, st, owner, asked>>
  PROVE  VInv'
<1>1. TypeOK'
  BY ReturnStep DEF VInv, TypeOK, Goto
<1>2. FInv'
  BY SameFiles DEF VInv
<1>3. owner = p /\ st'[p] = "open" /\ owner' = p /\ pc'[p] \in {"idle", "note"} /\ Writing(p)
  BY ReturnStep DEF VInv, TypeOK, PInv, Goto
<1>4. Local(p)
  BY <1>3, ReturnStep DEF Local, VInv, TypeOK, Goto
<1>5. PInv(p)'
  BY <1>3 DEF PInv, Writing
<1> QED
  BY <1>1, <1>2, <1>4, <1>5, Frame

(* A Reset that ends, for whatever reason.                                 *)
LEMMA ResetEnds ==
  ASSUME VInv, NEW p \in Procs, st[p] = "reset", Return(p),
         UNCHANGED <<disk, doc, key, drawn>>, tail' \in auditEntry,
         back' \in {back, {disk}}
  PROVE  VInv'
<1>0. pc[p] # "idle"
  BY DEF VInv, PInv, Resetting
<1>1. TypeOK'
  <2>1. /\ todo' \in [Procs -> [doc : document \cup {None}, line : auditEntry]]
        /\ st' \in [Procs -> {"off", "open", "reset"}]
        /\ owner' \in Procs \cup {NoOne}
        /\ asked' \in [Procs -> Ids \cup {unknown, None}]
        /\ pc' = [pc EXCEPT ![p] = "idle"]
    BY <1>0, ReturnStep
  <2>2. back' \subseteq document \cup {None}
    BY DEF VInv, TypeOK
  <2> QED
    BY <2>1, <2>2 DEF VInv, TypeOK
<1>2. FInv'
  BY DEF VInv, FInv, Known
<1>3. owner = p /\ st'[p] = "off" /\ pc'[p] = "idle" /\ doc'[p] = None /\ key'[p] = 0
  BY <1>0, ReturnStep DEF VInv, TypeOK, PInv
<1>4. Local(p)
  BY <1>0, <1>3, ReturnStep DEF Local, VInv, TypeOK
<1>5. PInv(p)'
  BY <1>3 DEF PInv
<1> QED
  BY <1>1, <1>2, <1>4, <1>5, Frame

LEMMA AppendAuditInv ==
  ASSUME VInv, NEW p \in Procs, appendAudit(p)
  PROVE  VInv'
<1>1. /\ pc[p] = "audit" /\ st[p] \in {"open", "reset"} /\ owner = p /\ todo[p].line \in auditEntry
      /\ tail \in auditEntry /\ tail' \in {tail, todo[p].line}
  BY DEF appendAudit, VInv, TypeOK, PInv
<1>2. CASE /\ tail' = todo[p].line
           /\ Goto(p, IF st[p] = "reset" THEN "remove" ELSE "write")
           /\ UNCHANGED <<todo, st, owner, asked>>
  <2>1. UNCHANGED <<disk, back, doc, key, drawn>>
    BY DEF appendAudit
  <2>2. TypeOK'
    BY <1>1, <1>2, <2>1 DEF VInv, TypeOK, Goto
  <2>3. FInv'
    BY <2>1, SameFiles DEF VInv
  <2>4. Local(p)
    BY <1>1, <1>2, <2>1 DEF Local, VInv, TypeOK, Goto
  <2>5. PInv(p)'
    <3>1. CASE st[p] = "open"
      <4>1. pc'[p] = "write" /\ Writing(p)
        BY <1>2, <3>1 DEF VInv, TypeOK, PInv, Goto
      <4> QED
        BY <1>1, <1>2, <2>1, <3>1, <4>1 DEF PInv, Writing
    <3>2. CASE st[p] = "reset"
      <4>1. pc'[p] = "remove" /\ Resetting(p) /\ doc[p] = None /\ key[p] = 0
        BY <1>2, <3>2 DEF VInv, TypeOK, PInv, Goto
      <4> QED
        BY <1>1, <1>2, <2>1, <3>2, <4>1 DEF PInv, Resetting, readVaultID, Line
    <3> QED
      BY <1>1, <3>1, <3>2
  <2> QED
    BY <2>2, <2>3, <2>4, <2>5, Frame
<1>3. CASE Return(p)
  BY <1>1, <1>3, NoteFrame, ResetEnds DEF appendAudit
<1> QED
  BY <1>2, <1>3 DEF appendAudit

LEMMA WriteTmpInv ==
  ASSUME VInv, NEW p \in Procs, WriteTmp(p)
  PROVE  VInv'
<1>1. /\ pc[p] = "write" /\ st[p] = "open" /\ owner = p /\ Writing(p)
      /\ UNCHANGED <<disk, back, tail, doc, key, drawn>>
  BY DEF WriteTmp, VInv, TypeOK, PInv, Resetting
<1>2. CASE Goto(p, "rename") /\ UNCHANGED <<todo, st, owner, asked>>
  <2>1. pc'[p] = "rename" /\ TypeOK'
    BY <1>1, <1>2 DEF VInv, TypeOK, Goto
  <2>2. FInv'
    BY <1>1, SameFiles DEF VInv
  <2>3. Local(p)
    BY <1>1, <1>2 DEF Local, VInv, TypeOK, Goto
  <2>4. PInv(p)'
    BY <1>1, <1>2, <2>1 DEF PInv, Writing
  <2> QED
    BY <2>1, <2>2, <2>3, <2>4, Frame
<1>3. CASE Note(p)
  <2>1. tail' \in auditEntry
    BY <1>1 DEF VInv, TypeOK
  <2> QED
    BY <1>1, <1>3, <2>1, NoteFrame DEF Note
<1> QED
  BY <1>2, <1>3 DEF WriteTmp

LEMMA NoteFailureInv ==
  ASSUME VInv, NEW p \in Procs, NoteFailure(p)
  PROVE  VInv'
<1>1. pc[p] = "note" /\ st[p] = "open"
  BY DEF NoteFailure, VInv, TypeOK, PInv, Resetting
<1>2. tail' \in auditEntry
  BY DEF NoteFailure, VInv, TypeOK, Remark, Line, auditEntry, Events
<1> QED
  BY <1>1, <1>2, NoteFrame DEF NoteFailure

(* The new document is the one that was announced.                         *)
LEMMA RenameInv ==
  ASSUME VInv, NEW p \in Procs, Rename(p)
  PROVE  VInv'
<1>1. /\ pc[p] = "rename" /\ st[p] = "open" /\ owner = p /\ Writing(p)
      /\ UNCHANGED <<tail, doc, key, drawn>>
  BY DEF Rename, VInv, TypeOK, PInv, Resetting
<1>2. CASE /\ disk' = todo[p].doc
           /\ back' = back \cup Survives(todo[p].doc)
           /\ Goto(p, "sync")
           /\ UNCHANGED <<todo, st, owner, asked>>
  <2>1. Change(doc[p], todo[p].doc, todo[p].line) /\ todo[p].doc.id <= drawn
    BY <1>1 DEF Writing
  <2>2. pc'[p] = "sync" /\ TypeOK'
    BY <1>1, <1>2, <2>1 DEF VInv, TypeOK, Goto, Survives, Change, Sound
  <2>3. FInv'
    <3>1. Known(todo[p].doc)
      BY <2>1 DEF Known, Change
    <3> QED
      BY <1>1, <1>2, <3>1 DEF VInv, FInv, Known, Survives
  <2>4. Local(p)
    BY <1>1, <1>2 DEF Local, VInv, TypeOK, Goto
  <2>5. PInv(p)'
    BY <1>1, <1>2, <2>1, <2>2 DEF PInv, Writing
  <2> QED
    BY <2>2, <2>3, <2>4, <2>5, Frame
<1>3. CASE UNCHANGED <<disk, back>> /\ Note(p)
  <2>1. tail' \in auditEntry
    BY <1>1 DEF VInv, TypeOK
  <2> QED
    BY <1>1, <1>3, <2>1, NoteFrame DEF Note
<1> QED
  BY <1>2, <1>3 DEF Rename

LEMMA SyncInv ==
  ASSUME VInv, NEW p \in Procs, Sync(p)
  PROVE  VInv'
<1>1. /\ pc[p] = "sync" /\ st[p] \in {"open", "reset"} /\ owner = p
      /\ UNCHANGED <<disk, tail, drawn>> /\ tail' \in auditEntry
      /\ back' \in {back, {disk}}
      /\ doc' = [doc EXCEPT ![p] = IF st[p] = "open" THEN todo[p].doc ELSE @]
  BY DEF Sync, VInv, TypeOK, PInv, Applied
<1>2. CASE st[p] = "reset"
  <2>1. Return(p)
    BY <1>2 DEF Sync, Note
  <2>2. todo[p].line.ev # "init"
    <3>1. todo[p] = [doc |-> None, line |-> Line("reset", asked[p], None)]
      BY <1>2 DEF VInv, PInv, Resetting
    <3> QED
      BY <3>1 DEF Line
  <2>3. UNCHANGED <<doc, key>>
    BY <1>1, <1>2, <2>2 DEF Sync, VInv, TypeOK
  <2> QED
    BY <1>1, <1>2, <2>1, <2>3, ResetEnds
<1>3. CASE st[p] = "open"
  <2>1. /\ Writing(p) /\ disk = todo[p].doc /\ doc'[p] = disk
        /\ Change(doc[p], disk, todo[p].line)
    BY <1>1, <1>3 DEF VInv, TypeOK, PInv, Writing
  <2>2. disk \in document /\ disk.id \in Ids /\ disk # None
    BY <2>1, NotNone DEF Change, Sound, document
  <2>3. \/ key' = key
        \/ todo[p].line.ev = "init" /\ key' = [key EXCEPT ![p] = disk.id]
    BY <2>1 DEF Sync
  <2>4. Return(p) \/ (Goto(p, "note") /\ UNCHANGED <<todo, st, owner, asked>>)
    BY DEF Sync, Note
  <2>5. TypeOK'
    <3>1. /\ todo' \in [Procs -> [doc : document \cup {None}, line : auditEntry]]
          /\ st' \in [Procs -> {"off", "open", "reset"}]
          /\ owner' \in Procs \cup {NoOne}
          /\ asked' \in [Procs -> Ids \cup {unknown, None}]
          /\ pc' \in [Procs -> {"idle", "audit", "write", "rename", "sync", "note",
                                "remove", "removetmp"}]
      BY <1>1, <2>4, ReturnStep DEF VInv, TypeOK, Goto
    <3>2. key' \in [Procs -> Ids \cup {0}]
      BY <2>2, <2>3 DEF VInv, TypeOK
    <3>3. doc' \in [Procs -> document \cup {None}]
      BY <1>1, <1>3, <2>1, <2>2 DEF VInv, TypeOK
    <3>4. disk' \in document \cup {None} /\ back' \subseteq document \cup {None}
      BY <1>1, <2>2 DEF VInv, TypeOK
    <3> QED
      BY <1>1, <3>1, <3>2, <3>3, <3>4 DEF VInv, TypeOK
  <2>6. FInv'
    BY <1>1 DEF VInv, FInv, Known
  <2>7. st'[p] = "open" /\ owner' = p /\ pc'[p] \in {"idle", "note"}
    BY <1>1, <1>3, <2>4, ReturnStep DEF VInv, TypeOK, Goto
  <2>8. Local(p)
    <3>1. \A q \in Procs \ {p} : /\ st'[q] = st[q] /\ todo'[q] = todo[q]
                                 /\ asked'[q] = asked[q] /\ pc'[q] = pc[q]
      BY <1>1, <2>4, ReturnStep DEF VInv, TypeOK, Goto
    <3>2. \A q \in Procs \ {p} : doc'[q] = doc[q] /\ key'[q] = key[q]
      BY <1>1, <2>3 DEF VInv, TypeOK
    <3> QED
      BY <1>1, <3>1, <3>2 DEF Local
  <2>9. PInv(p)'
    <3>1. key'[p] # 0 => key'[p] = disk.id
      <4>1. CASE key' = key
        <5>1. key[p] # 0 => doc[p] # None /\ key[p] = doc[p].id
          BY <2>1 DEF Writing
        <5>2. doc[p] # None => disk.id = doc[p].id
          BY <2>1 DEF Change, Created, Enrolled, Withdrawn, Kept
        <5> QED
          BY <4>1, <5>1, <5>2
      <4>2. CASE key' = [key EXCEPT ![p] = disk.id]
        BY <4>2 DEF VInv, TypeOK
      <4> QED
        BY <2>3, <4>1, <4>2
    <3> QED
      BY <1>1, <2>1, <2>2, <2>7, <3>1 DEF PInv, Writing
  <2> QED
    BY <2>5, <2>6, <2>8, <2>9, Frame
<1> QED
  BY <1>1, <1>2, <1>3

LEMMA PeekInv ==
  ASSUME VInv, NEW p \in Procs, PeekID(p)
  PROVE  VInv'
<1>1. TypeOK'
  BY DEF VInv, TypeOK, PeekID, readVaultID, document, unknown
<1>2. FInv'
  BY SameFiles DEF VInv, PeekID
<1>3. Local(p)
  BY DEF VInv, TypeOK, Local, PeekID
<1>4. PInv(p)'
  BY DEF VInv, PInv, PeekID
<1> QED
  BY <1>1, <1>2, <1>3, <1>4, Frame

LEMMA ResetInv ==
  ASSUME VInv, NEW p \in Procs, Reset(p)
  PROVE  VInv'
<1>1. CASE Forget(p)
  BY <1>1, ForgetInv DEF Reset
<1>2. CASE /\ lockDir(p)
           /\ readVaultID = asked[p]
           /\ st' = [st EXCEPT ![p] = "reset"]
           /\ commit(p, None, Line("reset", asked[p], None))
           /\ UNCHANGED <<doc, key, asked>>
  <2>1. UNCHANGED <<disk, back, tail, drawn>> /\ st[p] = "off" /\ asked[p] # None
    BY DEF Reset
  <2>2. Line("reset", asked[p], None) \in auditEntry
    BY <2>1 DEF Line, auditEntry, Events, VInv, TypeOK, unknown
  <2>3. TypeOK'
    BY <1>2, <2>1, <2>2 DEF VInv, TypeOK, lockDir, commit
  <2>4. FInv'
    BY <2>1, SameFiles DEF VInv
  <2>5. Local(p)
    BY <1>2 DEF VInv, TypeOK, Local, lockDir, commit
  <2>6. PInv(p)'
    <3>1. /\ st'[p] = "reset" /\ owner' = p /\ pc'[p] = "audit"
          /\ todo'[p] = [doc |-> None, line |-> Line("reset", asked[p], None)]
      BY <1>2 DEF VInv, TypeOK, lockDir, commit
    <3>2. doc[p] = None /\ key[p] = 0
      BY <2>1 DEF VInv, PInv
    <3> QED
      BY <1>2, <2>1, <3>1, <3>2 DEF PInv, Resetting, readVaultID, Line
  <2> QED
    BY <2>3, <2>4, <2>5, <2>6, Frame
<1> QED
  BY <1>1, <1>2 DEF Reset

LEMMA RemoveFileInv ==
  ASSUME VInv, NEW p \in Procs, RemoveFile(p)
  PROVE  VInv'
<1>1. /\ pc[p] = "remove" /\ st[p] = "reset" /\ owner = p /\ Resetting(p)
      /\ doc[p] = None /\ key[p] = 0
      /\ UNCHANGED <<tail, doc, key, drawn>>
  BY DEF RemoveFile, VInv, TypeOK, PInv, Writing
<1>2. CASE /\ disk' = None
           /\ back' = back \cup {None}
           /\ Goto(p, "removetmp")
           /\ UNCHANGED <<todo, st, owner, asked>>
  <2>1. pc'[p] = "removetmp" /\ TypeOK'
    BY <1>1, <1>2 DEF VInv, TypeOK, Goto
  <2>2. FInv'
    BY <1>1, <1>2 DEF VInv, FInv, Known
  <2>3. Local(p)
    BY <1>1, <1>2 DEF Local, VInv, TypeOK, Goto
  <2>4. PInv(p)'
    BY <1>1, <1>2, <2>1 DEF PInv, Resetting, Line
  <2> QED
    BY <2>1, <2>2, <2>3, <2>4, Frame
<1>3. CASE Return(p) /\ UNCHANGED <<disk, back>>
  <2>1. tail' \in auditEntry
    BY <1>1 DEF VInv, TypeOK
  <2> QED
    BY <1>1, <1>3, <2>1, ResetEnds
<1> QED
  BY <1>2, <1>3 DEF RemoveFile

LEMMA RemoveTmpInv ==
  ASSUME VInv, NEW p \in Procs, RemoveTmp(p)
  PROVE  VInv'
<1>1. /\ pc[p] = "removetmp" /\ st[p] = "reset" /\ owner = p /\ Resetting(p)
      /\ doc[p] = None /\ key[p] = 0
      /\ UNCHANGED <<disk, back, tail, doc, key, drawn>>
  BY DEF RemoveTmp, VInv, TypeOK, PInv, Writing
<1>2. CASE Goto(p, "sync") /\ UNCHANGED <<todo, st, owner, asked>>
  <2>1. pc'[p] = "sync" /\ TypeOK'
    BY <1>1, <1>2 DEF VInv, TypeOK, Goto
  <2>2. FInv'
    BY <1>1, SameFiles DEF VInv
  <2>3. Local(p)
    BY <1>1, <1>2 DEF Local, VInv, TypeOK, Goto
  <2>4. PInv(p)'
    BY <1>1, <1>2, <2>1 DEF PInv, Resetting, Line
  <2> QED
    BY <2>1, <2>2, <2>3, <2>4, Frame
<1>3. CASE Return(p)
  <2>1. tail' \in auditEntry
    BY <1>1 DEF VInv, TypeOK
  <2> QED
    BY <1>1, <1>3, <2>1, ResetEnds
<1> QED
  BY <1>2, <1>3 DEF RemoveTmp

LEMMA PowerLossInv ==
  ASSUME VInv, PowerLoss
  PROVE  VInv'
<1>1. PICK d \in back : disk' = d /\ back' = {d}
  BY DEF PowerLoss
<1>2. TypeOK'
  BY <1>1 DEF PowerLoss, VInv, TypeOK, Idle, NoLine, Line, auditEntry, Events
<1>3. FInv'
  BY <1>1 DEF PowerLoss, VInv, FInv, Known
<1>4. ASSUME NEW p \in Procs PROVE PInv(p)'
  BY DEF PowerLoss, PInv
<1> QED
  BY <1>2, <1>3, <1>4 DEF VInv

-----------------------------------------------------------------------------
LEMMA InitVInv == Init0 => VInv
<1> SUFFICES ASSUME Init0 PROVE VInv
  OBVIOUS
<1>1. TypeOK
  BY VaultAssumption DEF Init0, TypeOK, Idle, NoLine, Line, auditEntry, Events
<1>2. FInv
  BY DEF Init0, FInv, Known
<1>3. ASSUME NEW p \in Procs PROVE PInv(p)
  BY DEF Init0, PInv
<1> QED
  BY <1>1, <1>2, <1>3 DEF VInv

LEMMA StepVInv == VInv /\ [Next]_vars => VInv'
<1> SUFFICES ASSUME VInv, [Next]_vars PROVE VInv'
  OBVIOUS
<1>1. ASSUME NEW p \in Procs, Step(p) PROVE VInv'
  <2>1. CASE Close(p) \/ Kill(p)
    BY <2>1, ForgetInv DEF Close, Kill
  <2>2. CASE \E c \in Creds : Init(p, c)
    BY <2>2, InitInv
  <2>3. CASE \E c \in Creds, right \in BOOLEAN : Unlock(p, c, right)
    BY <2>3, UnlockInv
  <2>4. CASE \E c \in Creds, right \in BOOLEAN, t \in Creds : AddWrap(p, c, right, t)
    BY <2>4, AddWrapInv
  <2>5. CASE \E c \in Creds, right \in BOOLEAN, t \in Creds : RemoveWrap(p, c, right, t)
    BY <2>5, RemoveWrapInv
  <2>6. CASE \E n \in Names : putItem(p, n)
    BY <2>6, PutItemInv
  <2> QED
    BY <1>1, <2>1, <2>2, <2>3, <2>4, <2>5, <2>6, OpenInv, LockInv, AppendAuditInv, WriteTmpInv,
       RenameInv, SyncInv, NoteFailureInv, PeekInv, ResetInv, RemoveFileInv, RemoveTmpInv
       DEF Step
<1>2. CASE PowerLoss
  BY <1>2, PowerLossInv
<1>3. CASE UNCHANGED vars
  <2>1. TypeOK' /\ FInv'
    BY <1>3, SameFiles DEF vars, VInv, TypeOK
  <2>2. ASSUME NEW p \in Procs PROVE PInv(p)'
    BY <1>3 DEF vars, VInv, PInv, Writing, Resetting, readVaultID, Line
  <2> QED
    BY <2>1, <2>2 DEF VInv
<1> QED
  BY <1>1, <1>2, <1>3 DEF Next

LEMMA AlwaysVInv == Spec => []VInv
  BY InitVInv, StepVInv, PTL DEF Spec

(* The state of every file and process stays within its type, for any      *)
(* number of processes, passkeys, entries and vaults.                      *)
THEOREM TypeCorrect == Spec => []TypeOK
  BY AlwaysVInv, PTL DEF VInv

(* Whatever is on the disk, or comes back after a loss of power, is a      *)
(* vault that Open accepts, with at least one passkey, and every passkey   *)
(* in it yields the key of every entry (loadDocument, document.validate).  *)
Opens(d) ==
  d # None => /\ loadDocument(d) /\ DOMAIN d.wraps # {}
              /\ \A c \in DOMAIN d.wraps, n \in DOMAIN d.items :
                   getItem(d, unwrapBodyKey(d.wraps[c], TRUE), n)
NoLockout == \A d \in back \cup {disk} : Opens(d)

(* No sequence of operations, failed syncs, kills and losses of power      *)
(* leaves a vault that cannot be opened with each of its passkeys.         *)
THEOREM VaultNeverLockedOut == Spec => []NoLockout
<1>1. VInv => NoLockout
  BY DEF VInv, FInv, Known, Sound, validate, NoLockout, Opens, loadDocument, getItem, openItem,
         unwrapBodyKey
<1> QED
  BY <1>1, AlwaysVInv, PTL

(* Reset and every operation of an open vault run alone: at most one       *)
(* process is inside (lockDir).                                            *)
OneInside == \A p, q \in Procs : st[p] # "off" /\ st[q] # "off" => p = q

(* The flock is enough for that although Kill and PowerLoss release it at  *)
(* any point of an operation.                                              *)
THEOREM VaultMutualExclusion == Spec => []OneInside
<1>1. VInv => OneInside
  BY DEF VInv, PInv, OneInside
<1> QED
  BY <1>1, AlwaysVInv, PTL

-----------------------------------------------------------------------------
(* What a step does to the files.                                          *)
Renamed(p) ==
  /\ st[p] = "open" /\ st'[p] = "open"
  /\ Change(disk, disk', todo[p].line)
  /\ todo[p].line \in {tail, NoLine}
  /\ disk = None => \A d \in back : d = None \/ d.id < disk'.id
  /\ back' = back \cup {disk'}
Removed(p) ==
  /\ st[p] = "reset" /\ asked[p] = readVaultID
  /\ tail = Line("reset", readVaultID, None)
  /\ disk' = None /\ back' = back \cup {None}
Confirmed == disk' = disk /\ back' = {disk}
Lost == /\ \A p \in Procs : st'[p] = "off"
        /\ \E d \in back : disk' = d /\ back' = {d}

LEMMA FileChange ==
  ASSUME VInv, [Next]_vars
  PROVE  \/ UNCHANGED files
         \/ \E p \in Procs : Renamed(p) \/ Removed(p)
         \/ Confirmed
         \/ Lost
<1>1. ASSUME NEW p \in Procs, Step(p), ~UNCHANGED files
      PROVE  Renamed(p) \/ Removed(p) \/ Confirmed
  <2>1. Rename(p) \/ RemoveFile(p) \/ Sync(p)
    BY <1>1 DEF Step, files, Open, Close, Lock, Init, Unlock, AddWrap, RemoveWrap, putItem,
                auditDenied, appendAudit, WriteTmp, NoteFailure, PeekID, Reset, RemoveTmp, Kill
  <2>2. CASE Rename(p)
    <3>1. /\ disk' = todo[p].doc /\ back' = back \cup {todo[p].doc}
          /\ pc[p] = "rename" /\ st' = st
      BY <1>1, <2>2 DEF Rename, files, Survives
    <3>2. st[p] = "open" /\ Writing(p)
      BY <3>1 DEF VInv, TypeOK, PInv, Resetting
    <3> QED
      BY <3>1, <3>2 DEF Writing, Renamed
  <2>3. CASE RemoveFile(p)
    <3>1. disk' = None /\ back' = back \cup {None} /\ pc[p] = "remove"
      BY <1>1, <2>3 DEF RemoveFile, files
    <3>2. st[p] = "reset" /\ Resetting(p)
      BY <3>1 DEF VInv, TypeOK, PInv, Writing
    <3>3. asked[p] = readVaultID /\ tail = Line("reset", asked[p], None)
      BY <3>1, <3>2 DEF Resetting
    <3> QED
      BY <3>1, <3>2, <3>3 DEF Removed
  <2>4. CASE Sync(p)
    BY <1>1, <2>4 DEF Sync, files, Confirmed
  <2> QED
    BY <2>1, <2>2, <2>3, <2>4
<1>2. CASE PowerLoss
  BY <1>2 DEF PowerLoss, Lost
<1> QED
  BY <1>1, <1>2 DEF Next, vars, files

(* The document before and after a rename.                                 *)
LEMMA Documents ==
  ASSUME VInv, NEW new, NEW line, Change(disk, new, line)
  PROVE  /\ new # None /\ Sound(new)
         /\ disk # None => Sound(disk)
  BY NotNone DEF VInv, FInv, Known, Change, Sound

LEMMA RenameTold ==
  ASSUME VInv, NEW p \in Procs, Renamed(p), Passkeys(disk') # Passkeys(disk)
  PROVE  Tells(tail, disk, disk')
<1> DEFINE line == todo[p].line
<1>1. Change(disk, disk', line) /\ line \in {tail, NoLine}
  BY DEF Renamed
<1>2. disk' # None /\ Sound(disk') /\ (disk # None => Sound(disk))
  BY <1>1, Documents
<1>3. ~Kept(disk, disk', line)
  BY <1>2 DEF Kept, Passkeys
<1>4. line = tail
  BY <1>1, <1>3 DEF Change, Created, Enrolled, Withdrawn, NoLine, Line
<1> HIDE DEF line
<1>5. CASE Created(disk, disk', line)
  BY <1>2, <1>4, <1>5 DEF Created, Tells
<1>6. CASE Enrolled(disk, disk', line)
  <2>1. disk'.wraps[line.target] = disk.id
    BY <1>6 DEF Enrolled, With
  <2> QED
    BY <1>2, <1>4, <1>6, <2>1 DEF Enrolled, Tells
<1>7. CASE Withdrawn(disk, disk', line)
  BY <1>2, <1>4, <1>7 DEF Withdrawn, Tells
<1> QED
  BY <1>1, <1>3, <1>5, <1>6, <1>7 DEF Change

(* Who can open the vault never changes without its line in the audit log, *)
(* which is there before the change (Vault.commit, Reset).                 *)
THEOREM VaultAuditedFirst == Spec => AuditedFirst
<1>1. ASSUME VInv, [Next]_vars, Passkeys(disk') # Passkeys(disk), Alive
      PROVE  Tells(tail, disk, disk')
  <2>1. disk' # disk
    BY <1>1
  <2>2. ~Lost
    BY <1>1 DEF Lost, Alive
  <2>3. PICK p \in Procs : Renamed(p) \/ Removed(p)
    BY <1>1, <2>1, <2>2, FileChange DEF files, Confirmed
  <2>4. CASE Renamed(p)
    BY <1>1, <2>4, RenameTold
  <2>5. CASE Removed(p)
    <3>1. disk' = None /\ disk # None
      BY <2>1, <2>5 DEF Removed
    <3>2. tail = Line("reset", disk.id, None)
      BY <2>5, <3>1 DEF Removed, readVaultID
    <3> QED
      BY <3>1, <3>2 DEF Tells, Line
  <2> QED
    BY <2>3, <2>4, <2>5
<1>2. VInv /\ [Next]_vars =>
        [Passkeys(disk') # Passkeys(disk) /\ Alive => Tells(tail, disk, disk')]_vars
  BY <1>1
<1> QED
  BY <1>2, AlwaysVInv, PTL DEF Spec, AuditedFirst

(* Reset removes the vault whose ID was confirmed, though the confirmation *)
(* was given before the flock was taken (PeekID, Reset).                   *)
THEOREM VaultResetConfirmed == Spec => ResetConfirmed
<1>1. ASSUME VInv, [Next]_vars, disk # None, disk' = None, Alive
      PROVE  \E p \in Procs : st[p] = "reset" /\ asked[p] = disk.id
  <2>1. ~Lost
    BY <1>1 DEF Lost, Alive
  <2>2. PICK p \in Procs : Renamed(p) \/ Removed(p)
    BY <1>1, <2>1, FileChange DEF files, Confirmed
  <2>3. ~Renamed(p)
    BY <1>1, Documents DEF Renamed
  <2> QED
    BY <1>1, <2>2, <2>3 DEF Removed, readVaultID
<1>2. VInv /\ [Next]_vars =>
        [disk # None /\ disk' = None /\ Alive =>
           \E p \in Procs : st[p] = "reset" /\ asked[p] = disk.id]_vars
  BY <1>1
<1> QED
  BY <1>2, AlwaysVInv, PTL DEF Spec, ResetConfirmed

-----------------------------------------------------------------------------
(* The refinement: through its passkeys a sound document shows its names.  *)
LEMMA SeenSound ==
  ASSUME NEW d, Sound(d)
  PROVE  /\ Seen(d) = [id |-> d.id, creds |-> DOMAIN d.wraps, names |-> DOMAIN d.items]
         /\ Seen(d) # None
         /\ d # None
<1>1. d # None
  BY NotNone DEF Sound
<1>2. DOMAIN d.items \subseteq Names /\ DOMAIN d.wraps \subseteq Creds /\ d.id \in Nat
  BY MapElim, IdsNat DEF Sound, document, Entries, Wrappings
<1>3. {n \in Names : \A c \in DOMAIN d.wraps : getItem(d, unwrapBodyKey(d.wraps[c], TRUE), n)}
        = DOMAIN d.items
  BY <1>2 DEF Sound, validate, getItem, openItem, unwrapBodyKey
<1>4. Seen(d) = [id |-> d.id, creds |-> DOMAIN d.wraps, names |-> DOMAIN d.items]
  BY <1>1, <1>3 DEF Seen
<1> QED
  BY <1>1, <1>2, <1>4, VaultAssumption

LEMMA RenameImplements ==
  ASSUME VInv, NEW p \in Procs, Renamed(p)
  PROVE  Promise!ANext
<1> DEFINE line == todo[p].line
           new == disk'
           shown == Seen(disk)
           past == {Seen(d) : d \in back}
<1>1. Change(disk, new, line)
  BY DEF Renamed
<1>2. new # None /\ Sound(new) /\ (disk # None => Sound(disk))
  BY <1>1, Documents
<1>3. /\ Seen(new) = [id |-> new.id, creds |-> DOMAIN new.wraps, names |-> DOMAIN new.items]
      /\ new.id \in Ids
  BY <1>2, SeenSound DEF Sound, document
<1>4. {Seen(d) : d \in back'} = past \cup {Seen(new)}
  BY DEF Renamed
<1>5. Promise!Replace(Seen(new))
  BY <1>4 DEF Promise!Replace
<1>6. CASE Created(disk, new, line)
  <2>1. PICK c \in Creds : DOMAIN new.wraps = {c}
    <3>1. DOMAIN new.wraps \subseteq Creds
      BY <1>2, MapElim DEF Sound, document, Wrappings
    <3> QED
      BY <1>6, <3>1 DEF Created
  <2>2. shown = None
    BY <1>6 DEF Created, Seen
  <2>3. ASSUME NEW e \in past, e # None PROVE e.id # new.id
    <3>1. PICK d \in back : e = Seen(d)
      BY <2>3
    <3>2. d # None
      BY <2>3, <3>1 DEF Seen
    <3>3. d.id < new.id /\ Sound(d)
      BY <1>6, <3>1, <3>2 DEF Created, Renamed, VInv, FInv, Known
    <3>4. e.id = d.id /\ d.id \in Nat /\ new.id \in Nat
      BY <1>3, <3>1, <3>3, SeenSound, IdsNat DEF Sound, document
    <3> QED
      BY <3>3, <3>4
  <2>4. Seen(new) = [id |-> new.id, creds |-> {c}, names |-> {}]
    BY <1>3, <1>6, <2>1 DEF Created
  <2>5. Promise!Create(new.id, c)
    BY <1>5, <2>2, <2>3, <2>4 DEF Promise!Create
  <2> QED
    BY <1>3, <2>5 DEF Promise!ANext
<1>7. ASSUME disk # None
      PROVE  /\ shown = [id |-> disk.id, creds |-> DOMAIN disk.wraps, names |-> DOMAIN disk.items]
             /\ shown # None
  BY <1>2, <1>7, SeenSound
<1>8. CASE Enrolled(disk, new, line)
  <2>1. /\ line.target \in Creds \ DOMAIN disk.wraps
        /\ DOMAIN new.wraps = DOMAIN disk.wraps \cup {line.target}
    BY <1>8 DEF Enrolled, With
  <2>2. Seen(new) = [shown EXCEPT !.creds = @ \cup {line.target}]
    BY <1>3, <1>7, <1>8, <2>1 DEF Enrolled
  <2>3. Promise!Enrol(line.target)
    BY <1>5, <1>7, <1>8, <2>1, <2>2 DEF Promise!Enrol, Enrolled
  <2> QED
    BY <2>1, <2>3 DEF Promise!ANext
<1>9. CASE Withdrawn(disk, new, line)
  <2>1. /\ line.target \in DOMAIN disk.wraps /\ DOMAIN disk.wraps # {line.target}
        /\ DOMAIN new.wraps = DOMAIN disk.wraps \ {line.target}
    BY <1>9 DEF Withdrawn, Restrict
  <2>2. line.target \in Creds
    BY <1>2, <1>9, <2>1, MapElim DEF Sound, document, Wrappings, Withdrawn
  <2>3. Seen(new) = [shown EXCEPT !.creds = @ \ {line.target}]
    BY <1>3, <1>7, <1>9, <2>1 DEF Withdrawn
  <2>4. Promise!Withdraw(line.target)
    BY <1>5, <1>7, <1>9, <2>1, <2>3 DEF Promise!Withdraw, Withdrawn
  <2> QED
    BY <2>2, <2>4 DEF Promise!ANext
<1>10. CASE Kept(disk, new, line)
  <2>1. PICK n \in Names : DOMAIN new.items = DOMAIN disk.items \cup {n}
    BY <1>10 DEF Kept
  <2>2. Seen(new) = [shown EXCEPT !.names = @ \cup {n}]
    BY <1>3, <1>7, <1>10, <2>1 DEF Kept
  <2>3. Promise!Keep(n)
    BY <1>5, <1>7, <1>10, <2>2 DEF Promise!Keep, Kept
  <2> QED
    BY <2>3 DEF Promise!ANext
<1> QED
  BY <1>1, <1>6, <1>8, <1>9, <1>10 DEF Change

LEMMA StepImplements ==
  ASSUME VInv, [Next]_vars
  PROVE  [Promise!ANext]_(Promise!avars)
<1>1. CASE UNCHANGED files
  BY <1>1 DEF files, Promise!avars
<1>2. ASSUME NEW p \in Procs, Renamed(p) PROVE Promise!ANext
  BY <1>2, RenameImplements
<1>3. ASSUME NEW p \in Procs, Removed(p) PROVE [Promise!ANext]_(Promise!avars)
  <2>1. disk' = None /\ back' = back \cup {None} /\ disk \in back /\ Seen(None) = None
    BY <1>3 DEF Removed, VInv, FInv, Seen
  <2>2. CASE disk = None
    <3>1. back' = back
      BY <2>1, <2>2
    <3> QED
      BY <2>1, <2>2, <3>1 DEF Promise!avars
  <2>3. CASE disk # None
    <3>1. Seen(disk) # None
      BY <2>1, <2>3, SeenSound DEF VInv, FInv, Known
    <3>2. {Seen(d) : d \in back'} = {Seen(d) : d \in back} \cup {None}
      BY <2>1
    <3>3. Promise!Destroy
      BY <2>1, <3>1, <3>2 DEF Promise!Destroy, Promise!Replace
    <3> QED
      BY <3>3 DEF Promise!ANext
  <2> QED
    BY <2>2, <2>3
<1>4. CASE Confirmed
  <2>1. Promise!Confirm
    BY <1>4 DEF Confirmed, Promise!Confirm
  <2> QED
    BY <2>1 DEF Promise!ANext
<1>5. CASE Lost
  <2>1. Promise!LosePower
    BY <1>5 DEF Lost, Promise!LosePower
  <2> QED
    BY <2>1 DEF Promise!ANext
<1> QED
  BY <1>1, <1>2, <1>3, <1>4, <1>5, FileChange

LEMMA InitImplements == Init0 => Promise!AInit
  BY DEF Init0, Seen, Promise!AInit

(* The files and processes of the vault implement the document that is     *)
(* only ever replaced as a whole.                                          *)
THEOREM VaultRefinement == Spec => ImplementsAtomicVault
<1>1. VInv /\ [Next]_vars => [Promise!ANext]_(Promise!avars)
  BY StepImplements
<1> QED
  BY <1>1, AlwaysVInv, InitImplements, PTL DEF Spec, ImplementsAtomicVault, Promise!ASpec
=============================================================================
