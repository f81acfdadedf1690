---------------------------- MODULE AtomicVault ----------------------------
(* What the vault promises to the people whose passkeys open it, without the *)
(* temporary file, the lock, the audit log or the memory of any process: one *)
(* document that is replaced as a whole, that always has a passkey which     *)
(* opens it, and whose entries all its passkeys open.  A loss of power may   *)
(* take back changes that were not confirmed, never a part of one.           *)
EXTENDS FiniteSets

CONSTANTS Creds,   \* passkeys (credential IDs)
          Names,   \* names of the stored entries
          Ids,     \* identities of vaults: every Init draws a fresh one
          None     \* no document

VARIABLES shown,   \* the document a reader of vault.json gets
          back     \* the documents a loss of power may leave behind

avars == <<shown, back>>

Contents == [id : Ids, creds : SUBSET Creds \ {{}}, names : SUBSET Names]

AInit == shown = None /\ back = {None}

(* The new document is there at once, and durable only when confirmed.       *)
Replace(d) == shown' = d /\ back' = back \cup {d}

(* Every document a loss of power may leave belongs to the past, never to a  *)
(* vault that does not exist yet.                                            *)
Create(i, c) ==
    /\ shown = None
    /\ \A d \in back \ {None} : d.id # i
    /\ Replace([id |-> i, creds |-> {c}, names |-> {}])

Enrol(c) ==
    /\ shown # None
    /\ c \notin shown.creds
    /\ Replace([shown EXCEPT !.creds = @ \cup {c}])

(* The last passkey stays: without it nobody could ever open the vault.      *)
Withdraw(c) ==
    /\ shown # None
    /\ c \in shown.creds
    /\ shown.creds # {c}
    /\ Replace([shown EXCEPT !.creds = @ \ {c}])

Keep(n) ==
    /\ shown # None
    /\ Replace([shown EXCEPT !.names = @ \cup {n}])

Destroy == shown # None /\ Replace(None)

Confirm == back' = {shown} /\ UNCHANGED shown

LosePower == \E d \in back : shown' = d /\ back' = {d}

ANext ==
    \/ \E i \in Ids, c \in Creds : Create(i, c)
    \/ \E c \in Creds : Enrol(c) \/ Withdraw(c)
    \/ \E n \in Names : Keep(n)
    \/ Destroy \/ Confirm \/ LosePower

ASpec == AInit /\ [][ANext]_avars
=============================================================================
