------------------------------ MODULE Session ------------------------------
(***************************************************************************)
(* The session record two users keep of each other in their encrypted      *)
(* stores (signal-core's encryptMessage, decryptMessage, saveSession and   *)
(* getSession), under operations that run concurrently.                    *)
(*                                                                         *)
(* libsignal (external) computes; the code here gives it two callbacks,    *)
(* getSession and saveSession, and awaits.  An operation is therefore two  *)
(* steps: it loads the record, and later it saves what it made of the copy.*)
(* Nothing in signal-core keeps two operations on one record apart: that   *)
(* is left to the callers, of which only the chat prompts of sysmaint-web  *)
(* are queued.  The handlers of a socket's messages, the requests of the   *)
(* demo page, and two CLI commands on one store are not.                   *)
(*                                                                         *)
(* A ratchet key is the number of a sending chain, and a message key is a  *)
(* chain and a position on it.  The run starts where alice has processed   *)
(* bob's bundle; messages sent on her first chain are PreKey messages, and *)
(* create bob's session.  Sessions that both users initiate, and records   *)
(* that a second bundle replaces, are not modelled.                        *)
(***************************************************************************)
EXTENDS Naturals, Sequences

CONSTANTS
  Ops,          \* what one user's processes can have in progress at a time
  NoSession,    \* getSession's null
  MaxMessages,  \* bound on the messages encrypted
  MaxRatchets,  \* bound on the ratchet keys generated
  MaxReads      \* bound on the times a message is decrypted

ASSUME SessionAssumption ==
  MaxMessages \in Nat /\ MaxRatchets \in Nat /\ MaxReads \in Nat

Users == {"alice", "bob"}

VARIABLES
  session,     \* the record a user's store holds of the other
  op,          \* a user's operations in progress, each with its copy
  against,     \* for each ratchet key the one of the peer it answers
  posted,      \* the messages encrypted, in order
  reads,       \* how many times each was decrypted
  overlapped   \* history: the kinds of operations that overlapped on a record

vars == <<session, op, against, posted, reads, overlapped>>

SignedPreKey == 1      \* bob's signed prekey, the first key of his side
FirstChain   == 2      \* the key alice generated with the session

\* What libsignal keeps in a record: the chain and position of the next
\* message to send, the peer's chains and the message keys already used.
Record == [send : Nat, next : Nat, known : SUBSET Nat, used : SUBSET (Nat \X Nat)]

\* getSession's null is not a record.
ASSUME NoSessionAssumption == NoSession \notin Record

\* The record a chain starts with.
OnChain(c) == [send |-> c, next |-> 0, known |-> {}, used |-> {}]

Idle == [kind |-> "idle", record |-> NoSession, msg |-> 0]
Op == {Idle} \cup [kind : {"encrypt", "decrypt"}, record : Record, msg : Nat]

Message == [from : Users, chain : Nat, n : Nat]

TypeOK ==
  /\ session \in [Users -> Record \cup {NoSession}]
  /\ op \in [Users -> [Ops -> Op]]
  /\ against \in Seq(Nat)
  /\ posted \in Seq(Message)
  /\ reads \in Seq(Nat) /\ Len(reads) = Len(posted)
  /\ overlapped \in [Users -> SUBSET {"encrypt", "decrypt"}]

Init ==
  /\ session = [u \in Users |-> IF u = "alice" THEN OnChain(FirstChain) ELSE NoSession]
  /\ op = [u \in Users |-> [o \in Ops |-> Idle]]
  /\ against = <<0, SignedPreKey>>
  /\ posted = <<>>
  /\ reads = <<>>
  /\ overlapped = [u \in Users |-> {}]

-----------------------------------------------------------------------------
Key(m) == <<m.chain, m.n>>

\* SqliteSessionStore.getSession.
GetSession(u) == session[u]

\* Mutant of SaveSession: INSERT OR IGNORE.
SaveSessionOnce(u, r) ==
  session' = [session EXCEPT ![u] = IF @ = NoSession THEN r ELSE @]

\* SqliteSessionStore.saveSession: replaces the record, whatever it was loaded as.
SaveSession(u, r) == session' = [session EXCEPT ![u] = r]

\* The message opens under the record: its key was not used, and its chain is
\* known or answers the key this side is sending on.
Opens(r, m) ==
  /\ Key(m) \notin r.used
  /\ m.chain \in r.known \/ against[m.chain] = r.send

\* The record after the message was opened.  The first message of a new chain
\* makes this side generate the next ratchet key.
Opened(r, m) ==
  LET used == r.used \cup {Key(m)} IN
  IF m.chain \in r.known
    THEN [r EXCEPT !.used = used]
    ELSE [send |-> Len(against) + 1, next |-> 0,
          known |-> r.known \cup {m.chain}, used |-> used]

Begin(u, o, operation) ==
  LET others == {op[u][p].kind : p \in Ops \ {o}} \ {"idle"}
      all    == others \cup {operation.kind} IN
  /\ op[u][o] = Idle
  /\ op' = [op EXCEPT ![u][o] = operation]
  /\ overlapped' = [overlapped EXCEPT ![u] =
       @ \cup (CASE others = {}        -> {}
                 [] "encrypt" \in all  -> {"encrypt"}
                 [] OTHER              -> {"decrypt"})]

End(u, o) ==
  /\ op' = [op EXCEPT ![u][o] = Idle]
  /\ UNCHANGED overlapped

-----------------------------------------------------------------------------
\* encryptMessage up to the load.  A user without a session does not get here:
\* ensureSessionWith comes first.
BeginEncrypt(u, o) ==
  /\ GetSession(u) # NoSession
  /\ Begin(u, o, [kind |-> "encrypt", record |-> GetSession(u), msg |-> 0])
  /\ UNCHANGED <<session, against, posted, reads>>

\* Mutant of EndEncrypt: the ciphertext is returned before the record is saved.
EndEncryptUnsaved(u, o) ==
  LET r == op[u][o].record IN
  /\ op[u][o].kind = "encrypt"
  /\ Len(posted) < MaxMessages
  /\ posted' = Append(posted, [from |-> u, chain |-> r.send, n |-> r.next])
  /\ reads' = Append(reads, 0)
  /\ End(u, o)
  /\ UNCHANGED <<session, against>>

\* The record is saved one position further, and the ciphertext is handed to the
\* caller.  The relay may deliver it never, late, or more than once.
EndEncrypt(u, o) ==
  LET r == op[u][o].record IN
  /\ op[u][o].kind = "encrypt"
  /\ Len(posted) < MaxMessages
  /\ SaveSession(u, [r EXCEPT !.next = @ + 1])
  /\ posted' = Append(posted, [from |-> u, chain |-> r.send, n |-> r.next])
  /\ reads' = Append(reads, 0)
  /\ End(u, o)
  /\ UNCHANGED against

\* decryptMessage up to the load.  Without a session only a PreKey message gets
\* further: libsignal then starts a record from the signed prekey.
BeginDecrypt(u, o, i) ==
  /\ posted[i].from # u
  /\ reads[i] < MaxReads
  /\ GetSession(u) = NoSession => posted[i].chain = FirstChain
  /\ Begin(u, o,
       [kind   |-> "decrypt",
        record |-> IF GetSession(u) = NoSession THEN OnChain(SignedPreKey)
                                                ELSE GetSession(u),
        msg    |-> i])
  /\ UNCHANGED <<session, against, posted, reads>>

\* Mutant of EndDecrypt: the record is saved only when it changed its ratchet.
EndDecryptLazySave(u, o) ==
  LET r == op[u][o].record
      i == op[u][o].msg
      m == posted[i] IN
  /\ op[u][o].kind = "decrypt"
  /\ Opens(r, m)
  /\ Len(against) < MaxRatchets
  /\ against' = IF m.chain \in r.known THEN against ELSE Append(against, m.chain)
  /\ IF m.chain \in r.known THEN UNCHANGED session ELSE SaveSession(u, Opened(r, m))
  /\ reads' = [reads EXCEPT ![i] = @ + 1]
  /\ End(u, o)
  /\ UNCHANGED posted

\* The message is opened with the copy, which is saved, and the plaintext is
\* returned.
EndDecrypt(u, o) ==
  LET r == op[u][o].record
      i == op[u][o].msg
      m == posted[i] IN
  /\ op[u][o].kind = "decrypt"
  /\ Opens(r, m)
  /\ SaveSession(u, Opened(r, m))
  /\ IF m.chain \in r.known
       THEN UNCHANGED against
       ELSE Len(against) < MaxRatchets /\ against' = Append(against, m.chain)
  /\ reads' = [reads EXCEPT ![i] = @ + 1]
  /\ End(u, o)
  /\ UNCHANGED posted

\* libsignal throws (a message it has seen, or a key it cannot compute) and
\* nothing is saved; or the process ends.  Every caller drops the message.
Abandon(u, o) ==
  /\ op[u][o] # Idle
  /\ End(u, o)
  /\ UNCHANGED <<session, against, posted, reads>>

Next ==
  \E u \in Users, o \in Ops :
    \/ BeginEncrypt(u, o)
    \/ EndEncrypt(u, o)
    \/ \E i \in DOMAIN posted : BeginDecrypt(u, o, i)
    \/ EndDecrypt(u, o)
    \/ Abandon(u, o)

Spec == Init /\ [][Next]_vars

-----------------------------------------------------------------------------
(***************************************************************************)
(* Properties.  Each names the overlap that the callers must avoid for it. *)
(***************************************************************************)
\* A user never encrypts two messages with one message key, unless one of its
\* encryptions overlapped with another operation on the record.  Decryptions may
\* overlap: the frames of a socket are handled concurrently (signal.ts:259).
KeysAreUsedOnce ==
  \A i, j \in DOMAIN posted :
    /\ i # j
    /\ posted[i].from = posted[j].from
    /\ Key(posted[i]) = Key(posted[j])
    => "encrypt" \in overlapped[posted[i].from]

\* Whether the peer's store, as it is now, can still open a message.
CanOpen(u, m) ==
  IF session[u] = NoSession THEN m.chain = FirstChain ELSE Opens(session[u], m)

\* A message not yet read stays readable, in whatever order the relay delivers,
\* unless an encryption overlapped with another operation of either user.
\* Decryptions that overlap lose updates of each other, but only such as the
\* next delivery can redo.
UnreadStaysReadable ==
  \A i \in DOMAIN posted, u \in Users :
    posted[i].from # u /\ reads[i] = 0 /\ ~CanOpen(u, posted[i])
      => \E v \in Users : "encrypt" \in overlapped[v]

\* A message the relay delivers again is not decrypted again, unless operations
\* of the reader overlapped.
ReadAtMostOnce ==
  \A i \in DOMAIN posted, u \in Users :
    posted[i].from # u /\ reads[i] > 1 => overlapped[u] # {}

-----------------------------------------------------------------------------
(***************************************************************************)
(* What makes the three properties inductive.                              *)
(***************************************************************************)
\* Of the messages ms, those the user sent on the record's chain are behind it.
Ahead(ms, u, r) ==
  \A i \in DOMAIN ms : ms[i].from = u /\ ms[i].chain = r.send => ms[i].n < r.next

\* Ratchet keys are numbered as they are generated; nobody sends on the signed
\* prekey, which only the copy of a first decryption carries.
Numbering ==
  /\ Len(against) >= FirstChain
  /\ \A i \in DOMAIN posted : posted[i].chain \in FirstChain..Len(against)
  /\ \A u \in Users : session[u] # NoSession =>
       session[u].send \in FirstChain..Len(against)
  /\ \A u \in Users, o \in Ops : op[u][o] # Idle =>
       /\ \/ op[u][o].record.send \in FirstChain..Len(against)
          \/ op[u][o].kind = "decrypt" /\ op[u][o].record = OnChain(SignedPreKey)
       /\ op[u][o].kind = "decrypt" =>
            op[u][o].msg \in DOMAIN posted /\ posted[op[u][o].msg].from # u

\* A user whose encryptions ran alone is ahead of itself with every record that
\* could be saved next.
Advancing ==
  \A u \in Users : "encrypt" \notin overlapped[u] =>
    /\ session[u] # NoSession => Ahead(posted, u, session[u])
    /\ \A o \in Ops : op[u][o] # Idle => Ahead(posted, u, op[u][o].record)
    /\ \A o, p \in Ops : op[u][o].kind = "encrypt" /\ p # o => op[u][p] = Idle

\* What an operation of the user that begins now works on.
Copy(u) == IF session[u] = NoSession THEN OnChain(SignedPreKey) ELSE session[u]

\* A user whose operations ran one at a time works on the record as it is, and
\* the record remembers everything that was read.
Remembering ==
  \A u \in Users : overlapped[u] = {} =>
    /\ \A o, p \in Ops : op[u][o] # Idle /\ p # o => op[u][p] = Idle
    /\ \A o \in Ops : op[u][o] # Idle =>
         op[u][o].record =
           IF session[u] = NoSession THEN OnChain(SignedPreKey) ELSE session[u]
    /\ \A i \in DOMAIN posted : posted[i].from # u /\ reads[i] > 0 =>
         session[u] # NoSession /\ Key(posted[i]) \in session[u].used

\* The records that the user's store holds now or can hold next.
Records(u) == {Copy(u)} \cup {op[u][o].record : o \in {p \in Ops : op[u][p] # Idle}}

\* The chains the user has sent on.
Sent(u) == {posted[i].chain : i \in {j \in DOMAIN posted : posted[j].from = u}}

\* A ratchet key answers an older one, and alice's first the signed prekey.
Answering ==
  /\ session["alice"] # NoSession
  /\ against[FirstChain] = SignedPreKey
  /\ \A c \in DOMAIN against : c > FirstChain => against[c] \in FirstChain..(c - 1)

\* Where u's ratchet stands with a record r that its store holds or can hold, v
\* being the peer: what v sent can be opened; every chain u sent on before that
\* of r answered one that r knows, and not the one that r answers; v answered it;
\* and while u has not sent on the chain of r, v's records wait for it.
InStep(u, v, r) ==
  /\ \A c \in Sent(v) : c \in r.known \/ against[c] = r.send
  /\ \A c \in Sent(u) \ {FirstChain, r.send} : against[c] \in r.known
  /\ r.send > FirstChain => against[r.send] \in r.known
  /\ \A c \in Sent(u) \ {r.send} :
       /\ against[c] # against[r.send]
       /\ \E d \in Sent(v) : against[d] = c
  /\ r.send >= FirstChain /\ r.send \notin Sent(u) =>
       \A s \in Records(v) : s.send = against[r.send]

\* The message keys that the record r of u has used are those of messages read.
UsedAreRead(u, r) ==
  \A k \in r.used : \E i \in DOMAIN posted :
    posted[i].from # u /\ Key(posted[i]) = k /\ reads[i] > 0

\* As long as no encryption overlapped with another operation, the two ratchets
\* stay in step, whichever record is saved next.
Ratcheting ==
  (\A u \in Users : "encrypt" \notin overlapped[u]) =>
    \A u, v \in Users : u # v =>
      /\ \A r \in Records(u) : InStep(u, v, r) /\ UsedAreRead(u, r)
      /\ \A o \in Ops : op[u][o].kind = "encrypt" => op[u][o].record = session[u]

IInv ==
  /\ Numbering
  /\ Advancing /\ KeysAreUsedOnce
  /\ Remembering /\ ReadAtMostOnce
  /\ Answering /\ Ratcheting /\ UnreadStaysReadable
=============================================================================
