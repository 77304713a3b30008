-------------------------------- MODULE Cli ---------------------------------
(***************************************************************************)
(* Processes of the CLI on one encrypted store: EncryptedStore with its key*)
(* derivation, the trust on first use of SqliteIdentityStore, and the      *)
(* commands that use it.                                                   *)
(* A listener and a command in another terminal are the intended use; each *)
(* statement of SQLite is a step, and the handlers of one listener are     *)
(* threads of it.  A process may be killed at any step.                    *)
(*                                                                         *)
(* The store holds the identity, the prekeys and, of one peer, the session *)
(* and the pinned identity key, and the inbox.  libsignal (external)       *)
(* decides in which order the callbacks come; what a record holds is       *)
(* Session's matter, and which prekeys there are is that of PreKeys.       *)
(* The peer may start over with a new identity.  Its messages are PreKey   *)
(* messages, as they are until it gets an answer.                          *)
(***************************************************************************)
EXTENDS Naturals, Sequences

CONSTANTS
  Procs,        \* processes, each of which runs one command
  Msgs,         \* messages of the peer to the local identity
  Passphrases,  \* passphrases that are typed
  Nobody,       \* no listener in the relay's map
  MaxPeerKeys   \* bound on the identity keys of the peer

ASSUME CliAssumption ==
  /\ Procs \cap Msgs = {} /\ Nobody \notin Procs
  /\ {"identity", "prekeys", "session", "pin"} \cap Msgs = {}
  /\ Passphrases # {}
  /\ MaxPeerKeys \in Nat \ {0}

Threads == Procs \cup Msgs     \* a command, or the handler of a message
Names   == {"identity", "prekeys", "session", "pin"} \cup Msgs
Commands ==
  {"init", "show", "export", "session", "encrypt", "decrypt", "send", "listen", "inbox"}

VARIABLES
  kdf,      \* the salt in the meta table; 0 when there is none
  salts,    \* how many salts were generated
  row,      \* the kv table: the key a row is encrypted with, and of whom it is
  stage,    \* stage[p]: how far the process is
  command,  \* command[p]: what it runs
  key,      \* key[p]: the key it has derived
  todo,     \* todo[t]: the accesses to the store that t still has to do
  peer,     \* peer[t]: the peer's identity key that t deals with
  peerKey,  \* the peer's identity key; a new one is the next number
  by,       \* by[m]: the identity key that sent m; 0 before it is sent
  owner,    \* owner[m]: the listener that has received m
  sock,     \* sock[p]: the listener's WebSocket
  conn,     \* the listener whose socket is in the relay's map
  exiting,  \* exiting[p]: beginShutdown was called
  overlap   \* history: what processes or handlers did at the same time

storeVars  == <<kdf, salts, row>>
peerVars   == <<peerKey, by>>
socketVars == <<owner, sock, conn, exiting>>
vars == <<kdf, salts, row, stage, command, key, todo, peer, peerKey, by, owner,
          sock, conn, exiting, overlap>>

Key    == [salt : Nat, pass : Passphrases]
NoKey  == [salt |-> 0, pass |-> CHOOSE w \in Passphrases : TRUE]
NoRow  == [key |-> NoKey, of |-> 0]
Row    == [key : Key, of : Nat]
Access == [op : {"lookup", "get", "need", "trust", "list", "put"},
           name : Names \cup {"inbox"}]

TypeOK ==
  /\ kdf \in 0..salts /\ salts \in Nat
  /\ row \in [Names -> Row]
  /\ stage \in [Procs -> {"idle", "creating", "running", "ended"}]
  /\ command \in [Procs -> Commands \cup {"none"}]
  /\ key \in [Procs -> Key]
  /\ todo \in [Threads -> Seq(Access)]
  /\ peer \in [Threads -> Nat]
  /\ peerKey \in 1..MaxPeerKeys
  /\ by \in [Msgs -> 0..MaxPeerKeys]
  /\ owner \in [Msgs -> Procs \cup {Nobody}]
  /\ sock \in [Procs -> {"none", "connecting", "open", "closing"}]
  /\ conn \in Procs \cup {Nobody}
  /\ exiting \in [Procs -> BOOLEAN]
  /\ overlap \subseteq {"split", "contacted"}

-----------------------------------------------------------------------------
(* What the commands do to the store, in order.  get throws when the row    *)
(* cannot be decrypted, need also when it is missing, trust also when the   *)
(* pinned identity is another one.                                          *)

Do(op, name) == [op |-> op, name |-> name]

\* initializeIdentity, which overwrites, and generatePreKeys, which is also what
\* the command prekey generate does.
InitTasks == <<Do("put", "identity"), Do("need", "identity"),
               Do("get", "prekeys"), Do("put", "prekeys")>>

\* identity show reads the meta table only, which is not encrypted.
ShowTasks == <<>>

\* bundle export and client prekeys upload.
ExportTasks == <<Do("need", "identity"), Do("need", "prekeys")>>

\* Mutant of ContactTasks: the identity key pair is loaded last.
ContactTasksIdentityLast ==
  <<Do("trust", "pin"), Do("get", "session"), Do("get", "pin"), Do("put", "pin"),
    Do("put", "session"), Do("need", "identity")>>

\* initSession: processPreKeyBundle and its callbacks.
ContactTasks ==
  <<Do("trust", "pin"), Do("get", "session"), Do("need", "identity"),
    Do("get", "pin"), Do("put", "pin"), Do("put", "session")>>

\* encryptMessage: signalEncrypt and its callbacks.
EncryptTasks ==
  <<Do("need", "session"), Do("trust", "pin"),
    Do("get", "pin"), Do("put", "pin"), Do("put", "session")>>

\* decryptMessage: signalDecryptPreKey and its callbacks.
DecryptTasks ==
  <<Do("get", "session"), Do("trust", "pin"), Do("need", "prekeys"),
    Do("need", "identity"), Do("get", "pin"), Do("put", "pin"), Do("put", "session")>>

\* saveInboxMessage.
SaveInboxMessage(m) == Do("put", m)

\* The handler of a message.
HandlerTasks(m) == Append(DecryptTasks, SaveInboxMessage(m))

CommandTasks(c) ==
  CASE c = "init"    -> InitTasks
    [] c = "show"    -> ShowTasks
    [] c = "export"  -> ExportTasks
    [] c = "session" -> ContactTasks
    [] c = "encrypt" -> EncryptTasks
    [] c = "decrypt" -> DecryptTasks
    [] c = "send"    -> <<Do("lookup", "session")>>
    [] c = "listen"  -> <<>>
    [] c = "inbox"   -> <<Do("list", "inbox")>>

Init ==
  /\ \/ kdf = 0 /\ salts = 0 /\ row = [n \in Names |-> NoRow]
     \/ /\ kdf = 1 /\ salts = 1
        /\ row = [n \in Names |-> IF n \in {"identity", "prekeys"}
                                  THEN [NoRow EXCEPT !.key.salt = 1] ELSE NoRow]
  /\ stage = [p \in Procs |-> "idle"]
  /\ command = [p \in Procs |-> "none"]
  /\ key = [p \in Procs |-> NoKey]
  /\ todo = [t \in Threads |-> <<>>]
  /\ peer = [t \in Threads |-> 0]
  /\ peerKey = 1
  /\ by = [m \in Msgs |-> 0]
  /\ owner = [m \in Msgs |-> Nobody]
  /\ sock = [p \in Procs |-> "none"]
  /\ conn = Nobody
  /\ exiting = [p \in Procs |-> FALSE]
  /\ overlap = {}

-----------------------------------------------------------------------------
(* Opening the store, and the end of a process.                            *)

\* The key is derived from the passphrase and the salt, and the command begins.
Derive(p, c, w, salt) ==
  /\ stage' = [stage EXCEPT ![p] = "running"]
  /\ key' = [key EXCEPT ![p] = [salt |-> salt, pass |-> w]]
  /\ todo' = [todo EXCEPT ![p] = CommandTasks(c)]
  /\ sock' = [sock EXCEPT ![p] = IF c = "listen" THEN "connecting" ELSE @]

\* Mutant of FoundSalt: the salt of an earlier process is not looked for.
FoundNothing == 0

FoundSalt == kdf

\* new EncryptedStore: the salt is looked up.  The bundle or the message that a
\* command may have read from a file is of k.
Open(p, c, w, k) ==
  /\ stage[p] = "idle"
  /\ IF c \in {"session", "decrypt", "send"} THEN peer' = [peer EXCEPT ![p] = k]
                                          ELSE k = 1 /\ UNCHANGED peer
  /\ command' = [command EXCEPT ![p] = c]
  /\ IF FoundSalt # 0
     THEN Derive(p, c, w, FoundSalt) /\ UNCHANGED overlap
     ELSE /\ stage' = [stage EXCEPT ![p] = "creating"]
          /\ key' = [key EXCEPT ![p].pass = w]
          /\ overlap' = overlap \cup
               {x \in {"split"} : \E q \in Procs : stage[q] = "creating"}
          /\ UNCHANGED <<todo, sock>>
  /\ UNCHANGED <<storeVars, peerVars, owner, conn, exiting>>

\* There was none: a new one is written, over any other process's.
Create(p) ==
  /\ stage[p] = "creating"
  /\ salts' = salts + 1
  /\ kdf' = salts'
  /\ Derive(p, command[p], key[p].pass, salts')
  /\ UNCHANGED <<row, command, peer, peerVars, owner, conn, exiting, overlap>>

Owner(t) == IF t \in Procs THEN t ELSE owner[t]

\* The process ends, and with it the handlers of a listener, and its socket.
End(p) ==
  /\ stage' = [stage EXCEPT ![p] = "ended"]
  /\ command' = [command EXCEPT ![p] = "none"]
  /\ key' = [key EXCEPT ![p] = NoKey]
  /\ todo' = [t \in Threads |-> IF Owner(t) = p THEN <<>> ELSE todo[t]]
  /\ peer' = [t \in Threads |-> IF Owner(t) = p THEN 0 ELSE peer[t]]
  /\ sock' = [sock EXCEPT ![p] = "none"]
  /\ conn' = IF conn = p THEN Nobody ELSE conn
  /\ exiting' = [exiting EXCEPT ![p] = FALSE]
  /\ UNCHANGED <<storeVars, peerVars, owner, overlap>>

Ends(p) == stage[p] = "running" /\ command[p] # "listen" /\ todo[p] = <<>> /\ End(p)

\* It is killed, or a call to the relay fails.
Dies(p) == stage[p] \in {"creating", "running"} /\ End(p)

-----------------------------------------------------------------------------
(* The accesses of a command or a handler, one at a time.                  *)

KeyOf(t)   == key[Owner(t)]
Present(n) == row[n].key.salt # 0
CanRead(t, n) == Present(n) => row[n].key = KeyOf(t)

\* Mutant of Trusts: whatever key the peer has is trusted.
TrustsAny(t) == TRUE

\* isTrustedIdentity: the pinned key, or any as long as there is none.
Trusts(t) == Present("pin") => row["pin"].of = peer[t]

\* listInboxMessages reads the rows of all messages.
RowsOf(a) == IF a.op = "list" THEN Msgs ELSE {a.name}

\* The access at the head of todo[t] throws.
Fails(t) ==
  LET a == Head(todo[t]) IN
  \/ a.op # "put" /\ \E n \in RowsOf(a) : ~CanRead(t, n)
  \/ a.op = "need" /\ ~Present(a.name)
  \/ a.op = "trust" /\ ~Trusts(t)

\* t has checked the peer's key and has yet to pin it.
Pinning(t) ==
  \E i \in DOMAIN todo[t] :
    todo[t][i] = Do("put", "pin") /\ \A j \in 1..i : todo[t][j].op # "trust"

\* A read succeeds.  The session names the peer's key for an encryption.
Read(t) ==
  /\ todo[t] # <<>> /\ Head(todo[t]).op \in {"get", "need", "trust", "list"} /\ ~Fails(t)
  /\ LET a == Head(todo[t]) IN
     /\ todo' = [todo EXCEPT ![t] = Tail(@)]
     /\ peer' = IF a = Do("need", "session") THEN [peer EXCEPT ![t] = row["session"].of]
                                            ELSE peer
     /\ overlap' = overlap \cup
          {x \in {"contacted"} : a.op = "trust" /\ \E u \in Threads :
             Pinning(u) /\ peer[u] # peer[t]}
  /\ UNCHANGED <<storeVars, stage, command, key, peerVars, socketVars>>

\* client send looks for a session; without one it fetches the peer's bundle.
LookUp(t) ==
  /\ todo[t] # <<>> /\ Head(todo[t]).op = "lookup" /\ ~Fails(t)
  /\ todo' = [todo EXCEPT ![t] =
       IF Present("session") THEN EncryptTasks ELSE ContactTasks \o EncryptTasks]
  /\ UNCHANGED <<storeVars, stage, command, key, peer, peerVars, socketVars, overlap>>

\* set: INSERT OR REPLACE.
Write(t) ==
  /\ todo[t] # <<>> /\ Head(todo[t]).op = "put"
  /\ LET n == Head(todo[t]).name IN
     /\ row' = [row EXCEPT ![n] = [key |-> KeyOf(t), of |-> peer[t]]]
     /\ overlap' = overlap \cup
          {x \in {"split"} : n = "identity" /\ ~CanRead(t, n)}
  /\ todo' = [todo EXCEPT ![t] = Tail(@)]
  /\ UNCHANGED <<kdf, salts, stage, command, key, peer, peerVars, socketVars>>

\* A command ends with the error; a handler logs it and drops its message.
Throw(t) ==
  /\ todo[t] # <<>> /\ Fails(t)
  /\ IF t \in Procs THEN End(t)
     ELSE /\ todo' = [todo EXCEPT ![t] = <<>>]
          /\ peer' = [peer EXCEPT ![t] = 0]
          /\ UNCHANGED <<storeVars, stage, command, key, peerVars, socketVars, overlap>>

-----------------------------------------------------------------------------
(* The peer and the relay (external), and the listener's socket.           *)

PeerStartsOver ==
  /\ peerKey < MaxPeerKeys
  /\ peerKey' = peerKey + 1
  /\ UNCHANGED <<storeVars, stage, command, key, todo, peer, by, socketVars, overlap>>

PeerSends(m) ==
  /\ by[m] = 0
  /\ by' = [by EXCEPT ![m] = peerKey]
  /\ UNCHANGED <<storeVars, stage, command, key, todo, peer, peerKey, socketVars, overlap>>

\* The relay accepts the upgrade and closes the socket it supersedes.
Upgrade(p) ==
  /\ sock[p] = "connecting"
  /\ conn' = p
  /\ sock' = [q \in Procs |-> CASE q = p -> "open"
                                [] q = conn -> "closing"
                                [] OTHER -> sock[q]]
  /\ UNCHANGED <<storeVars, stage, command, key, todo, peer, peerVars, owner,
                 exiting, overlap>>

\* ws.on("message"): a handler starts; those before it may still be at work.
OnMessage(p, m) ==
  /\ sock[p] \in {"open", "closing"} /\ conn = p
  /\ by[m] # 0 /\ owner[m] = Nobody
  /\ owner' = [owner EXCEPT ![m] = p]
  /\ peer' = [peer EXCEPT ![m] = by[m]]
  /\ todo' = [todo EXCEPT ![m] = HandlerTasks(m)]
  /\ UNCHANGED <<storeVars, stage, command, key, peerVars, sock, conn, exiting, overlap>>

IsActive(p) == sock[p] \in {"connecting", "open"}

\* SIGINT or SIGTERM: beginShutdown exits at once, or closes the socket.
OnSignal(p) ==
  /\ command[p] = "listen" /\ stage[p] = "running" /\ ~exiting[p]
  /\ IF IsActive(p)
     THEN /\ exiting' = [exiting EXCEPT ![p] = TRUE]
          /\ sock' = [sock EXCEPT ![p] = "closing"]
          /\ UNCHANGED <<storeVars, stage, command, key, todo, peer, peerVars,
                         owner, conn, overlap>>
     ELSE End(p)

\* forceExitTimer, which beginShutdown arms before it closes the socket.
ForceExit(p) == stage[p] = "running" /\ exiting[p] /\ End(p)

\* The close event, or an error that finds the shutdown not begun: exitNow.
Closed(p) == stage[p] = "running" /\ sock[p] \in {"connecting", "open", "closing"} /\ End(p)

Next ==
  \/ \E p \in Procs, c \in Commands, w \in Passphrases, k \in 1..peerKey :
       Open(p, c, w, k)
  \/ \E p \in Procs :
       \/ Create(p) \/ Ends(p) \/ Dies(p)
       \/ Upgrade(p) \/ OnSignal(p) \/ ForceExit(p) \/ Closed(p)
  \/ \E t \in Threads : Read(t) \/ LookUp(t) \/ Write(t) \/ Throw(t)
  \/ PeerStartsOver
  \/ \E m \in Msgs : PeerSends(m)
  \/ \E p \in Procs, m \in Msgs : OnMessage(p, m)

Spec == Init /\ [][Next]_vars

-----------------------------------------------------------------------------
(* Properties.                                                             *)

\* Every row can be decrypted with the key that every other row needs, and with
\* the salt in the store: whatever wrong passphrases are typed, nothing is
\* written before something was read (store.ts, EncryptedStore).  Only the
\* opening of a new store by two processes at once, or an init under another
\* key, splits a store in two.
OneKey ==
  "split" \notin overlap =>
    /\ \A n \in Names : Present(n) => row[n].key.salt = kdf
    /\ \A n, o \in Names : Present(n) /\ Present(o) => row[n].key = row[o].key

\* Trust on first use: every message in the inbox, and the session, are of the
\* identity that is pinned, whoever the peer is by now, unless two threads had
\* both checked different keys before either pinned one.
InboxIsOfPinned ==
  "contacted" \notin overlap =>
    \A n \in Msgs \cup {"session"} :
      Present(n) => Present("pin") /\ row[n].of = row["pin"].of
=============================================================================
