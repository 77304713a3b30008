------------------------------ MODULE PreKeys ------------------------------
(***************************************************************************)
(* The prekeys of one identity: signal-core's initializeIdentity,          *)
(* generatePreKeys and exportBundle on the owner's encrypted store, the    *)
(* relay's directory of bundles, and the peers who start sessions from it. *)
(*                                                                         *)
(* The owner's store is used by several processes: the CLI commands init,  *)
(* prekey generate and client prekeys upload, and the bootstrap of the     *)
(* agent, the probe and the web server, which identifies, generates,       *)
(* registers and uploads.  A process takes one statement of SQLite at a    *)
(* time and may end between any two.  The requests of the web server are   *)
(* processes too: what runs between two of its awaits is a case of this.   *)
(***************************************************************************)
EXTENDS Naturals

CONSTANTS
  Procs,          \* processes on the owner's store
  Peers,          \* the peers
  MaxIds,         \* bound on the ids of a kind of prekey
  MaxKeys,        \* bound on the prekeys generated
  MaxIdentities,  \* bound on the identity keys generated
  MaxCount        \* bound on --count, which is at least 1 here

ASSUME PreKeysAssumption ==
  /\ MaxIds \in Nat \ {0}
  /\ MaxKeys \in Nat /\ MaxIdentities \in Nat /\ MaxCount \in Nat

Kinds == {"preKey", "signedPreKey", "kyberPreKey"}
Ids   == 1..MaxIds

VARIABLES
  localId,     \* whether the store has a local identity
  identity,    \* its identity key pair; 0 when there is none
  counter,     \* the counter of each kind; 0 when it has no row
  record,      \* the prekey records
  used,        \* the one-time prekeys marked as used
  made,        \* the number of prekeys generated
  proc,        \* what each process is at
  registered,  \* whether the relay knows the identity
  directory,   \* the bundle the relay hands out
  session,     \* the bundle a peer's session was made from
  overlap      \* history: what processes did at the same time

store == <<localId, identity, counter, record, used, made>>
relay == <<registered, directory>>
vars  == <<store, proc, relay, session, overlap>>

-----------------------------------------------------------------------------
\* A prekey and the identity that signed it.
Key   == [made : Nat \ {0}, by : Nat]
NoKey == [made |-> 0, by |-> 0]

\* A bundle, of which exportBundle finds the ids first and then the keys.
Bundle   == [identity : Nat, id : [Kinds -> Ids], key : [Kinds -> Key \cup {NoKey}]]
NoBundle == [identity |-> 0, id |-> [k \in Kinds |-> 1], key |-> [k \in Kinds |-> NoKey]]

\* The order in which generatePreKeys goes through the kinds.
Generated == <<"preKey", "signedPreKey", "kyberPreKey">>

Steps == {"check", "setLocalId", "setIdentity", "load", "draw", "bump", "save",
          "register", "export", "records", "upload"}
Tasks == {"bootstrap", "init", "generate", "upload"}

Idle == [task |-> "none", at |-> "idle", n |-> 1, left |-> 0, signer |-> 0, id |-> 1,
         bundle |-> NoBundle]
Proc == {Idle} \cup
  [task : Tasks, at : Steps, n : 1..3, left : 0..MaxCount, signer : Nat,
   id : Ids, bundle : Bundle]

TypeOK ==
  /\ localId \in BOOLEAN /\ identity \in Nat
  /\ counter \in [Kinds -> {0} \cup 2..(MaxIds + 1)]
  /\ record \in [Kinds -> [Ids -> Key \cup {NoKey}]]
  /\ used \in SUBSET Ids
  /\ made \in Nat
  /\ proc \in [Procs -> Proc]
  /\ registered \in BOOLEAN /\ directory \in Bundle
  /\ session \in [Peers -> Bundle]
  /\ overlap \in SUBSET {"counter", "generation", "identity"}

Init ==
  /\ localId = FALSE /\ identity = 0
  /\ counter = [k \in Kinds |-> 0]
  /\ record = [k \in Kinds |-> [i \in Ids |-> NoKey]]
  /\ used = {} /\ made = 0
  /\ proc = [p \in Procs |-> Idle]
  /\ registered = FALSE /\ directory = NoBundle
  /\ session = [q \in Peers |-> NoBundle]
  /\ overlap = {}

-----------------------------------------------------------------------------
\* "counter": two processes have read the same counter and will both write it.
\* "generation": one has drawn an id that has no record yet, and another is
\* generating or looks up the latest ids.
\* "identity": one replaces the identity key while another is at work.
Overlaps(f) ==
  {x \in {"counter", "generation", "identity"} : \E p, q \in Procs :
     /\ p # q
     /\ \/ x = "counter" /\ f[p].at = "bump" /\ f[q].at = "bump" /\ f[p].n = f[q].n
        \/ /\ x = "generation" /\ f[p].at = "save"
           /\ f[q].at \in {"draw", "bump", "save", "register", "export"}
        \/ x = "identity" /\ f[p].at = "setIdentity" /\ f[q] # Idle}

\* The process goes on as r.
GoTo(p, r) ==
  LET f == [proc EXCEPT ![p] = r] IN
  /\ proc' = f
  /\ overlap' = overlap \cup Overlaps(f)

Go(p, step) == GoTo(p, [proc[p] EXCEPT !.at = step])

\* Where a task begins.
First(task) ==
  CASE task = "bootstrap" -> "check"
    [] task = "init"      -> "setLocalId"
    [] task = "generate"  -> "load"
    [] task = "upload"    -> "export"

\* A bootstrap, or a command of the CLI.
Start(p, task, count) ==
  /\ proc[p] = Idle
  /\ task # "generate" => count = 1
  /\ GoTo(p, [Idle EXCEPT !.task = task, !.left = count, !.at = First(task)])
  /\ UNCHANGED <<store, relay, session>>

\* The process ends: an exception, a failed request, a signal or a crash.
Stop(p) ==
  /\ proc[p] # Idle
  /\ GoTo(p, Idle)
  /\ UNCHANGED <<store, relay, session>>

\* Mutant of Check: prekeys are generated with a new identity only.
CheckGenerateOnce(p) ==
  /\ proc[p].at = "check"
  /\ Go(p, IF localId THEN "register" ELSE "setLocalId")
  /\ UNCHANGED <<store, relay, session>>

\* ensureIdentityBootstrapped, ensureAliceBootstrapped: is there an identity?
Check(p) ==
  /\ proc[p].at = "check"
  /\ Go(p, IF localId THEN "load" ELSE "setLocalId")
  /\ UNCHANGED <<store, relay, session>>

\* initializeIdentity writes the name first and the key pair last.
SetLocalIdentity(p) ==
  /\ proc[p].at = "setLocalId"
  /\ localId' = TRUE
  /\ Go(p, "setIdentity")
  /\ UNCHANGED <<identity, counter, record, used, made, relay, session>>

\* Mutant of SetIdentityKeyPair: with a new identity the ids start again.
SetIdentityKeyPairAnew(p) ==
  /\ proc[p].at = "setIdentity"
  /\ identity < MaxIdentities
  /\ identity' = identity + 1
  /\ counter' = [k \in Kinds |-> 0]
  /\ Go(p, "load")
  /\ UNCHANGED <<localId, record, used, made, relay, session>>

SetIdentityKeyPair(p) ==
  /\ proc[p].at = "setIdentity"
  /\ identity < MaxIdentities
  /\ identity' = identity + 1
  /\ Go(p, "load")
  /\ UNCHANGED <<localId, counter, record, used, made, relay, session>>

-----------------------------------------------------------------------------
\* generatePreKeys loads the key that signs; without one it throws.
LoadIdentityKeyPair(p) ==
  /\ proc[p].at = "load"
  /\ identity # 0
  /\ GoTo(p, [proc[p] EXCEPT !.at = "draw", !.signer = identity])
  /\ UNCHANGED <<store, relay, session>>

\* nextCounter reads the counter, and then writes it.
NextId(k) == IF counter[k] = 0 THEN 1 ELSE counter[k]

ReadCounter(p) ==
  LET k == Generated[proc[p].n] IN
  /\ proc[p].at = "draw"
  /\ NextId(k) <= MaxIds
  /\ GoTo(p, [proc[p] EXCEPT !.at = "bump", !.id = NextId(k)])
  /\ UNCHANGED <<store, relay, session>>

WriteCounter(p) ==
  LET k == Generated[proc[p].n] IN
  /\ proc[p].at = "bump"
  /\ counter' = [counter EXCEPT ![k] = proc[p].id + 1]
  /\ Go(p, "save")
  /\ UNCHANGED <<localId, identity, record, used, made, relay, session>>

\* What a process does after it saved a prekey: the next one of --count, the
\* next kind, or what follows generatePreKeys.
AfterSave(r) ==
  LET draw == [r EXCEPT !.at = "draw", !.id = 1] IN
  IF r.n = 1 /\ r.left > 1 THEN [draw EXCEPT !.left = @ - 1]
  ELSE IF r.n < 3           THEN [draw EXCEPT !.n = @ + 1]
  ELSE IF r.task = "bootstrap" THEN [Idle EXCEPT !.task = r.task, !.at = "register"]
  ELSE Idle

\* savePreKey, saveSignedPreKey and saveKyberPreKey replace whatever is there.
SavePreKey(p) ==
  LET k == Generated[proc[p].n] IN
  /\ proc[p].at = "save"
  /\ made < MaxKeys
  /\ made' = made + 1
  /\ record' = [record EXCEPT ![k][proc[p].id] = [made |-> made + 1, by |-> proc[p].signer]]
  /\ GoTo(p, AfterSave(proc[p]))
  /\ UNCHANGED <<localId, identity, counter, used, relay, session>>

-----------------------------------------------------------------------------
\* POST /v1/register, by a bootstrap.
Register(p) ==
  /\ proc[p].at = "register"
  /\ registered' = TRUE
  /\ Go(p, "export")
  /\ UNCHANGED <<store, directory, session>>

\* The command client register does nothing else.
ClientRegister ==
  /\ ~registered
  /\ registered' = TRUE
  /\ UNCHANGED <<store, proc, directory, session, overlap>>

\* The id before the counter, or 1.
LatestId(k) == IF counter[k] = 0 THEN 1 ELSE counter[k] - 1

\* exportBundle loads the identity, which it needs with the name, and the three
\* counters; then the records.  No property is about two kinds of prekeys at
\* once, so the reads of the three are one step.
ExportIds(p) ==
  /\ proc[p].at = "export"
  /\ identity # 0 /\ localId
  /\ GoTo(p, [proc[p] EXCEPT !.at = "records", !.bundle =
       [NoBundle EXCEPT !.identity = identity, !.id = [k \in Kinds |-> LatestId(k)]]])
  /\ UNCHANGED <<store, relay, session>>

\* getSignedPreKey, getPreKey and getKyberPreKey throw when there is no record.
Found(b) == [k \in Kinds |-> record[k][b.id[k]]]

ExportRecords(p) ==
  LET b == proc[p].bundle IN
  /\ proc[p].at = "records"
  /\ \A k \in Kinds : Found(b)[k] # NoKey
  /\ GoTo(p, [proc[p] EXCEPT !.at = "upload", !.bundle.key = Found(b)])
  /\ UNCHANGED <<store, relay, session>>

\* POST /v1/prekeys: 404 for a client that is not registered, else the bundle
\* replaces the one before.
Upload(p) ==
  /\ proc[p].at = "upload"
  /\ registered
  /\ directory' = proc[p].bundle
  /\ GoTo(p, Idle)
  /\ UNCHANGED <<store, registered, session>>

-----------------------------------------------------------------------------
\* The signatures of the bundle are those of its identity.
Verifies(b) ==
  \A k \in {"signedPreKey", "kyberPreKey"} : b.key[k].by = b.identity

\* ensureSessionWith and initSession of a peer: libsignal rejects a bundle that
\* does not verify.
Fetch(q) ==
  /\ session[q] = NoBundle
  /\ directory # NoBundle
  /\ Verifies(directory)
  /\ session' = [session EXCEPT ![q] = directory]
  /\ UNCHANGED <<store, proc, relay, overlap>>

\* The store has the private key of everything the bundle names.
Holds(b) == \A k \in Kinds : record[k][b.id[k]] = b.key[k]

\* decryptMessage of a peer's PreKey message, which libsignal ends with
\* removePreKey: the one-time prekey is marked and kept.  The message may come
\* again, and so may another peer's that was made from the same bundle.
ReceivePreKeyMessage(q) ==
  /\ session[q] # NoBundle
  /\ session[q].identity = identity
  /\ Holds(session[q])
  /\ used' = used \cup {session[q].id["preKey"]}
  /\ UNCHANGED <<localId, identity, counter, record, made, proc, relay, session, overlap>>

Next ==
  \/ \E p \in Procs :
       \/ \E task \in Tasks, count \in 1..MaxCount : Start(p, task, count)
       \/ Check(p) \/ SetLocalIdentity(p) \/ SetIdentityKeyPair(p)
       \/ LoadIdentityKeyPair(p) \/ ReadCounter(p) \/ WriteCounter(p) \/ SavePreKey(p)
       \/ Register(p) \/ ExportIds(p) \/ ExportRecords(p) \/ Upload(p)
       \/ Stop(p)
  \/ ClientRegister
  \/ \E q \in Peers : Fetch(q) \/ ReceivePreKeyMessage(q)

Spec == Init /\ [][Next]_vars

-----------------------------------------------------------------------------
(***************************************************************************)
(* Properties.  Each names the overlap of processes that breaks it.        *)
(***************************************************************************)
\* Every bundle a peer has or can get.
Bundles ==
  ({proc[p].bundle : p \in {p \in Procs : proc[p].at = "upload"}}
     \cup {directory} \cup {session[q] : q \in Peers}) \ {NoBundle}

\* The keys of a bundle that may have been used up: whether a used one-time
\* prekey is deleted or kept, the comments of the source disagree.
UsedUp(b) == {k \in {"preKey"} : b.id[k] \in used}

\* However late a bundle is used, whatever was generated since, under a new
\* identity too, and wherever a process ended, the store has the keys that the
\* bundle names, under their ids: the signed and the Kyber prekey for all
\* sessions made from it, the one-time prekey until it is used.  Only two
\* processes that read one counter before either wrote it can break this.
NamedKeysAreKept ==
  \A b \in Bundles : \A k \in Kinds \ UsedUp(b) :
    record[k][b.id[k]] # b.key[k] => "counter" \in overlap

\* A bootstrap that generated prekeys finds the records it exports, also after a
\* process that drew ids ended before it saved them, unless another process was
\* generating meanwhile.
BootstrapExports ==
  \A p \in Procs :
    /\ proc[p].task = "bootstrap" /\ proc[p].at = "records"
    /\ \E k \in Kinds : Found(proc[p].bundle)[k] = NoKey
    => "generation" \in overlap

\* The bundle of a bootstrap verifies, also when init replaced the identity and
\* ended before it signed new prekeys, unless processes overlapped.
BootstrapVerifies ==
  \A p \in Procs :
    /\ proc[p].task = "bootstrap" /\ proc[p].at = "upload"
    /\ ~Verifies(proc[p].bundle)
    => overlap \cap {"generation", "identity"} # {}

\* The agent's ensureIdentityBootstrapped: "1. Checks if we have a local identity
\* 2. Creates one if not present".  What follows needs its key pair.
IdentityIsPresent ==
  \A p \in Procs :
    proc[p].task = "bootstrap" /\ proc[p].at = "load" => identity # 0

-----------------------------------------------------------------------------
(***************************************************************************)
(* What makes the first three inductive.                                   *)
(***************************************************************************)
\* The kind of prekey a process generates now, and those it has generated.
Kind(p) == Generated[proc[p].n]

Generating(p) == proc[p].at \in {"draw", "bump", "save"}

Done(p) ==
  IF Generating(p) THEN {Generated[i] : i \in 1..(proc[p].n - 1)}
  ELSE IF proc[p].at \in {"register", "export"} THEN Kinds
  ELSE {}

\* Ids are given out in order: none is behind the counter, and each process that
\* has drawn one is alone with it.
Counting ==
  /\ \A b \in Bundles, k \in Kinds : b.key[k] # NoKey
  /\ "counter" \notin overlap =>
       /\ \A k \in Kinds, i \in Ids : i >= NextId(k) => record[k][i] = NoKey
       /\ \A p \in Procs : proc[p].at = "bump" => proc[p].id = NextId(Kind(p))
       /\ \A p \in Procs : proc[p].at = "save" =>
            proc[p].id < NextId(Kind(p)) /\ record[Kind(p)][proc[p].id] = NoKey
       /\ \A p, q \in Procs :
            /\ p # q /\ proc[p].at = "save" /\ proc[q].at = "save"
            /\ proc[p].n = proc[q].n
            => proc[p].id # proc[q].id

\* A bootstrap's own prekeys, or newer ones, are the latest of the store.
Latest(k) == record[k][LatestId(k)]

Renewing ==
  /\ \A p \in Procs :
       proc[p].at \in {"check", "setLocalId", "setIdentity", "load"} => proc[p].n = 1
  /\ "generation" \notin overlap => \A p \in Procs :
       /\ proc[p].at = "save" => proc[p].id = LatestId(Kind(p))
       /\ proc[p].task = "bootstrap" => \A k \in Done(p) : Latest(k) # NoKey

\* A process signs with the identity key of the store.
Signing ==
  overlap \cap {"generation", "identity"} = {} => \A p \in Procs :
    /\ Generating(p) => proc[p].signer = identity
    /\ proc[p].task = "bootstrap" =>
         /\ \A k \in Done(p) : Latest(k).by = identity
         /\ proc[p].at \in {"records", "upload"} => proc[p].bundle.identity = identity
         /\ proc[p].at = "records" =>
              \A k \in Kinds : Found(proc[p].bundle)[k].by = identity

\* The code deletes no one-time prekey that was used, either.
AllAreKept == \A b \in Bundles : ~Holds(b) => "counter" \in overlap

IInv ==
  /\ Overlaps(proc) \subseteq overlap
  /\ Counting /\ AllAreKept
  /\ Renewing /\ BootstrapExports
  /\ Signing /\ BootstrapVerifies
=============================================================================
