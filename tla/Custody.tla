------------------------------- MODULE Custody -------------------------------
(***************************************************************************)
(* The keys an apiserver needs before it serves: the master key, in a file,*)
(* and the data key that seals secrets, wrapped in a row of the database.  *)
(* Processes boot, crash and boot again at any time, and operators rotate  *)
(* the master key.  A key is a name; Wrap and Unwrap are a pair of names.  *)
(***************************************************************************)
CONSTANTS
    Procs,            \* apiserver processes; a data key is named after its maker
    Rotators,         \* calls of RewrapDataKey
    Masters,
    Created,          \* the master key the first boot makes
    Absent, Partial,  \* no key file; one that was not written to the end
    NoKey

ASSUME CustodyAssumption ==
    /\ Created \in Masters
    /\ NoKey \notin Procs \cup Masters
    /\ Absent \notin Masters /\ Partial \notin Masters

VARIABLES
    file,             \* what the key file holds
    wrapped,          \* data_keys: the data key, and the master it is wrapped with
    boot,             \* how far a process has come
    master,           \* the master key it has unsealed
    dek,              \* the data key it has
    rotation          \* the data key a rotation has unwrapped, and the new master

custodyVars == <<file, wrapped, boot, master, dek, rotation>>
bootVars == <<boot, master, dek>>

Boots == {"down", "writing", "unsealed", "minting", "keyed", "counted", "up"}
NoRow == [key |-> NoKey, under |-> NoKey]

CustodyInit ==
    /\ file = Absent
    /\ wrapped = NoRow
    /\ boot = [p \in Procs |-> "down"]
    /\ master = [p \in Procs |-> NoKey]
    /\ dek = [p \in Procs |-> NoKey]
    /\ rotation = [o \in Rotators |-> NoRow]

\* The process ends: run returns an error, or it is killed.
Down(p) ==
    /\ boot' = [boot EXCEPT ![p] = "down"]
    /\ master' = [master EXCEPT ![p] = NoKey]
    /\ dek' = [dek EXCEPT ![p] = NoKey]

Boot(p, from, to) == boot[p] = from /\ boot' = [boot EXCEPT ![p] = to]

\* O_EXCL: one process creates the file.
CreateKeyFile(p) ==
    /\ file = Absent
    /\ Boot(p, "down", "writing")
    /\ file' = Partial
    /\ master' = [master EXCEPT ![p] = Created]
    /\ UNCHANGED <<wrapped, dek, rotation>>

WriteKeyFile(p) ==
    /\ Boot(p, "writing", "unsealed")
    /\ file' = master[p]
    /\ UNCHANGED <<wrapped, master, dek, rotation>>

\* A file that does not decode to a key ends the boot where it began.
Unseal(p) ==
    /\ file \in Masters
    /\ Boot(p, "down", "unsealed")
    /\ master' = [master EXCEPT ![p] = file]
    /\ UNCHANGED <<file, wrapped, dek, rotation>>

\* Unwrap with the process's master key, or fail.
TakeDataKey(p) ==
    IF wrapped.under = master[p]
    THEN /\ boot' = [boot EXCEPT ![p] = "keyed"]
         /\ dek' = [dek EXCEPT ![p] = wrapped.key]
         /\ UNCHANGED master
    ELSE Down(p)

\* GetDataKey; without a row, GenerateKey and Wrap.
LoadDataKey(p) ==
    /\ boot[p] = "unsealed"
    /\ IF wrapped # NoRow
       THEN TakeDataKey(p)
       ELSE /\ Boot(p, "unsealed", "minting")
            /\ dek' = [dek EXCEPT ![p] = p]
            /\ UNCHANGED master
    /\ UNCHANGED <<file, wrapped, rotation>>

\* Seeded fault: the one who comes second keeps the key it made.
FaultyInsertDataKey(p) ==
    /\ Boot(p, "minting", "keyed")
    /\ wrapped' = IF wrapped = NoRow THEN [key |-> dek[p], under |-> master[p]] ELSE wrapped
    /\ UNCHANGED <<file, master, dek, rotation>>

\* INSERT ... ON CONFLICT DO NOTHING; the one who comes second takes the first's.
InsertDataKey(p) ==
    /\ boot[p] = "minting"
    /\ IF wrapped = NoRow
       THEN /\ Boot(p, "minting", "keyed")
            /\ wrapped' = [key |-> dek[p], under |-> master[p]]
            /\ UNCHANGED <<master, dek>>
       ELSE TakeDataKey(p) /\ UNCHANGED wrapped
    /\ UNCHANGED <<file, rotation>>

Crash(p) ==
    /\ boot[p] # "down"
    /\ Down(p)
    /\ UNCHANGED <<file, wrapped, rotation>>

\* RewrapDataKey reads the row and opens it with the old master ...
BeginRewrap(o, new) ==
    /\ rotation[o] = NoRow
    /\ wrapped # NoRow
    /\ rotation' = [rotation EXCEPT ![o] = [key |-> wrapped.key, under |-> new]]
    /\ UNCHANGED <<file, wrapped, bootVars>>

\* ... and updates it whatever it has become.
FinishRewrap(o) ==
    /\ rotation[o] # NoRow
    /\ wrapped' = rotation[o]
    /\ rotation' = [rotation EXCEPT ![o] = NoRow]
    /\ UNCHANGED <<file, bootVars>>

AbandonRewrap(o) ==
    /\ rotation[o] # NoRow
    /\ rotation' = [rotation EXCEPT ![o] = NoRow]
    /\ UNCHANGED <<file, wrapped, bootVars>>

\* The operator puts a key file in place: the new master, or the wrong one.
InstallKeyFile(m) ==
    /\ \A p \in Procs : boot[p] # "writing"
    /\ file' = m
    /\ UNCHANGED <<wrapped, bootVars, rotation>>

CustodyNext ==
    \/ \E p \in Procs :
          \/ CreateKeyFile(p)
          \/ WriteKeyFile(p)
          \/ Unseal(p)
          \/ LoadDataKey(p)
          \/ InsertDataKey(p)
          \/ Crash(p)
    \/ \E o \in Rotators :
          \/ \E m \in Masters : BeginRewrap(o, m)
          \/ FinishRewrap(o)
          \/ AbandonRewrap(o)
    \/ \E m \in Masters : InstallKeyFile(m)

HasKey(p) == boot[p] \in {"keyed", "counted", "up"}

CustodyTypeOK ==
    /\ file \in Masters \cup {Absent, Partial}
    /\ wrapped \in [key : Procs \cup {NoKey}, under : Masters \cup {NoKey}]
    /\ boot \in [Procs -> Boots]
    /\ master \in [Procs -> Masters \cup {NoKey}]
    /\ dek \in [Procs -> Procs \cup {NoKey}]
    /\ rotation \in [Rotators -> [key : Procs \cup {NoKey}, under : Masters \cup {NoKey}]]
===============================================================================
