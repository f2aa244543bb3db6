---------------------------- MODULE OracleCatalog ----------------------------
(***************************************************************************)
(* Data sources and oracle scripts (chain/x/oracle handler and keeper) and *)
(* the file cache of one node that holds their executables and Wasm code   *)
(* (chain/pkg/filecache, gzip).  The stores name a file by the hash of its *)
(* content, so a file name is the content itself here.  The file cache is  *)
(* outside the store: it is neither rolled back nor committed.             *)
(***************************************************************************)
EXTENDS Integers, Sequences

CONSTANTS
  Owners,       \* accounts that own entries and send edits
  Codes,        \* ordinary file contents
  MaxEntries,   \* bound: entries of each kind
  MaxCrashes,   \* bound: crashes of the node
  DiskFails     \* whether a write to the file cache may fail

ASSUME BoundsAreNat == MaxEntries \in Nat /\ MaxCrashes \in Nat
ASSUME DiskFailsIsBoolean == DiskFails \in BOOLEAN

Kinds       == {"dataSource", "oracleScript"}
DoNotModify == "[do-not-modify]"

VARIABLES
  catalog,    \* data source and oracle script stores: kind -> sequence of entries
  open,       \* oracle script IDs of the requests that can still be resolved
  committed,  \* the stores as of the last commit
  files,      \* the node's file cache: content -> "absent", "whole", "partial"
  crashes

vars == <<catalog, open, committed, files, crashes>>

Bodies  == Codes \cup {DoNotModify, "empty", "short", "oversized"}
Uploads == [gz : BOOLEAN, body : Bodies]
Entry   == [owner : Owners, filename : Bodies]

Init ==
  /\ catalog = [kind \in Kinds |-> << >>]
  /\ open = {}
  /\ committed = [catalog |-> catalog, open |-> open]
  /\ files = [body \in Bodies |-> "absent"]
  /\ crashes = 0

-----------------------------------------------------------------------------
(* ValidateBasic of the create and of the edit messages sees the file as    *)
(* sent, compressed or not.                                                 *)
ValidateEdit(up)   == up.gz \/ up.body \notin {"empty", "oversized"}
ValidateCreate(up) == ValidateEdit(up) /\ (up.gz \/ up.body # DoNotModify)

(* IsGzipped panics on fewer than three bytes; Uncompress refuses what is   *)
(* too large once unpacked.  Either fails the transaction.                  *)
Uncompresses(up) == IF up.gz THEN up.body # "oversized" ELSE up.body # "short"

(* Keeper.AddFile: content other than the do-not-modify symbol is written   *)
(* if no file of its name is there; the error of the write is not looked    *)
(* at.  The name AddFile returns is the content itself here.                *)
AddFile(body) ==
  \E fails \in {FALSE, DiskFails} :
    files' = IF body # DoNotModify /\ files[body] = "absent" /\ ~fails
             THEN [files EXCEPT ![body] = "whole"]
             ELSE files

(* MustGetFile: a file that is missing or does not match its name panics. *)
CanGetFile(name) == files[name] = "whole"

modify(oldVal, newVal) == IF newVal = DoNotModify THEN oldVal ELSE newVal

(* handleMsgCreateDataSource and handleMsgCreateOracleScript. *)
Create(kind, owner, up) ==
  /\ Len(catalog[kind]) < MaxEntries
  /\ ValidateCreate(up)
  /\ Uncompresses(up)
  /\ AddFile(up.body)
  /\ catalog' = [catalog EXCEPT
       ![kind] = Append(@, [owner |-> owner, filename |-> up.body])]
  /\ UNCHANGED <<open, committed, crashes>>

(* A transaction that is rolled back after AddFile (out of gas, or another  *)
(* message of it failed): the stores are as before, the file stays.         *)
RollBack(up) ==
  /\ ValidateEdit(up)
  /\ Uncompresses(up)
  /\ AddFile(up.body)
  /\ UNCHANGED <<catalog, open, committed, crashes>>

(* Mutant: the file name is replaced even by the do-not-modify symbol. *)
EditAlwaysReplaces(kind, id, sender, owner, up) ==
  /\ id \in DOMAIN catalog[kind]
  /\ catalog[kind][id].owner = sender
  /\ ValidateEdit(up)
  /\ Uncompresses(up)
  /\ AddFile(up.body)
  /\ catalog' = [catalog EXCEPT
       ![kind][id] = [owner |-> owner, filename |-> up.body]]
  /\ UNCHANGED <<open, committed, crashes>>

(* Mutant: an edit does not store the file it names. *)
EditWithoutFile(kind, id, sender, owner, up) ==
  /\ id \in DOMAIN catalog[kind]
  /\ catalog[kind][id].owner = sender
  /\ ValidateEdit(up)
  /\ Uncompresses(up)
  /\ catalog' = [catalog EXCEPT
       ![kind][id] = [owner    |-> owner,
                      filename |-> modify(@.filename, up.body)]]
  /\ UNCHANGED <<open, committed, crashes, files>>

(* handleMsgEditDataSource and handleMsgEditOracleScript. *)
Edit(kind, id, sender, owner, up) ==
  /\ id \in DOMAIN catalog[kind]
  /\ catalog[kind][id].owner = sender
  /\ ValidateEdit(up)
  /\ Uncompresses(up)
  /\ AddFile(up.body)
  /\ catalog' = [catalog EXCEPT
       ![kind][id] = [owner    |-> owner,
                      filename |-> modify(@.filename, up.body)]]
  /\ UNCHANGED <<open, committed, crashes>>

(* PrepareRequest: the script exists and its code can be read; a panic of   *)
(* GetFile fails the transaction.                                           *)
Prepare(script) ==
  /\ script \in DOMAIN catalog["oracleScript"]
  /\ CanGetFile(catalog["oracleScript"][script].filename)
  /\ open' = open \cup {script}
  /\ UNCHANGED <<catalog, committed, files, crashes>>

(* ResolveRequest in the end blocker; it reads the code the script has now. *)
Resolve(script) ==
  /\ script \in open
  /\ script \in DOMAIN catalog["oracleScript"]
  /\ CanGetFile(catalog["oracleScript"][script].filename)
  /\ open' = open \ {script}
  /\ UNCHANGED <<catalog, committed, files, crashes>>

Commit ==
  /\ committed' = [catalog |-> catalog, open |-> open]
  /\ UNCHANGED <<catalog, open, files, crashes>>

(* The node stops and restarts from the last commit, to execute the block   *)
(* again.  If diskv was writing a file (external: it writes in place), what *)
(* was written of it stays.                                                 *)
Crash ==
  /\ crashes < MaxCrashes
  /\ \/ files' = files
     \/ \E up \in Uploads :
          /\ ValidateEdit(up)
          /\ Uncompresses(up)
          /\ up.body # DoNotModify
          /\ files[up.body] = "absent"
          /\ files' = [files EXCEPT ![up.body] = "partial"]
  /\ catalog' = committed.catalog
  /\ open' = committed.open
  /\ crashes' = crashes + 1
  /\ UNCHANGED committed

Next ==
  \/ \E kind \in Kinds, owner \in Owners, up \in Uploads :
        \/ Create(kind, owner, up)
        \/ \E id \in 1 .. MaxEntries, sender \in Owners :
              Edit(kind, id, sender, owner, up)
  \/ \E script \in 1 .. MaxEntries : Prepare(script) \/ Resolve(script)
  \/ \E up \in Uploads : RollBack(up)
  \/ Commit
  \/ Crash

Spec == Init /\ [][Next]_vars

-----------------------------------------------------------------------------
(* Type invariant.  IDs are dense from 1, an edit gives out none, and an    *)
(* open request is for a script the stores have.                            *)
TypeOK ==
  /\ catalog \in [Kinds -> Seq(Entry)]
  /\ open \subseteq DOMAIN catalog["oracleScript"]
  /\ committed \in [catalog : [Kinds -> Seq(Entry)], open : SUBSET Nat]
  /\ committed.open \subseteq DOMAIN committed.catalog["oracleScript"]
  /\ \A kind \in Kinds : Len(catalog[kind]) <= MaxEntries
  /\ \A kind \in Kinds : Len(committed.catalog[kind]) <= MaxEntries
  /\ files \in [Bodies -> {"absent", "whole", "partial"}]
  /\ crashes \in 0 .. MaxCrashes

Names(cat, body) ==
  \E kind \in Kinds : \E id \in DOMAIN cat[kind] : cat[kind][id].filename = body

(* The stores never name a content that the node has not put in its cache,  *)
(* in the executing block or the committed state, through crashes and       *)
(* restarts: files are written before the entry that names them, and edits  *)
(* with the do-not-modify symbol keep the old name.  ("AddFile saves the    *)
(* given data to a file", filecache.go.)                                    *)
NamedFilesWritten ==
  \A body \in Bodies \ {DoNotModify} :
     Names(catalog, body) \/ Names(committed.catalog, body) => files[body] # "absent"

NoPartialFile == \A body \in Bodies : files[body] # "partial"

FindsCode(cat, scripts) ==
  \A script \in scripts : CanGetFile(cat["oracleScript"][script].filename)

(* The end blocker can read the code of every request it may have to        *)
(* resolve, whatever was edited since the request was prepared, rolled back *)
(* or replayed after a crash that interrupted no write: otherwise           *)
(* ResolveRequest panics outside any transaction and the chain stops.       *)
ResolveFindsCode == NoPartialFile => FindsCode(catalog, open)
=============================================================================
