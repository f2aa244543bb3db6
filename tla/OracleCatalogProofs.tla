------------------------ MODULE OracleCatalogProofs ------------------------
(***************************************************************************)
(* Proofs about OracleCatalog, for every set of owners and contents and    *)
(* every number of entries.  The files the stores name are in the cache    *)
(* whatever crashes, as long as no write fails; the end blocker finds the  *)
(* code of every open request as long as, besides, no crash has            *)
(* interrupted a write.                                                    *)
(***************************************************************************)
EXTENDS OracleCatalog, SequenceTheorems, TLAPS

(* Modifying a name with a content gives a content. *)
LEMMA ModifyType ==
  ASSUME NEW old \in Bodies, NEW new \in Bodies
  PROVE  modify(old, new) \in Bodies
BY DEF modify

(* Writing a file keeps the cache's type and the files it has. *)
LEMMA AddFileKeeps ==
  ASSUME files \in [Bodies -> {"absent", "whole", "partial"}],
         NEW body \in Bodies, AddFile(body)
  PROVE  /\ files' \in [Bodies -> {"absent", "whole", "partial"}]
         /\ \A b \in Bodies : files[b] # "absent" => files'[b] = files[b]
         /\ \A b \in Bodies : files'[b] = "partial" => files[b] = "partial"
         /\ (body # DoNotModify /\ ~DiskFails) => files'[body] # "absent"
         /\ files[DoNotModify] = "absent" => files'[DoNotModify] = "absent"
<1>1. \/ files' = files /\ (body = DoNotModify \/ files[body] # "absent")
      \/ files' = files /\ DiskFails
      \/ body # DoNotModify /\ files' = [files EXCEPT ![body] = "whole"]
                            /\ files[body] = "absent"
  <2>1. PICK fails \in {FALSE, DiskFails} :
          files' = IF body # DoNotModify /\ files[body] = "absent" /\ ~fails
                   THEN [files EXCEPT ![body] = "whole"]
                   ELSE files
    BY DEF AddFile
  <2>2. CASE fails
    BY <2>1, <2>2
  <2>3. CASE ~fails
    BY <2>1, <2>3
  <2> QED
    BY <2>2, <2>3
<1>2. DoNotModify \in Bodies
  BY DEF Bodies
<1>3. CASE files' = files
  BY <1>1, <1>3
<1>4. CASE files' = [files EXCEPT ![body] = "whole"] /\ body # DoNotModify
                                                    /\ files[body] = "absent"
  BY <1>2, <1>4
<1> QED
  BY <1>1, <1>3, <1>4

(* A new entry of one kind leaves the other entries as they are. *)
LEMMA CreateStore ==
  ASSUME TypeOK, NEW kind \in Kinds, NEW owner \in Owners, NEW up \in Uploads,
         Create(kind, owner, up)
  PROVE  /\ catalog' \in [Kinds -> Seq(Entry)]
         /\ \A k \in Kinds : DOMAIN catalog[k] \subseteq DOMAIN catalog'[k]
         /\ \A k \in Kinds : \A id \in DOMAIN catalog[k] : catalog'[k][id] = catalog[k][id]
         /\ \A k \in Kinds : \A id \in DOMAIN catalog'[k] \ DOMAIN catalog[k] :
               catalog'[k][id].filename = up.body
         /\ \A k \in Kinds : Len(catalog'[k]) <= MaxEntries
<1> DEFINE e == [owner |-> owner, filename |-> up.body]
<1>1. e \in Entry
  BY DEF Entry, Uploads
<1>2. catalog' = [catalog EXCEPT ![kind] = Append(catalog[kind], e)]
  BY DEF Create
<1>3. catalog[kind] \in Seq(Entry) /\ Len(catalog[kind]) < MaxEntries
  BY DEF TypeOK, Create
<1> HIDE DEF e
<1>4. /\ Append(catalog[kind], e) \in Seq(Entry)
      /\ Len(Append(catalog[kind], e)) = Len(catalog[kind]) + 1
      /\ \A id \in 1 .. Len(catalog[kind]) : Append(catalog[kind], e)[id] = catalog[kind][id]
      /\ Append(catalog[kind], e)[Len(catalog[kind]) + 1] = e
  BY <1>1, <1>3
<1>5. \A k \in Kinds : catalog'[k] = IF k = kind THEN Append(catalog[kind], e) ELSE catalog[k]
  BY <1>2 DEF TypeOK
<1>6. catalog' \in [Kinds -> Seq(Entry)]
  BY <1>2, <1>4 DEF TypeOK
<1>7. \A k \in Kinds : DOMAIN catalog[k] = 1 .. Len(catalog[k])
  BY DEF TypeOK
<1>8. \A k \in Kinds : DOMAIN catalog'[k] = 1 .. Len(catalog'[k])
  BY <1>6
<1>9. Len(catalog[kind]) \in Nat
  BY <1>3
<1>10. e.filename = up.body
  BY DEF e
<1>11. \A k \in Kinds : Len(catalog[k]) \in Nat /\ Len(catalog[k]) <= MaxEntries
  BY DEF TypeOK
<1> SUFFICES ASSUME NEW k \in Kinds
             PROVE  /\ DOMAIN catalog[k] \subseteq DOMAIN catalog'[k]
                    /\ \A id \in DOMAIN catalog[k] : catalog'[k][id] = catalog[k][id]
                    /\ \A id \in DOMAIN catalog'[k] \ DOMAIN catalog[k] :
                          catalog'[k][id].filename = up.body
                    /\ Len(catalog'[k]) <= MaxEntries
  BY <1>6
<1>12. CASE k = kind
  <2>1. catalog'[k] = Append(catalog[kind], e)
    BY <1>5, <1>12
  <2>2. /\ DOMAIN catalog[k] = 1 .. Len(catalog[kind])
        /\ DOMAIN catalog'[k] = 1 .. Len(catalog[kind]) + 1
    BY <1>4, <1>7, <1>8, <1>12, <2>1
  <2> QED
    BY <1>3, <1>4, <1>9, <1>10, <1>12, <2>1, <2>2, BoundsAreNat
<1>13. CASE k # kind
  BY <1>5, <1>11, <1>13
<1> QED
  BY <1>12, <1>13

(* An edit replaces one entry, which keeps its name or takes the content's. *)
LEMMA EditStore ==
  ASSUME TypeOK, NEW kind \in Kinds, NEW id \in Nat, NEW sender \in Owners,
         NEW owner \in Owners, NEW up \in Uploads,
         Edit(kind, id, sender, owner, up)
  PROVE  /\ catalog' \in [Kinds -> Seq(Entry)]
         /\ \A k \in Kinds : DOMAIN catalog'[k] = DOMAIN catalog[k]
         /\ \A k \in Kinds : \A i \in DOMAIN catalog[k] :
               \/ catalog'[k][i].filename = catalog[k][i].filename
               \/ up.body # DoNotModify /\ catalog'[k][i].filename = up.body
         /\ \A k \in Kinds : Len(catalog'[k]) <= MaxEntries
<1> DEFINE s == catalog[kind]
           e == [owner |-> owner, filename |-> modify(s[id].filename, up.body)]
           t == [s EXCEPT ![id] = e]
<1>1. s \in Seq(Entry) /\ id \in DOMAIN s
  BY DEF TypeOK, Edit
<1>2. s[id] \in Entry
  BY <1>1
<1>3. e \in Entry
  BY <1>2, ModifyType DEF Entry, Uploads
<1>4. \/ e.filename = s[id].filename
      \/ up.body # DoNotModify /\ e.filename = up.body
  BY DEF modify
<1>5. catalog' = [catalog EXCEPT ![kind] = t]
  BY DEF Edit
<1> HIDE DEF e
<1>6. /\ t \in Seq(Entry)
      /\ Len(t) = Len(s)
      /\ DOMAIN t = DOMAIN s
      /\ \A i \in DOMAIN s : t[i] = IF i = id THEN e ELSE s[i]
  <2>1. DOMAIN s = 1 .. Len(s) /\ Len(s) \in Nat
    BY <1>1
  <2>2. DOMAIN t = DOMAIN s /\ \A i \in DOMAIN s : t[i] = IF i = id THEN e ELSE s[i]
    BY <1>1
  <2>3. t \in Seq(Entry) /\ Len(t) = Len(s)
    BY <1>1, <1>3, ExceptSeq
  <2> QED
    BY <2>2, <2>3
<1> HIDE DEF t
<1>7. \A k \in Kinds : catalog'[k] = IF k = kind THEN t ELSE catalog[k]
  BY <1>5 DEF TypeOK
<1>8. catalog' \in [Kinds -> Seq(Entry)]
  BY <1>5, <1>6 DEF TypeOK
<1> QED
  BY <1>4, <1>6, <1>7, <1>8 DEF TypeOK

-----------------------------------------------------------------------------
(* A step keeps the type invariant. *)
LEMMA NextTypeOK == TypeOK /\ [Next]_vars => TypeOK'
<1> SUFFICES ASSUME TypeOK, [Next]_vars PROVE TypeOK'
  OBVIOUS
<1>1. ASSUME NEW kind \in Kinds, NEW owner \in Owners, NEW up \in Uploads,
             Create(kind, owner, up)
      PROVE  TypeOK'
  <2>1. up.body \in Bodies /\ AddFile(up.body)
    BY <1>1 DEF Create, Uploads
  <2>2. files' \in [Bodies -> {"absent", "whole", "partial"}]
    BY <2>1, AddFileKeeps DEF TypeOK
  <2>3. "oracleScript" \in Kinds
    BY DEF Kinds
  <2>4. UNCHANGED <<open, committed, crashes>>
    BY <1>1 DEF Create
  <2> QED
    BY <1>1, <2>2, <2>3, <2>4, CreateStore DEF TypeOK
<1>2. ASSUME NEW kind \in Kinds, NEW owner \in Owners, NEW up \in Uploads,
             NEW id \in 1 .. MaxEntries, NEW sender \in Owners,
             Edit(kind, id, sender, owner, up)
      PROVE  TypeOK'
  <2>1. up.body \in Bodies /\ AddFile(up.body)
    BY <1>2 DEF Edit, Uploads
  <2>2. files' \in [Bodies -> {"absent", "whole", "partial"}]
    BY <2>1, AddFileKeeps DEF TypeOK
  <2>3. "oracleScript" \in Kinds
    BY DEF Kinds
  <2>4. UNCHANGED <<open, committed, crashes>> /\ id \in Nat
    BY <1>2, BoundsAreNat DEF Edit
  <2> QED
    BY <1>2, <2>2, <2>3, <2>4, EditStore DEF TypeOK
<1>3. ASSUME NEW script \in 1 .. MaxEntries, Prepare(script) \/ Resolve(script)
      PROVE  TypeOK'
  BY <1>3 DEF Prepare, Resolve, TypeOK
<1>4. ASSUME NEW up \in Uploads, RollBack(up)
      PROVE  TypeOK'
  <2>1. up.body \in Bodies /\ AddFile(up.body)
    BY <1>4 DEF RollBack, Uploads
  <2>2. files' \in [Bodies -> {"absent", "whole", "partial"}]
    BY <2>1, AddFileKeeps DEF TypeOK
  <2> QED
    BY <1>4, <2>2 DEF RollBack, TypeOK
<1>5. CASE Commit
  <2>1. open \subseteq Nat
    BY DEF TypeOK, Kinds
  <2> QED
    BY <1>5, <2>1 DEF Commit, TypeOK
<1>6. CASE Crash
  <2>1. files' \in [Bodies -> {"absent", "whole", "partial"}]
    BY <1>6 DEF Crash, TypeOK
  <2>2. crashes' \in 0 .. MaxCrashes
    BY <1>6, BoundsAreNat DEF Crash, TypeOK
  <2> QED
    BY <1>6, <2>1, <2>2 DEF Crash, TypeOK
<1>7. CASE UNCHANGED vars
  BY <1>7 DEF vars, TypeOK
<1> QED
  BY <1>1, <1>2, <1>3, <1>4, <1>5, <1>6, <1>7 DEF Next

(* Init satisfies the type invariant. *)
LEMMA InitTypeOK == Init => TypeOK
<1> SUFFICES ASSUME Init PROVE TypeOK
  OBVIOUS
<1>1. catalog = [kind \in Kinds |-> << >>] /\ open = {}
  BY DEF Init
<1>2. << >> \in Seq(Entry) /\ Len(<< >>) = 0
  OBVIOUS
<1>3. committed = [catalog |-> catalog, open |-> {}]
  BY DEF Init
<1> QED
  BY <1>1, <1>2, <1>3, BoundsAreNat DEF Init, TypeOK

(* The type invariant: dense IDs, open requests for existing scripts.        *)
THEOREM CatalogTypeCorrect == Spec => []TypeOK
BY InitTypeOK, NextTypeOK, PTL DEF Spec

-----------------------------------------------------------------------------
(* Whatever an operation makes the stores name was named before or is the   *)
(* content it was given; the files there stay.                              *)
LEMMA NewNamesAreWritten ==
  ASSUME TypeOK, NamedFilesWritten, ~DiskFails, NEW up \in Uploads,
         AddFile(up.body), committed' = committed,
         \A body \in Bodies : Names(catalog', body) =>
            Names(catalog, body) \/ body = up.body
  PROVE  NamedFilesWritten'
<1>1. up.body \in Bodies
  BY DEF Uploads
<1>2. /\ \A b \in Bodies : files[b] # "absent" => files'[b] = files[b]
      /\ up.body # DoNotModify => files'[up.body] # "absent"
  BY <1>1, AddFileKeeps DEF TypeOK
<1> SUFFICES ASSUME NEW body \in Bodies \ {DoNotModify},
                    Names(catalog', body) \/ Names(committed'.catalog, body)
             PROVE  files'[body] # "absent"
  BY DEF NamedFilesWritten, Names
<1>3. Names(catalog, body) \/ Names(committed.catalog, body) \/ body = up.body
  OBVIOUS
<1> QED
  BY <1>2, <1>3 DEF NamedFilesWritten

(* A step keeps every named file written. *)
LEMMA NextNamedFilesWritten ==
  ASSUME TypeOK, NamedFilesWritten, ~DiskFails, [Next]_vars
  PROVE  NamedFilesWritten'
<1>1. ASSUME NEW kind \in Kinds, NEW owner \in Owners, NEW up \in Uploads,
             Create(kind, owner, up)
      PROVE  NamedFilesWritten'
  <2>1. AddFile(up.body) /\ committed' = committed
    BY <1>1 DEF Create
  <2>2. \A body \in Bodies : Names(catalog', body) =>
           Names(catalog, body) \/ body = up.body
    BY <1>1, CreateStore DEF Names
  <2> QED
    BY <2>1, <2>2, NewNamesAreWritten
<1>2. ASSUME NEW kind \in Kinds, NEW owner \in Owners, NEW up \in Uploads,
             NEW id \in 1 .. MaxEntries, NEW sender \in Owners,
             Edit(kind, id, sender, owner, up)
      PROVE  NamedFilesWritten'
  <2>1. AddFile(up.body) /\ committed' = committed /\ id \in Nat
    BY <1>2, BoundsAreNat DEF Edit
  <2>2. \A body \in Bodies : Names(catalog', body) =>
           Names(catalog, body) \/ body = up.body
    BY <1>2, <2>1, EditStore DEF Names
  <2> QED
    BY <2>1, <2>2, NewNamesAreWritten
<1>3. ASSUME NEW script \in 1 .. MaxEntries, Prepare(script) \/ Resolve(script)
      PROVE  NamedFilesWritten'
  BY <1>3 DEF Prepare, Resolve, NamedFilesWritten, Names
<1>4. ASSUME NEW up \in Uploads, RollBack(up)
      PROVE  NamedFilesWritten'
  <2>1. AddFile(up.body) /\ committed' = committed /\ catalog' = catalog
    BY <1>4 DEF RollBack
  <2> QED
    BY <2>1, NewNamesAreWritten DEF Names
<1>5. CASE Commit
  BY <1>5 DEF Commit, NamedFilesWritten, Names
<1>6. CASE Crash
  <2>1. catalog' = committed.catalog /\ committed' = committed
    BY <1>6 DEF Crash
  <2>2. \A b \in Bodies : files[b] # "absent" => files'[b] # "absent"
    BY <1>6 DEF Crash, TypeOK
  <2> QED
    BY <2>1, <2>2 DEF NamedFilesWritten, Names
<1>7. CASE UNCHANGED vars
  BY <1>7 DEF vars, NamedFilesWritten, Names
<1> QED
  BY <1>1, <1>2, <1>3, <1>4, <1>5, <1>6, <1>7 DEF Next

(* However often the node crashes, in the middle of writing a file or not,  *)
(* the stores, committed or not, name no content that the cache has not     *)
(* been given, if no write fails.                                           *)
THEOREM NamedFilesAreWritten ==
  ASSUME ~DiskFails
  PROVE  Spec => []NamedFilesWritten
<1>1. Init => NamedFilesWritten
  <2> SUFFICES ASSUME Init PROVE NamedFilesWritten
    OBVIOUS
  <2>1. committed.catalog = catalog /\ catalog = [kind \in Kinds |-> << >>]
    BY DEF Init
  <2>2. DOMAIN << >> = {}
    OBVIOUS
  <2> QED
    BY <2>1, <2>2 DEF NamedFilesWritten, Names
<1>2. TypeOK /\ NamedFilesWritten /\ [Next]_vars => NamedFilesWritten'
  BY NextNamedFilesWritten
<1> QED
  BY <1>1, <1>2, CatalogTypeCorrect, PTL DEF Spec

-----------------------------------------------------------------------------
(* After a crash the open requests are those of the last commit. *)
CommittedFindsCode ==
  NoPartialFile => FindsCode(committed.catalog, committed.open)

(* The file names of a store's scripts are contents. *)
LEMMA ScriptNames ==
  ASSUME NEW cat \in [Kinds -> Seq(Entry)],
         NEW scripts, scripts \subseteq DOMAIN cat["oracleScript"],
         NEW script \in scripts
  PROVE  cat["oracleScript"][script].filename \in Bodies
<1>1. cat["oracleScript"] \in Seq(Entry)
  BY DEF Kinds
<1>2. cat["oracleScript"][script] \in Entry
  BY <1>1
<1> QED
  BY <1>2 DEF Entry

(* An operation that writes a file, leaves the open requests alone and lets *)
(* their scripts keep their names or take the one just written, keeps the   *)
(* code of open requests readable.                                          *)
LEMMA WriteKeepsCode ==
  ASSUME TypeOK, ResolveFindsCode, CommittedFindsCode, ~DiskFails,
         NEW up \in Uploads, AddFile(up.body), UNCHANGED <<open, committed>>,
         \A script \in open :
            \/ catalog'["oracleScript"][script].filename
                 = catalog["oracleScript"][script].filename
            \/ /\ up.body # DoNotModify
               /\ catalog'["oracleScript"][script].filename = up.body
  PROVE  ResolveFindsCode' /\ CommittedFindsCode'
<1>1. up.body \in Bodies
  BY DEF Uploads
<1>2. /\ files' \in [Bodies -> {"absent", "whole", "partial"}]
      /\ \A b \in Bodies : files[b] # "absent" => files'[b] = files[b]
      /\ up.body # DoNotModify => files'[up.body] # "absent"
  BY <1>1, AddFileKeeps DEF TypeOK
<1> SUFFICES ASSUME NoPartialFile'
             PROVE  /\ FindsCode(catalog, open)'
                    /\ FindsCode(committed.catalog, committed.open)'
  BY DEF ResolveFindsCode, CommittedFindsCode
<1>3. NoPartialFile
  BY <1>2 DEF NoPartialFile
<1>4. /\ \A b \in Bodies : CanGetFile(b) => CanGetFile(b)'
      /\ up.body # DoNotModify => CanGetFile(up.body)'
  BY <1>1, <1>2 DEF NoPartialFile, CanGetFile
<1>5. FindsCode(catalog, open)'
  <2>1. \A script \in open : catalog["oracleScript"][script].filename \in Bodies
    BY ScriptNames DEF TypeOK
  <2> QED
    BY <1>3, <1>4, <2>1 DEF ResolveFindsCode, FindsCode, CanGetFile
<1>6. FindsCode(committed.catalog, committed.open)'
  <2>1. \A script \in committed.open :
           committed.catalog["oracleScript"][script].filename \in Bodies
    BY ScriptNames DEF TypeOK
  <2> QED
    BY <1>3, <1>4, <2>1 DEF CommittedFindsCode, FindsCode, CanGetFile
<1> QED
  BY <1>5, <1>6

(* A step keeps the code of open requests readable, in the executing block  *)
(* and in the committed state a crash returns to.                           *)
LEMMA NextResolveFindsCode ==
  ASSUME TypeOK, ResolveFindsCode, CommittedFindsCode, ~DiskFails, [Next]_vars
  PROVE  ResolveFindsCode' /\ CommittedFindsCode'
<1>1. "oracleScript" \in Kinds /\ open \subseteq DOMAIN catalog["oracleScript"]
  BY DEF Kinds, TypeOK
<1>2. ASSUME NEW kind \in Kinds, NEW owner \in Owners, NEW up \in Uploads,
             Create(kind, owner, up)
      PROVE  ResolveFindsCode' /\ CommittedFindsCode'
  <2>1. AddFile(up.body) /\ UNCHANGED <<open, committed>>
    BY <1>2 DEF Create
  <2>2. \A script \in open :
           catalog'["oracleScript"][script] = catalog["oracleScript"][script]
    BY <1>1, <1>2, CreateStore
  <2> QED
    BY <2>1, <2>2, WriteKeepsCode
<1>3. ASSUME NEW kind \in Kinds, NEW owner \in Owners, NEW up \in Uploads,
             NEW id \in 1 .. MaxEntries, NEW sender \in Owners,
             Edit(kind, id, sender, owner, up)
      PROVE  ResolveFindsCode' /\ CommittedFindsCode'
  <2>1. AddFile(up.body) /\ UNCHANGED <<open, committed>> /\ id \in Nat
    BY <1>3, BoundsAreNat DEF Edit
  <2>2. \A script \in open :
           \/ catalog'["oracleScript"][script].filename
                = catalog["oracleScript"][script].filename
           \/ /\ up.body # DoNotModify
              /\ catalog'["oracleScript"][script].filename = up.body
    BY <1>1, <1>3, <2>1, EditStore
  <2> QED
    BY <2>1, <2>2, WriteKeepsCode
<1>4. ASSUME NEW script \in 1 .. MaxEntries, Prepare(script) \/ Resolve(script)
      PROVE  ResolveFindsCode' /\ CommittedFindsCode'
  BY <1>4 DEF Prepare, Resolve, NoPartialFile, ResolveFindsCode,
              CommittedFindsCode, FindsCode, CanGetFile
<1>5. ASSUME NEW up \in Uploads, RollBack(up)
      PROVE  ResolveFindsCode' /\ CommittedFindsCode'
  <2>1. AddFile(up.body) /\ UNCHANGED <<open, catalog, committed>>
    BY <1>5 DEF RollBack
  <2> QED
    BY <2>1, WriteKeepsCode
<1>6. CASE Commit
  BY <1>6 DEF Commit, NoPartialFile, ResolveFindsCode, CommittedFindsCode,
              FindsCode, CanGetFile
<1>7. CASE Crash
  <2>1. /\ catalog' = committed.catalog
        /\ open' = committed.open
        /\ committed' = committed
    BY <1>7 DEF Crash
  <2>2. NoPartialFile' => files' = files
    BY <1>7 DEF Crash, NoPartialFile, TypeOK, Uploads
  <2> QED
    BY <2>1, <2>2 DEF NoPartialFile, ResolveFindsCode, CommittedFindsCode,
                      FindsCode, CanGetFile
<1>8. CASE UNCHANGED vars
  BY <1>8 DEF vars, NoPartialFile, ResolveFindsCode, CommittedFindsCode,
              FindsCode, CanGetFile
<1> QED
  BY <1>2, <1>3, <1>4, <1>5, <1>6, <1>7, <1>8 DEF Next

(* As long as no write fails and no crash has interrupted one, the end      *)
(* blocker can read the code of every request that is open, whatever the    *)
(* owners of its script have done to it since PrepareRequest, compressed    *)
(* uploads included, and however often the node restarted.                  *)
THEOREM OpenRequestsFindCode ==
  ASSUME ~DiskFails
  PROVE  Spec => []ResolveFindsCode
<1>1. Init => ResolveFindsCode /\ CommittedFindsCode
  <2> SUFFICES ASSUME Init PROVE ResolveFindsCode /\ CommittedFindsCode
    OBVIOUS
  <2>1. open = {} /\ committed.open = {}
    BY DEF Init
  <2> QED
    BY <2>1 DEF ResolveFindsCode, CommittedFindsCode, FindsCode
<1>2. TypeOK /\ ResolveFindsCode /\ CommittedFindsCode /\ [Next]_vars
        => ResolveFindsCode' /\ CommittedFindsCode'
  BY NextResolveFindsCode
<1> QED
  BY <1>1, <1>2, CatalogTypeCorrect, PTL DEF Spec
=============================================================================
