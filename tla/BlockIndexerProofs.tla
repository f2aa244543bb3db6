------------------------- MODULE BlockIndexerProofs -------------------------
(***************************************************************************)
(* Proofs about BlockIndexer, for any number of blocks, transactions,      *)
(* requests and crashes.                                                   *)
(***************************************************************************)
EXTENDS BlockIndexer, SequenceTheorems, TLAPS

-----------------------------------------------------------------------------
(* What DeliverTx does to the application and to the transaction of the     *)
(* database: nothing, a row, or a row with the request or report that the   *)
(* application executed; or a panic.                                        *)
LEMMA DeliverTxCases ==
  ASSUME DeliverTx, TypeOK
  PROVE  LET t == decided[Height][next] IN
    /\ phase = "deliver" /\ next' = next + 1
    /\ UNCHANGED <<decided, app, db, crashes, lost>>
    /\ \/ /\ ~IsOK(t) /\ deliver' = deliver
       \/ /\ IsOK(t) /\ t.msg \in Requests
          /\ \E R \in {deliver.repeated, deliver.repeated \cup {deliver.requests + 1}} :
               deliver' = [deliver EXCEPT !.requests = deliver.requests + 1, !.repeated = R]
       \/ /\ IsOK(t) /\ t.msg \notin Requests
          /\ t.msg = "report" /\ t.id \in 1 .. deliver.requests
          /\ deliver' = [deliver EXCEPT !.reported = deliver.reported \cup {t.id}]
    /\ \/ phase' = phase /\ tx' = tx /\ tx.last + 1 # Height
       \/ /\ phase' = phase /\ ~IsOK(t) /\ ~Panics(t)
          /\ tx' = WithTx(t) /\ tx.last + 1 = Height
       \/ /\ phase' = phase /\ IsOK(t) /\ ~Panics(t)
          /\ tx' = WithMessage(t) /\ tx.last + 1 = Height
       \/ phase' = "panicked" /\ tx' = tx /\ Panics(t)
  <1> DEFINE t == decided[Height][next]
  <1>1. deliver' = Executed(t)
    BY DEF DeliverTx
  <1>2. \/ ~IsOK(t) /\ deliver' = deliver
        \/ /\ IsOK(t) /\ t.msg \in Requests
           /\ \E R \in {deliver.repeated, deliver.repeated \cup {deliver.requests + 1}} :
                deliver' = [deliver EXCEPT !.requests = deliver.requests + 1, !.repeated = R]
        \/ /\ IsOK(t) /\ t.msg \notin Requests
           /\ t.msg = "report" /\ t.id \in 1 .. deliver.requests
           /\ deliver' = [deliver EXCEPT !.reported = deliver.reported \cup {t.id}]
    <2>1. CASE t.msg \in Requests
      <3>1. IsOK(t) /\ t.msg # "report"
        BY <2>1 DEF IsOK, Requests
      <3> QED
        BY <1>1, <2>1, <3>1 DEF Executed
    <2>2. CASE t.msg \notin Requests
      <3>1. IsOK(t) => t.msg = "report" /\ t.id \in 1 .. deliver.requests
        BY <2>2 DEF IsOK
      <3> QED
        BY <1>1, <2>2, <3>1 DEF Executed
    <2> QED
      BY <2>1, <2>2
  <1> QED
    BY <1>2 DEF DeliverTx

(* A transaction adds at most a request, or a report of one. *)
LEMMA DeliverGrows ==
  ASSUME DeliverTx, TypeOK
  PROVE  /\ deliver' \in App
         /\ deliver'.height = deliver.height /\ deliver'.resolved = deliver.resolved
         /\ deliver'.requests \in {deliver.requests, deliver.requests + 1}
         /\ deliver.reported \subseteq deliver'.reported
         /\ deliver'.reported \subseteq deliver.reported \cup 1 .. deliver.requests
  <1> DEFINE t == decided[Height][next]
  <1>0. deliver \in App /\ deliver.requests \in Nat
    BY DEF TypeOK, App
  <1>1. \/ deliver' = deliver
        \/ \E R \in {deliver.repeated, deliver.repeated \cup {deliver.requests + 1}} :
             deliver' = [deliver EXCEPT !.requests = deliver.requests + 1, !.repeated = R]
        \/ /\ t.id \in 1 .. deliver.requests
           /\ deliver' = [deliver EXCEPT !.reported = deliver.reported \cup {t.id}]
    BY DeliverTxCases
  <1>2. CASE deliver' = deliver
    BY <1>0, <1>2
  <1>3. ASSUME NEW R \in {deliver.repeated, deliver.repeated \cup {deliver.requests + 1}},
               deliver' = [deliver EXCEPT !.requests = deliver.requests + 1, !.repeated = R]
        PROVE  /\ deliver' \in App
               /\ deliver'.height = deliver.height /\ deliver'.resolved = deliver.resolved
               /\ deliver'.requests = deliver.requests + 1
               /\ deliver.reported = deliver'.reported
    <2>1. R \in SUBSET Nat /\ deliver.requests + 1 \in Nat
      BY <1>0 DEF App
    <2> DEFINE n == deliver.requests + 1
    <2>2. deliver' = [deliver EXCEPT !.requests = n, !.repeated = R] /\ n \in Nat
      BY <1>3, <2>1
    <2> HIDE DEF n
    <2>3. deliver' \in App
      BY <1>0, <2>1, <2>2 DEF App
    <2>4. /\ deliver'.height = deliver.height /\ deliver'.resolved = deliver.resolved
          /\ deliver'.requests = n /\ deliver'.reported = deliver.reported
      BY <1>0, <2>2 DEF App
    <2> QED
      BY <2>3, <2>4 DEF n
  <1>4. CASE /\ t.id \in 1 .. deliver.requests
             /\ deliver' = [deliver EXCEPT !.reported = deliver.reported \cup {t.id}]
    BY <1>0, <1>4 DEF App
  <1> QED
    BY <1>1, <1>2, <1>3, <1>4

-----------------------------------------------------------------------------
(* Every step keeps the types. *)
LEMMA TypeStep == TypeOK /\ [Next]_vars => TypeOK'
<1> SUFFICES ASSUME TypeOK, [Next]_vars PROVE TypeOK'
  OBVIOUS
<1> USE DEF TypeOK, App, Database
<1>1. CASE InitChain
  BY <1>1 DEF InitChain
<1>2. CASE BeginBlock
  <2>1. /\ phase' = "deliver" /\ next' = 1
        /\ deliver' = [app EXCEPT !.height = app.height + 1]
        /\ tx' = [db EXCEPT !.blocks = db.blocks \cup {Height}]
        /\ UNCHANGED <<app, db, lost>>
    BY <1>2 DEF BeginBlock
  <2> QED
    BY <2>1 DEF Height
<1>3. CASE DeliverTx
  <2> DEFINE t == decided[Height][next]
  <2>1. deliver' \in App
    BY <1>3, DeliverGrows
  <2>2. WithTx(t) \in Database
    BY DEF WithTx, Height
  <2>3. IsOK(t) => WithMessage(t) \in Database
    BY <2>2 DEF IsOK, WithMessage
  <2>4. tx' \in Database
    BY <1>3, <2>2, <2>3, DeliverTxCases
  <2> QED
    BY <1>3, <2>1, <2>4, DeliverTxCases
<1>4. CASE EndBlock
  <2>1. NewlyResolved \subseteq Nat \X Nat
    BY DEF NewlyResolved, Height
  <2>2. WithEvents \in Database
    <3> DEFINE R == tx.resolved \cup {r \in NewlyResolved : r[1] \in tx.requests}
    <3>1. R \in SUBSET (Nat \X Nat)
      BY <2>1
    <3>2. WithEvents = [tx EXCEPT !.last = Height, !.resolved = R]
      BY DEF WithEvents
    <3> HIDE DEF R
    <3>3. Height \in Nat
      BY DEF Height
    <3> QED
      BY <3>1, <3>2, <3>3
  <2>3. deliver' \in App
    BY <1>4, <2>1 DEF EndBlock
  <2> QED
    BY <1>4, <2>2, <2>3 DEF EndBlock
<1>5. CASE CommitApp
  BY <1>5 DEF CommitApp
<1>6. CASE CommitDB
  BY <1>6 DEF CommitDB
<1>7. CASE Crash
  BY <1>7 DEF Crash
<1>8. CASE UNCHANGED vars
  BY <1>8 DEF vars
<1> QED
  BY <1>1, <1>2, <1>3, <1>4, <1>5, <1>6, <1>7, <1>8 DEF Next

(* The application, the database and its transaction are well typed. *)
THEOREM TypeCorrect == Spec => []TypeOK
<1>1. Init => TypeOK
  BY DEF Init, TypeOK, App, Database
<1> QED
  BY <1>1, TypeStep, PTL DEF Spec

-----------------------------------------------------------------------------
(* The database is never ahead of the application, nor its transaction of   *)
(* the block that is executed.                                              *)
AheadInv ==
  /\ NeverAhead(db, app)
  /\ phase \in {"deliver", "ended"} =>
       /\ NeverAhead(tx, deliver) /\ NeverAhead(db, deliver)
       /\ deliver.height = Height
  /\ phase = "committed" => NeverAhead(tx, app)

LEMMA AheadStep == TypeOK /\ AheadInv /\ [Next]_vars => AheadInv'
<1> SUFFICES ASSUME TypeOK, AheadInv, [Next]_vars PROVE AheadInv'
  OBVIOUS
<1> USE DEF TypeOK, App, Database, AheadInv, Height
<1>1. CASE InitChain
  BY <1>1 DEF InitChain, NeverAhead
<1>2. CASE BeginBlock
  <2>1. /\ phase' = "deliver"
        /\ deliver' = [app EXCEPT !.height = app.height + 1]
        /\ tx' = [db EXCEPT !.blocks = db.blocks \cup {Height}]
        /\ UNCHANGED <<app, db>>
    BY <1>2 DEF BeginBlock
  <2>2. NeverAhead(tx', deliver') /\ NeverAhead(db', deliver')
    BY <2>1 DEF NeverAhead
  <2> QED
    BY <2>1, <2>2
<1>3. CASE DeliverTx
  <2> DEFINE t == decided[Height][next]
  <2>1. deliver'.height = deliver.height /\ deliver'.resolved = deliver.resolved
    BY <1>3, DeliverGrows
  <2>2. NeverAhead(tx, deliver') /\ NeverAhead(db, deliver')
    <3>1. phase = "deliver"
      BY <1>3 DEF DeliverTx
    <3>2. 1 .. deliver.requests \subseteq 1 .. deliver'.requests
      BY <1>3, DeliverGrows
    <3> QED
      BY <1>3, <2>1, <3>1, <3>2, DeliverGrows DEF NeverAhead
  <2>3. NeverAhead(WithTx(t), deliver')
    BY <1>3, <2>1, <2>2, DeliverTxCases DEF NeverAhead, WithTx
  <2>4. IsOK(t) => NeverAhead(WithMessage(t), deliver')
    <3> SUFFICES ASSUME IsOK(t) PROVE NeverAhead(WithMessage(t), deliver')
      OBVIOUS
    <3>1. CASE t.msg \in Requests
      <4>1. PICK R : deliver' = [deliver EXCEPT !.requests = deliver.requests + 1,
                                                !.repeated = R]
        BY <1>3, <3>1, DeliverTxCases
      <4>2. WithMessage(t) = [WithTx(t) EXCEPT !.requests = tx.requests \cup {deliver.requests + 1}]
        BY <3>1 DEF WithMessage, WithTx
      <4> QED
        BY <1>3, <2>3, <4>1, <4>2, DeliverTxCases DEF NeverAhead, WithTx
    <3>2. CASE t.msg \notin Requests
      <4>1. deliver' = [deliver EXCEPT !.reported = deliver.reported \cup {t.id}]
        BY <1>3, <3>2, DeliverTxCases
      <4>2. WithMessage(t) = [WithTx(t) EXCEPT !.reports = tx.reports \cup {t.id}]
        BY <3>2 DEF WithMessage, WithTx
      <4> QED
        BY <1>3, <2>3, <4>1, <4>2, DeliverTxCases DEF NeverAhead, WithTx
    <3> QED
      BY <3>1, <3>2
  <2>5. phase' \in {"deliver", "panicked"} /\ UNCHANGED <<app, db>>
    BY <1>3, DeliverTxCases
  <2>6. phase' = "deliver" => NeverAhead(tx', deliver')
    BY <1>3, <2>2, <2>3, <2>4, DeliverTxCases
  <2> QED
    BY <1>3, <2>1, <2>2, <2>5, <2>6, DeliverTxCases
<1>4. CASE EndBlock
  <2>1. phase = "deliver" /\ phase' = "ended" /\ UNCHANGED <<app, db>>
    BY <1>4 DEF EndBlock
  <2>2. deliver' = [deliver EXCEPT !.resolved = deliver.resolved \cup NewlyResolved]
    BY <1>4 DEF EndBlock
  <2>3. tx' = [tx EXCEPT !.last = Height,
                        !.resolved = tx.resolved \cup {r \in NewlyResolved : r[1] \in tx.requests}]
    BY <1>4 DEF EndBlock, WithEvents
  <2>4. NeverAhead(tx', deliver') /\ NeverAhead(db', deliver')
    BY <2>1, <2>2, <2>3 DEF NeverAhead
  <2> QED
    BY <2>1, <2>2, <2>4
<1>5. CASE CommitApp
  BY <1>5 DEF CommitApp
<1>6. CASE CommitDB
  BY <1>6 DEF CommitDB, NeverAhead
<1>7. CASE Crash
  BY <1>7 DEF Crash, NeverAhead
<1>8. CASE UNCHANGED vars
  BY <1>8 DEF vars, NeverAhead
<1> QED
  BY <1>1, <1>2, <1>3, <1>4, <1>5, <1>6, <1>7, <1>8 DEF Next

(* The order of Commit, for any bounds: the committed database never has a  *)
(* block, a transaction, a request or a result that the application could   *)
(* still lose in a crash.                                                   *)
THEOREM DatabaseNeverAhead == Spec => []DBNeverAhead
<1>1. Init => AheadInv
  BY DEF Init, AheadInv, NeverAhead
<1>2. AheadInv => DBNeverAhead
  BY DEF AheadInv, DBNeverAhead
<1> QED
  BY <1>1, <1>2, TypeCorrect, AheadStep, PTL DEF Spec

-----------------------------------------------------------------------------
(* As long as no block is lost the database has every request, and in the   *)
(* transaction every request of the block that is executed.                 *)
InStep ==
  /\ phase = "start" => app.height = 0
  /\ PanicHasCause
  /\ lost = {} =>
       /\ phase # "committed" => db.requests = 1 .. app.requests
       /\ phase \in {"idle", "deliver", "ended"} => db.last = app.height
       /\ phase = "panicked" /\ app.height > 0 => db.last = app.height
       /\ phase = "deliver" =>
            tx.last = app.height /\ tx.requests = 1 .. deliver.requests
       /\ phase = "ended" =>
            tx.last = deliver.height /\ tx.requests = 1 .. deliver.requests
       /\ phase = "committed" =>
            tx.last = app.height /\ tx.requests = 1 .. app.requests

LEMMA InStepStep == TypeOK /\ AheadInv /\ InStep /\ [Next]_vars => InStep'
<1> SUFFICES ASSUME TypeOK, AheadInv, InStep, [Next]_vars PROVE InStep'
  OBVIOUS
<1> USE DEF TypeOK, App, Database, InStep, PanicHasCause, Height
<1>1. CASE InitChain
  BY <1>1 DEF InitChain
<1>2. CASE BeginBlock
  <2>1. /\ phase = "idle" /\ phase' = "deliver"
        /\ deliver' = [app EXCEPT !.height = app.height + 1]
        /\ tx' = [db EXCEPT !.blocks = db.blocks \cup {Height}]
        /\ UNCHANGED <<app, db, lost>>
    BY <1>2 DEF BeginBlock
  <2> QED
    BY <2>1
<1>3. CASE DeliverTx
  <2> DEFINE t == decided[Height][next]
  <2>1. phase = "deliver" /\ UNCHANGED <<decided, app, db, lost>> /\ next' - 1 = next
    BY <1>3 DEF DeliverTx
  <2>2. phase' \in {"deliver", "panicked"}
    BY <1>3, DeliverTxCases
  <2>a. ASSUME lost = {}, phase' = "panicked" PROVE t.msg \in Poison
    <3>1. tx.requests = 1 .. deliver.requests /\ Panics(t)
      BY <1>3, <2>1, <2>a, DeliverTxCases
    <3> QED
      BY <3>1 DEF Panics, IsOK, Requests
  <2> SUFFICES ASSUME lost = {}, phase' = "deliver"
               PROVE  tx'.last = app.height /\ tx'.requests = 1 .. deliver'.requests
    BY <2>1, <2>2, <2>a
  <2>3. tx.last + 1 = Height /\ tx.requests = 1 .. deliver.requests
    BY <2>1
  <2>4. phase' = "deliver"
    OBVIOUS
  <2>5. CASE ~IsOK(t)
    BY <1>3, <2>3, <2>4, <2>5, DeliverTxCases DEF WithTx
  <2>6. CASE IsOK(t) /\ t.msg \in Requests
    <3>1. tx' = WithMessage(t) /\ deliver'.requests = deliver.requests + 1
      BY <1>3, <2>3, <2>4, <2>6, DeliverTxCases
    <3>2. tx'.last = tx.last /\ tx'.requests = tx.requests \cup {deliver.requests + 1}
      BY <3>1, <2>6 DEF WithMessage, WithTx
    <3> QED
      BY <2>3, <2>4, <3>1, <3>2
  <2>7. CASE IsOK(t) /\ t.msg \notin Requests
    <3>1. tx' = WithMessage(t) /\ deliver'.requests = deliver.requests
      BY <1>3, <2>3, <2>4, <2>7, DeliverTxCases
    <3>2. tx'.last = tx.last /\ tx'.requests = tx.requests
      BY <3>1, <2>7 DEF WithMessage, WithTx
    <3> QED
      BY <2>3, <2>4, <3>1, <3>2
  <2> QED
    BY <2>5, <2>6, <2>7
<1>4. CASE EndBlock
  <2>1. /\ phase = "deliver" /\ phase' = "ended" /\ UNCHANGED <<app, db, lost>>
        /\ deliver'.requests = deliver.requests /\ deliver'.height = deliver.height
        /\ tx'.last = Height /\ tx'.requests = tx.requests
    BY <1>4 DEF EndBlock, WithEvents
  <2> QED
    BY <2>1 DEF AheadInv
<1>5. CASE CommitApp
  BY <1>5 DEF CommitApp
<1>6. CASE CommitDB
  BY <1>6 DEF CommitDB
<1>7. CASE Crash
  BY <1>7 DEF Crash
<1>8. CASE UNCHANGED vars
  BY <1>8 DEF vars
<1> QED
  BY <1>1, <1>2, <1>3, <1>4, <1>5, <1>6, <1>7, <1>8 DEF Next

(* The database stops the node only if a crash came before the first block  *)
(* or between the two commits of one, or at a transaction that cannot be    *)
(* written, for any bounds: no other block, no failed transaction and no    *)
(* other crash makes DeliverTx panic.                                       *)
THEOREM PanicNeedsCause == Spec => []PanicHasCause
<1>1. Init => AheadInv /\ InStep
  BY DEF Init, AheadInv, NeverAhead, InStep, PanicHasCause
<1>2. InStep => PanicHasCause
  BY DEF InStep
<1> QED
  BY <1>1, <1>2, TypeCorrect, AheadStep, InStepStep, PTL DEF Spec

-----------------------------------------------------------------------------
(* What is missing in the database. *)

(* d has the blocks up to a height, and their transactions, except what the *)
(* crashes at the heights in lost cost.                                     *)
Indexed(d, upto) ==
  \A h \in 1 .. upto :
    /\ h \in d.blocks <=> h \notin lost
    /\ \A i \in 1 .. Len(decided[h]) :
         <<h, i>> \in d.txs <=> {h - 1, h} \cap lost = {}

(* Nothing of a block after a height. *)
NothingAfter(d, upto) ==
  (\A h \in d.blocks : h <= upto) /\ (\A row \in d.txs : row[1] <= upto)

BlocksDecided ==
  /\ decided \in Seq(Seq(Tx))
  /\ app.height <= Len(decided)
  /\ phase \in {"deliver", "ended"} => Height <= Len(decided)

(* The transaction of the database is the database, the new block, and the  *)
(* transactions that were delivered, if the database has the block before.  *)
TxExtends(delivered) ==
  /\ tx.blocks = db.blocks \cup {Height}
  /\ tx.txs = IF db.last = app.height THEN db.txs \cup ({Height} \X (1 .. delivered))
                                      ELSE db.txs

MissingInv ==
  /\ BlocksDecided
  /\ phase # "committed" =>
       /\ lost \subseteq 1 .. app.height
       /\ Indexed(db, app.height) /\ NothingAfter(db, app.height)
       /\ phase \in {"idle", "deliver", "ended"} \/ app.height > 0 =>
            (db.last = app.height <=> app.height \notin lost)
  /\ phase = "deliver" => TxExtends(next - 1) /\ tx.last = db.last /\ next > 0
  /\ phase = "ended" => TxExtends(Len(decided[Height])) /\ tx.last = Height
  /\ phase = "committed" =>
       /\ app.height > 0 /\ lost \subseteq 1 .. app.height - 1
       /\ Indexed(db, app.height - 1) /\ NothingAfter(db, app.height - 1)
       /\ db.last < app.height
       /\ Indexed(tx, app.height) /\ tx.last = app.height
       /\ NothingAfter(tx, app.height)

LEMMA BlockIsSeq == Block \subseteq Seq(Tx)
  BY DEF Block

(* BeginBlock executes a block that is decided, and keeps the older ones. *)
LEMMA BeginBlockDecides ==
  ASSUME TypeOK, BlocksDecided, BeginBlock
  PROVE  /\ decided' \in Seq(Seq(Tx)) /\ Height <= Len(decided')
         /\ \A h \in 1 .. app.height : decided'[h] = decided[h]
<1>1. app.height \in Nat /\ Len(decided) \in Nat
  BY LenProperties DEF TypeOK, App, BlocksDecided
<1>2. CASE Len(decided) > app.height
  BY <1>1, <1>2 DEF BeginBlock, BlocksDecided, Height
<1>3. CASE ~(Len(decided) > app.height)
  <2>1. PICK block \in Block : decided' = Append(decided, block)
    BY <1>3 DEF BeginBlock
  <2>2. block \in Seq(Tx) /\ decided \in Seq(Seq(Tx))
    BY BlockIsSeq DEF BlocksDecided
  <2>3. /\ decided' \in Seq(Seq(Tx)) /\ Len(decided') = Len(decided) + 1
        /\ \A h \in 1 .. Len(decided) : decided'[h] = decided[h]
    BY <2>1, <2>2, AppendProperties
  <2> QED
    BY <1>1, <1>3, <2>3 DEF BlocksDecided, Height
<1> QED
  BY <1>2, <1>3

(* The whole block was delivered: the transaction of the database is        *)
(* complete for it.                                                         *)
LEMMA BlockIndexed ==
  ASSUME TypeOK, BlocksDecided, Height <= Len(decided),
         lost \subseteq 1 .. app.height,
         Indexed(db, app.height), NothingAfter(db, app.height),
         db.last = app.height <=> app.height \notin lost,
         TxExtends(Len(decided[Height]))
  PROVE  Indexed(tx, Height) /\ NothingAfter(tx, Height)
<1>1. /\ app.height \in Nat /\ Height = app.height + 1
      /\ db \in Database
      /\ decided \in Seq(Seq(Tx)) /\ Len(decided) \in Nat
  BY LenProperties DEF TypeOK, App, Height, BlocksDecided
<1>2. Len(decided[Height]) \in Nat
  <2>1. Height \in 1 .. Len(decided)
    BY <1>1
  <2>2. decided[Height] \in Seq(Tx)
    BY <1>1, <2>1, ElementOfSeq
  <2> QED
    BY <2>2, LenProperties
<1>3. \A h \in 1 .. app.height : h # Height /\ h \in 1 .. Height
  BY <1>1
<1>4. \A h \in 1 .. Height : h \in 1 .. app.height \/ h = Height
  BY <1>1
<1>5. ASSUME NEW h \in 1 .. app.height
      PROVE  /\ h \in tx.blocks <=> h \notin lost
             /\ \A i \in 1 .. Len(decided[h]) :
                  <<h, i>> \in tx.txs <=> {h - 1, h} \cap lost = {}
  BY <1>3 DEF TxExtends, Indexed
<1>6. Height \in tx.blocks /\ Height \notin lost
  BY <1>1 DEF TxExtends
<1>7. ASSUME NEW i \in 1 .. Len(decided[Height])
      PROVE  <<Height, i>> \in tx.txs <=> {Height - 1, Height} \cap lost = {}
  <2>1. <<Height, i>> \notin db.txs
    BY <1>1 DEF NothingAfter
  <2>2. {Height - 1, Height} \cap lost = {} <=> app.height \notin lost
    BY <1>1, <1>6
  <2> QED
    BY <2>1, <2>2 DEF TxExtends
<1>8. Indexed(tx, Height)
  BY <1>4, <1>5, <1>6, <1>7 DEF Indexed
<1>9. NothingAfter(tx, Height)
  BY <1>1 DEF NothingAfter, TxExtends, Database
<1> QED
  BY <1>8, <1>9

LEMMA MissingStep == TypeOK /\ AheadInv /\ MissingInv /\ [Next]_vars => MissingInv'
<1> SUFFICES ASSUME TypeOK, AheadInv, MissingInv, [Next]_vars PROVE MissingInv'
  OBVIOUS
<1>0. /\ app.height \in Nat /\ Height = app.height + 1 /\ next \in Nat
      /\ BlocksDecided
  BY DEF TypeOK, App, Height, MissingInv
<1>1. CASE InitChain
  <2>1. /\ phase = "start" /\ phase' \in {"idle", "panicked"}
        /\ UNCHANGED <<decided, app, lost>>
        /\ db'.blocks = db.blocks /\ db'.txs = db.txs
        /\ \/ db.last = -1 /\ db'.last = 0
           \/ db' = db /\ phase' = "panicked"
    BY <1>1 DEF InitChain, TypeOK, Database
  <2>2. /\ Indexed(db, app.height)' /\ NothingAfter(db, app.height)'
    BY <2>1 DEF MissingInv, Indexed, NothingAfter
  <2> QED
    BY <1>0, <2>1, <2>2 DEF MissingInv, BlocksDecided
<1>2. CASE BeginBlock
  <2>1. /\ phase = "idle" /\ phase' = "deliver" /\ next' = 1
        /\ tx' = [db EXCEPT !.blocks = db.blocks \cup {Height}]
        /\ UNCHANGED <<app, db, lost>> /\ Height' = Height
    BY <1>2 DEF BeginBlock, Height
  <2>2. /\ decided' \in Seq(Seq(Tx)) /\ Height <= Len(decided')
        /\ \A h \in 1 .. app.height : decided'[h] = decided[h]
    BY <1>0, <1>2, BeginBlockDecides
  <2>3. BlocksDecided'
    BY <1>0, <2>1, <2>2, LenProperties DEF BlocksDecided, Height
  <2>4. Indexed(db, app.height)' /\ NothingAfter(db, app.height)'
    BY <2>1, <2>2 DEF MissingInv, Indexed, NothingAfter
  <2>5. tx'.blocks = db.blocks \cup {Height} /\ tx'.txs = db.txs /\ tx'.last = db.last
    BY <2>1 DEF TypeOK, Database
  <2>6. {Height} \X (1 .. next' - 1) = {}
    BY <2>1
  <2>7. TxExtends(next - 1)'
    BY <2>1, <2>5, <2>6 DEF TxExtends
  <2> QED
    BY <2>1, <2>3, <2>4, <2>5, <2>7 DEF MissingInv
<1>3. CASE DeliverTx
  <2> DEFINE t == decided[Height][next]
  <2>1. /\ phase = "deliver" /\ next' = next + 1
        /\ UNCHANGED <<decided, app, db, lost>> /\ Height' = Height
        /\ phase' \in {"deliver", "panicked"}
    BY <1>3, DeliverTxCases DEF Height
  <2>2. tx.last = db.last /\ next > 0 /\ TxExtends(next - 1)
    BY <2>1 DEF MissingInv
  <2>3. ASSUME phase' = "deliver"
        PROVE  /\ tx'.blocks = tx.blocks /\ tx'.last = tx.last
               /\ tx'.txs = IF db.last = app.height THEN tx.txs \cup {<<Height, next>>}
                                                    ELSE tx.txs
    <3>1. CASE tx.last + 1 # Height
      BY <1>0, <1>3, <2>2, <2>3, <3>1, DeliverTxCases
    <3>2. CASE tx.last + 1 = Height
      <4>1. tx' = WithTx(t) \/ tx' = WithMessage(t)
        BY <1>3, <2>1, <2>3, <3>2, DeliverTxCases
      <4>2. db.last = app.height
        BY <1>0, <2>2, <3>2 DEF TypeOK, Database
      <4> QED
        BY <4>1, <4>2 DEF WithTx, WithMessage, TypeOK, Database
    <3> QED
      BY <3>1, <3>2
  <2>4. {Height} \X (1 .. next' - 1) = ({Height} \X (1 .. next - 1)) \cup {<<Height, next>>}
    <3>1. 1 .. next' - 1 = (1 .. next - 1) \cup {next}
      BY <1>0, <2>1, <2>2
    <3> QED
      BY <3>1
  <2>5. phase' = "deliver" => TxExtends(next - 1)'
    BY <2>1, <2>2, <2>3, <2>4 DEF TxExtends
  <2>6. BlocksDecided' /\ Indexed(db, app.height)' /\ NothingAfter(db, app.height)'
    BY <1>0, <2>1 DEF BlocksDecided, MissingInv, Indexed, NothingAfter
  <2> QED
    BY <1>0, <2>1, <2>2, <2>3, <2>5, <2>6 DEF MissingInv
<1>4. CASE EndBlock
  <2>1. /\ phase = "deliver" /\ phase' = "ended" /\ next = Len(decided[Height]) + 1
        /\ UNCHANGED <<decided, app, db, lost>> /\ Height' = Height
        /\ tx'.blocks = tx.blocks /\ tx'.txs = tx.txs /\ tx'.last = Height
    BY <1>4 DEF EndBlock, WithEvents, Height, TypeOK, Database
  <2>2. Len(decided[Height]) \in Nat
    <3>1. decided \in Seq(Seq(Tx)) /\ Height \in 1 .. Len(decided)
      BY <1>0, <2>1, LenProperties DEF BlocksDecided
    <3>2. decided[Height] \in Seq(Tx)
      BY <3>1, ElementOfSeq
    <3> QED
      BY <3>2, LenProperties
  <2>3. TxExtends(Len(decided[Height]))'
    <3>1. TxExtends(next - 1) /\ next - 1 = Len(decided[Height])
      BY <2>1, <2>2 DEF MissingInv
    <3> QED
      BY <2>1, <3>1 DEF TxExtends
  <2>4. BlocksDecided' /\ Indexed(db, app.height)' /\ NothingAfter(db, app.height)'
    BY <1>0, <2>1 DEF BlocksDecided, MissingInv, Indexed, NothingAfter
  <2> QED
    BY <2>1, <2>3, <2>4 DEF MissingInv
<1>5. CASE CommitApp
  <2>1. /\ phase = "ended" /\ phase' = "committed" /\ app'.height = Height
        /\ UNCHANGED <<decided, db, tx, lost>>
    BY <1>5 DEF CommitApp, AheadInv
  <2>2. Indexed(tx, Height) /\ NothingAfter(tx, Height)
    BY <1>0, <2>1, BlockIndexed DEF MissingInv, BlocksDecided
  <2>3. app'.height - 1 = app.height /\ app'.height > 0
    BY <1>0, <2>1
  <2>4. db.last <= app.height /\ db.last \in Int
    BY DEF AheadInv, NeverAhead, TypeOK, Database
  <2>5. Indexed(tx, app.height)' /\ NothingAfter(tx, app.height)'
    BY <2>1, <2>2 DEF Indexed, NothingAfter
  <2>6. Indexed(db, app.height - 1)' /\ NothingAfter(db, app.height - 1)'
    BY <2>1, <2>3 DEF MissingInv, Indexed, NothingAfter
  <2>7. BlocksDecided'
    BY <1>0, <2>1 DEF BlocksDecided
  <2> QED
    BY <1>0, <2>1, <2>3, <2>4, <2>5, <2>6, <2>7 DEF MissingInv
<1>6. CASE CommitDB
  <2>1. /\ phase = "committed" /\ phase' = "idle" /\ db' = tx
        /\ UNCHANGED <<decided, app, tx, lost>>
    BY <1>6 DEF CommitDB
  <2>2. Indexed(db, app.height)' /\ NothingAfter(db, app.height)'
    BY <2>1 DEF MissingInv, Indexed, NothingAfter
  <2>3. lost \subseteq 1 .. app.height /\ app.height \notin lost
    BY <1>0, <2>1 DEF MissingInv
  <2> QED
    BY <1>0, <2>1, <2>2, <2>3 DEF MissingInv, BlocksDecided
<1>7. CASE Crash
  <2>1. /\ phase' = (IF app.height = 0 THEN "start" ELSE "idle")
        /\ UNCHANGED <<decided, app, db>>
        /\ lost' = IF phase = "committed" THEN lost \cup {app.height} ELSE lost
    BY <1>7 DEF Crash
  <2>2. BlocksDecided'
    BY <1>0, <2>1 DEF BlocksDecided
  <2>3. CASE phase # "committed"
    <3>1. Indexed(db, app.height)' /\ NothingAfter(db, app.height)'
      BY <2>1, <2>3 DEF MissingInv, Indexed, NothingAfter
    <3> QED
      BY <1>0, <2>1, <2>2, <2>3, <3>1 DEF MissingInv
  <2>4. CASE phase = "committed"
    <3>1. /\ app.height > 0 /\ lost \subseteq 1 .. app.height - 1
          /\ Indexed(db, app.height - 1) /\ NothingAfter(db, app.height - 1)
          /\ db.last < app.height
      BY <2>4 DEF MissingInv
    <3>2. lost' = lost \cup {app.height} /\ lost' \subseteq 1 .. app.height
      <4>1. lost' = lost \cup {app.height}
        BY <2>1, <2>4
      <4>2. app.height \in 1 .. app.height /\ 1 .. app.height - 1 \subseteq 1 .. app.height
        BY <1>0, <3>1
      <4> QED
        BY <3>1, <4>1, <4>2
    <3>3. Indexed(db, app.height)'
      <4> SUFFICES ASSUME NEW h \in 1 .. app.height
                   PROVE  /\ h \in db.blocks <=> h \notin lost'
                          /\ \A i \in 1 .. Len(decided[h]) :
                               <<h, i>> \in db.txs <=> {h - 1, h} \cap lost' = {}
        BY <2>1 DEF Indexed
      <4>1. CASE h = app.height
        <5>1. h \notin db.blocks /\ \A i : <<h, i>> \notin db.txs
          BY <1>0, <3>1, <4>1 DEF NothingAfter
        <5> QED
          BY <3>2, <4>1, <5>1
      <4>2. CASE h # app.height
        <5>1. h \in 1 .. app.height - 1
          BY <1>0, <4>2
        <5>2. {h - 1, h} \cap lost' = {h - 1, h} \cap lost /\ (h \in lost' <=> h \in lost)
          BY <1>0, <3>2, <5>1
        <5> QED
          BY <3>1, <5>1, <5>2 DEF Indexed
      <4> QED
        BY <4>1, <4>2
    <3>4. NothingAfter(db, app.height)'
      BY <1>0, <2>1, <3>1 DEF NothingAfter, TypeOK, Database
    <3> QED
      BY <1>0, <2>1, <2>2, <3>1, <3>2, <3>3, <3>4 DEF MissingInv
  <2> QED
    BY <2>3, <2>4
<1>8. CASE UNCHANGED vars
  BY <1>8 DEF vars, MissingInv, BlocksDecided, Indexed, NothingAfter, TxExtends, Height
<1> QED
  BY <1>1, <1>2, <1>3, <1>4, <1>5, <1>6, <1>7, <1>8 DEF Next

LEMMA InitMissing == Init => MissingInv
<1> SUFFICES ASSUME Init PROVE MissingInv
  OBVIOUS
<1>1. /\ phase = "start" /\ app.height = 0 /\ decided = << >> /\ lost = {}
      /\ db.blocks = {} /\ db.txs = {}
  BY DEF Init
<1>2. BlocksDecided
  BY <1>1 DEF BlocksDecided
<1> QED
  BY <1>1, <1>2 DEF MissingInv, Indexed, NothingAfter

(* Commit and DeliverTx's check of last_processed_height, for any number of *)
(* crashes: the database lacks exactly the blocks in whose two commits the  *)
(* node crashed, and the transactions of these and of the ones after them.  *)
THEOREM OnlyLostMissing == Spec => []OnlyLostBlocksMissing
<1>1. Init => AheadInv
  BY DEF Init, AheadInv, NeverAhead
<1>2. MissingInv => OnlyLostBlocksMissing
  BY DEF MissingInv, OnlyLostBlocksMissing, Indexed
<1> QED
  BY <1>1, <1>2, InitMissing, TypeCorrect, AheadStep, MissingStep, PTL DEF Spec

-----------------------------------------------------------------------------
(* Blocks with transactions that cannot be written. *)

Poisoned(h) == \E i \in DOMAIN decided[h] : decided[h][i].msg \in Poison

(* What was delivered of the block can be written, unless it is skipped.    *)
PoisonInv ==
  /\ PoisonOnlyIfSkipped
  /\ phase = "deliver" /\ app.height \notin lost =>
       \A i \in 1 .. next - 1 : decided[Height][i].msg \notin Poison
  /\ phase = "ended" /\ Poisoned(Height) => app.height \in lost

LEMMA PoisonStep == TypeOK /\ AheadInv /\ MissingInv /\ PoisonInv /\ [Next]_vars => PoisonInv'
<1> SUFFICES ASSUME TypeOK, AheadInv, MissingInv, PoisonInv, [Next]_vars PROVE PoisonInv'
  OBVIOUS
<1>0. /\ app.height \in Nat /\ Height = app.height + 1 /\ next \in Nat
      /\ BlocksDecided /\ PoisonOnlyIfSkipped
  BY DEF TypeOK, App, Height, MissingInv, PoisonInv
<1>1. CASE InitChain
  BY <1>0, <1>1 DEF InitChain, PoisonInv, PoisonOnlyIfSkipped
<1>2. CASE BeginBlock
  <2>1. phase' = "deliver" /\ next' = 1 /\ UNCHANGED <<app, lost>>
    BY <1>2 DEF BeginBlock
  <2>2. \A h \in 1 .. app.height : decided'[h] = decided[h]
    BY <1>0, <1>2, BeginBlockDecides
  <2>3. PoisonOnlyIfSkipped'
    BY <1>0, <2>1, <2>2 DEF PoisonOnlyIfSkipped
  <2> QED
    BY <2>1, <2>3 DEF PoisonInv
<1>3. CASE DeliverTx
  <2> DEFINE t == decided[Height][next]
  <2>1. /\ phase = "deliver" /\ next' = next + 1 /\ phase' \in {"deliver", "panicked"}
        /\ UNCHANGED <<decided, app, lost>> /\ Height' = Height
    BY <1>3, DeliverTxCases DEF Height
  <2>2. app.height \notin lost => tx.last + 1 = Height
    BY <1>0, <2>1 DEF MissingInv
  <2>3. app.height \notin lost /\ phase' = "deliver" => t.msg \notin Poison
    BY <1>3, <2>1, <2>2, DeliverTxCases DEF Panics
  <2>4. \A i \in 1 .. next' - 1 : i \in 1 .. next - 1 \/ i = next
    BY <1>0, <2>1
  <2>5. PoisonOnlyIfSkipped'
    BY <1>0, <2>1 DEF PoisonOnlyIfSkipped
  <2> QED
    BY <2>1, <2>3, <2>4, <2>5 DEF PoisonInv
<1>4. CASE EndBlock
  <2>1. /\ phase = "deliver" /\ phase' = "ended" /\ next = Len(decided[Height]) + 1
        /\ UNCHANGED <<decided, app, lost>> /\ Height' = Height
    BY <1>4 DEF EndBlock, Height
  <2>2. DOMAIN decided[Height] = 1 .. next - 1
    <3>1. decided \in Seq(Seq(Tx)) /\ Height \in 1 .. Len(decided)
      BY <1>0, <2>1, LenProperties DEF BlocksDecided
    <3>2. decided[Height] \in Seq(Tx)
      BY <3>1, ElementOfSeq
    <3>3. Len(decided[Height]) \in Nat /\ DOMAIN decided[Height] = 1 .. Len(decided[Height])
      BY <3>2, LenProperties
    <3> QED
      BY <2>1, <3>3
  <2>3. PoisonOnlyIfSkipped'
    BY <1>0, <2>1 DEF PoisonOnlyIfSkipped
  <2>4. Poisoned(Height) => app.height \in lost
    BY <2>1, <2>2 DEF PoisonInv, Poisoned
  <2> QED
    BY <2>1, <2>3, <2>4 DEF PoisonInv, Poisoned
<1>5. CASE CommitApp
  <2>1. /\ phase = "ended" /\ phase' = "committed" /\ app'.height = Height
        /\ UNCHANGED <<decided, lost>>
    BY <1>5 DEF CommitApp, AheadInv
  <2>2. Poisoned(Height) => Height - 1 \in lost
    BY <1>0, <2>1 DEF PoisonInv
  <2>3. \A h \in 1 .. app'.height : h \in 1 .. app.height \/ h = Height
    BY <1>0, <2>1
  <2>4. PoisonOnlyIfSkipped'
    BY <1>0, <2>1, <2>2, <2>3 DEF PoisonOnlyIfSkipped, Poisoned
  <2> QED
    BY <2>1, <2>4 DEF PoisonInv
<1>6. CASE CommitDB
  BY <1>0, <1>6 DEF CommitDB, PoisonInv, PoisonOnlyIfSkipped
<1>7. CASE Crash
  <2>1. /\ phase' \in {"start", "idle"} /\ UNCHANGED <<decided, app>> /\ lost \subseteq lost'
    BY <1>7 DEF Crash
  <2> QED
    BY <1>0, <2>1 DEF PoisonInv, PoisonOnlyIfSkipped
<1>8. CASE UNCHANGED vars
  BY <1>8 DEF vars, PoisonInv, PoisonOnlyIfSkipped, Poisoned, Height
<1> QED
  BY <1>1, <1>2, <1>3, <1>4, <1>5, <1>6, <1>7, <1>8 DEF Next

(* HandleTransaction's panic, for any number of crashes: the chain never    *)
(* gets past a block with a transaction that cannot be written, unless the  *)
(* two commits of the block before it were torn apart.                      *)
THEOREM PoisonStops == Spec => []PoisonOnlyIfSkipped
<1>1. Init => AheadInv /\ PoisonInv
  BY DEF Init, AheadInv, NeverAhead, PoisonInv, PoisonOnlyIfSkipped
<1>2. PoisonInv => PoisonOnlyIfSkipped
  BY DEF PoisonInv
<1> QED
  BY <1>1, <1>2, InitMissing, TypeCorrect, AheadStep, MissingStep, PoisonStep, PTL DEF Spec

-----------------------------------------------------------------------------
(* The status of the requests in the database. *)

(* d has the results that a has, of its own requests and outside the        *)
(* heights in l.                                                            *)
ResolvedAgrees(d, a, l) ==
  d.resolved = {r \in a.resolved : r[1] \in d.requests /\ r[2] \notin l}

(* Reports and results are about requests that exist; results are dated.    *)
Dated(a) ==
  /\ a.reported \subseteq 1 .. a.requests
  /\ \A r \in a.resolved : r[1] \in 1 .. a.requests /\ r[2] <= a.height

StatusInv ==
  /\ Dated(app)
  /\ phase \in {"deliver", "ended"} => Dated(deliver)
  /\ phase # "committed" => ResolvedAgrees(db, app, lost)
  /\ phase = "deliver" =>
       ResolvedAgrees(tx, deliver, lost) /\ deliver.resolved = app.resolved
  /\ phase = "ended" =>
       ResolvedAgrees(tx, deliver, lost) /\ ResolvedAgrees(db, deliver, lost \cup {Height})
  /\ phase = "committed" =>
       ResolvedAgrees(tx, app, lost) /\ ResolvedAgrees(db, app, lost \cup {app.height})

LEMMA StatusStep == TypeOK /\ AheadInv /\ MissingInv /\ StatusInv /\ [Next]_vars => StatusInv'
<1> SUFFICES ASSUME TypeOK, AheadInv, MissingInv, StatusInv, [Next]_vars PROVE StatusInv'
  OBVIOUS
<1>0. /\ app \in App /\ deliver \in App /\ tx \in Database /\ db \in Database
      /\ app.height \in Nat /\ Height = app.height + 1 /\ Dated(app)
  BY DEF TypeOK, App, Height, StatusInv
<1>1. CASE InitChain
  <2>1. /\ phase = "start" /\ phase' \in {"idle", "panicked"}
        /\ UNCHANGED <<app, lost>>
        /\ db'.requests = db.requests /\ db'.resolved = db.resolved
    BY <1>1 DEF InitChain, TypeOK, Database
  <2> QED
    BY <1>0, <2>1 DEF StatusInv, ResolvedAgrees, Dated
<1>2. CASE BeginBlock
  <2>1. /\ phase = "idle" /\ phase' = "deliver" /\ UNCHANGED <<app, db, lost>>
        /\ deliver' = [app EXCEPT !.height = app.height + 1]
        /\ tx' = [db EXCEPT !.blocks = db.blocks \cup {Height}]
    BY <1>2 DEF BeginBlock
  <2>2. /\ tx'.requests = db.requests /\ tx'.resolved = db.resolved
        /\ deliver'.requests = app.requests /\ deliver'.reported = app.reported
        /\ deliver'.resolved = app.resolved /\ deliver'.height = app.height + 1
    BY <1>0, <2>1 DEF App, Database
  <2>3. Dated(deliver')
    BY <1>0, <2>2 DEF Dated, App
  <2> QED
    BY <1>0, <2>1, <2>2, <2>3 DEF StatusInv, ResolvedAgrees
<1>3. CASE DeliverTx
  <2> DEFINE t == decided[Height][next]
  <2>1. /\ phase = "deliver" /\ UNCHANGED <<app, db, lost>>
        /\ phase' \in {"deliver", "panicked"}
    BY <1>3, DeliverTxCases
  <2>2. /\ Dated(deliver) /\ ResolvedAgrees(tx, deliver, lost)
        /\ deliver.resolved = app.resolved /\ ResolvedAgrees(db, app, lost)
    BY <2>1 DEF StatusInv
  <2>3. deliver'.height = deliver.height /\ deliver'.resolved = deliver.resolved
    BY <1>3, DeliverGrows
  <2>4. Dated(deliver')
    <3>1. /\ deliver'.requests \in {deliver.requests, deliver.requests + 1}
          /\ deliver'.reported \subseteq deliver.reported \cup 1 .. deliver.requests
      BY <1>3, DeliverGrows
    <3> QED
      BY <1>0, <2>2, <2>3, <3>1 DEF Dated, App
  <2>5. ASSUME phase' = "deliver"
        PROVE  /\ tx'.resolved = tx.resolved
               /\ tx'.requests \in {tx.requests, tx.requests \cup {deliver.requests + 1}}
    BY <1>0, <1>3, <2>1, <2>5, DeliverTxCases DEF WithTx, WithMessage, Database
  <2>6. \A r \in deliver.resolved : r[1] # deliver.requests + 1
    BY <1>0, <2>2 DEF Dated, App
  <2>7. phase' = "deliver" => ResolvedAgrees(tx', deliver', lost)
    BY <2>2, <2>3, <2>5, <2>6 DEF ResolvedAgrees
  <2> QED
    BY <1>0, <2>1, <2>2, <2>3, <2>4, <2>7 DEF StatusInv
<1>4. CASE EndBlock
  <2>1. /\ phase = "deliver" /\ phase' = "ended" /\ UNCHANGED <<app, db, lost>>
        /\ Height' = Height
    BY <1>4 DEF EndBlock, Height
  <2>2. /\ deliver'.resolved = deliver.resolved \cup NewlyResolved
        /\ deliver'.requests = deliver.requests /\ deliver'.reported = deliver.reported
        /\ deliver'.height = deliver.height
    BY <1>0, <1>4 DEF EndBlock, App
  <2>3. /\ tx'.requests = tx.requests
        /\ tx'.resolved = tx.resolved \cup {r \in NewlyResolved : r[1] \in tx.requests}
    BY <1>0, <1>4 DEF EndBlock, WithEvents, Database
  <2>4. /\ Dated(deliver) /\ ResolvedAgrees(tx, deliver, lost)
        /\ deliver.resolved = app.resolved /\ ResolvedAgrees(db, app, lost)
    BY <2>1 DEF StatusInv
  <2>5. \A r \in NewlyResolved : r[1] \in deliver.reported /\ r[2] = Height
    BY DEF NewlyResolved
  <2>6. Height \notin lost /\ deliver.height = Height
    BY <1>0, <2>1 DEF MissingInv, AheadInv
  <2>7. Dated(deliver')
    BY <1>0, <2>2, <2>4, <2>5, <2>6 DEF Dated, App
  <2>8. ResolvedAgrees(tx', deliver', lost)
    BY <2>2, <2>3, <2>4, <2>5, <2>6 DEF ResolvedAgrees
  <2>9. ResolvedAgrees(db, deliver', lost \cup {Height})
    <3>1. \A r \in app.resolved : r[2] # Height
      BY <1>0 DEF Dated, App
    <3> QED
      BY <2>2, <2>4, <2>5, <3>1 DEF ResolvedAgrees
  <2> QED
    BY <1>0, <2>1, <2>4, <2>7, <2>8, <2>9 DEF StatusInv
<1>5. CASE CommitApp
  <2>1. /\ phase = "ended" /\ phase' = "committed" /\ app' = deliver
        /\ UNCHANGED <<db, tx, lost>> /\ deliver.height = Height
    BY <1>5 DEF CommitApp, AheadInv
  <2> QED
    BY <2>1 DEF StatusInv
<1>6. CASE CommitDB
  BY <1>6 DEF CommitDB, StatusInv
<1>7. CASE Crash
  <2>1. /\ phase' \in {"start", "idle"} /\ UNCHANGED <<app, db>>
        /\ lost' = IF phase = "committed" THEN lost \cup {app.height} ELSE lost
    BY <1>7 DEF Crash
  <2> QED
    BY <1>0, <2>1 DEF StatusInv
<1>8. CASE UNCHANGED vars
  BY <1>8 DEF vars, StatusInv, Height
<1> QED
  BY <1>1, <1>2, <1>3, <1>4, <1>5, <1>6, <1>7, <1>8 DEF Next

(* HandleEndblockEvents, for any number of crashes: a request that has a    *)
(* row has the status it has on the chain, unless it was resolved in a lost *)
(* block.                                                                   *)
THEOREM StatusesAgree == Spec => []StatusAgrees
<1>1. Init => AheadInv /\ MissingInv /\ StatusInv
  <2> SUFFICES ASSUME Init PROVE AheadInv /\ MissingInv /\ StatusInv
    OBVIOUS
  <2>1. AheadInv
    BY DEF Init, AheadInv, NeverAhead
  <2>2. MissingInv
    BY InitMissing
  <2>3. StatusInv
    BY DEF Init, StatusInv, Dated, ResolvedAgrees
  <2> QED
    BY <2>1, <2>2, <2>3
<1>2. StatusInv => StatusAgrees
  BY DEF StatusInv, StatusAgrees, ResolvedAgrees
<1> QED
  BY <1>1, <1>2, TypeCorrect, AheadStep, MissingStep, StatusStep, PTL DEF Spec
=============================================================================
