---------------------------- MODULE BlockIndexer ----------------------------
(***************************************************************************)
(* The application with an SQL database beside it (src/chain/app/db_app.go *)
(* and src/chain/db): every ABCI call is passed on to the application and  *)
(* then written to a transaction of the database, which is committed after *)
(* the application's own commit.  The node may crash at any point;         *)
(* Tendermint then executes again the block that the application had not   *)
(* committed.                                                              *)
(*                                                                         *)
(* Of the chain's state the requests, their reports and results are kept,  *)
(* of the database the tables of blocks, transactions, requests and        *)
(* reports.  A request is reported once and executed in the same block;    *)
(* the lifecycle of requests is the subject of OracleRequests.             *)
(***************************************************************************)
EXTENDS Integers, Sequences, FiniteSets

CONSTANTS
  MaxHeight,   \* bound: blocks
  MaxTxs,      \* bound: transactions in a block
  MaxRequests, \* bound: requests on the chain
  MaxCrashes   \* bound: crashes of the node

ASSUME BoundsAssumption ==
  /\ MaxHeight \in Nat \ {0}
  /\ MaxTxs \in Nat \ {0}
  /\ MaxRequests \in Nat
  /\ MaxCrashes \in Nat

VARIABLES
  phase,    \* "start", "idle", "deliver", "ended", "committed" (the
            \* application, not yet the database) or "panicked"
  decided,  \* the blocks in Tendermint's store
  next,     \* position in the block of the transaction to deliver
  app,      \* committed state of the application
  deliver,  \* its state in the block being executed (DeliverContext)
  db,       \* committed database
  tx,       \* the transaction of the database (BandDB.tx)
  crashes,
  lost      \* heights at which the node crashed between the two commits

vars == <<phase, decided, next, app, deliver, db, tx, crashes, lost>>

RequestIDs == 1 .. MaxRequests

(* A transaction asks for data or reports on a request.  The script of a    *)
(* repeated request asks for the same external ID twice.  An unwritable     *)
(* transaction leaves the oracle alone and has no place in the database: it *)
(* does not decode, has no signer or a message HandleMessage does not know, *)
(* or is in a block for the second time, so that its hash has a row.        *)
Tx == [msg : {"request", "repeated", "unwritable"}, id : {0}]
        \cup [msg : {"report"}, id : RequestIDs]
Requests == {"request", "repeated"}
Poison == {"repeated", "unwritable"}
Block == UNION {[1 .. n -> Tx] : n \in 0 .. MaxTxs}

(* repeated has the requests that repeat an external ID; resolved pairs a   *)
(* request with the height at which it was executed.                        *)
App == [height : Nat, requests : Nat, repeated : SUBSET Nat,
        reported : SUBSET Nat, resolved : SUBSET (Nat \X Nat)]

(* last is the metadata last_processed_height, -1 if there is none; txs     *)
(* pairs a height with a position in the block.                             *)
Database == [last : Nat \cup {-1}, blocks : SUBSET Nat, txs : SUBSET (Nat \X Nat),
             requests : SUBSET Nat, reports : SUBSET Nat,
             resolved : SUBSET (Nat \X Nat)]

Height == app.height + 1

Init ==
  /\ phase = "start"
  /\ decided = << >>
  /\ next = 1
  /\ app = [height |-> 0, requests |-> 0, repeated |-> {}, reported |-> {},
            resolved |-> {}]
  /\ deliver = app
  /\ db = [last |-> -1, blocks |-> {}, txs |-> {}, requests |-> {},
           reports |-> {}, resolved |-> {}]
  /\ tx = db
  /\ crashes = 0
  /\ lost = {}

-----------------------------------------------------------------------------
(* The database is filled and committed before the application's InitChain. *)
(* Tendermint calls it whenever the application has no block: the rows of   *)
(* the genesis validators, data sources and scripts then exist already and  *)
(* cannot be created again.                                                 *)
InitChain ==
  /\ phase = "start"
  /\ IF db.last = -1
     THEN /\ db' = [db EXCEPT !.last = 0]
          /\ phase' = "idle"
     ELSE /\ phase' = "panicked"
          /\ UNCHANGED db
  /\ UNCHANGED <<decided, next, app, deliver, tx, crashes, lost>>

(* A block is decided, or taken from the store after a crash.               *)
BeginBlock ==
  /\ phase = "idle"
  /\ app.height < MaxHeight
  /\ IF Len(decided) > app.height
     THEN UNCHANGED decided
     ELSE \E block \in Block :
            /\ app.requests + Cardinality({i \in DOMAIN block : block[i].msg \in Requests})
                 <= MaxRequests
            /\ decided' = Append(decided, block)
  /\ phase' = "deliver"
  /\ next' = 1
  /\ deliver' = [app EXCEPT !.height = @ + 1]
  /\ tx' = [db EXCEPT !.blocks = @ \cup {Height}]
  /\ UNCHANGED <<app, db, crashes, lost>>

(* The application executes a transaction.  A report fails if there is no   *)
(* such request, if there is a report of it already, or, the number of raw  *)
(* reports being wrong, if the request repeats an external ID.              *)
IsOK(t) ==
  \/ t.msg \in Requests
  \/ /\ t.msg = "report"
     /\ t.id \in 1 .. deliver.requests \ (deliver.reported \cup deliver.repeated)

Executed(t) ==
  IF ~IsOK(t) THEN deliver
  ELSE IF t.msg = "report" THEN [deliver EXCEPT !.reported = @ \cup {t.id}]
  ELSE [deliver EXCEPT !.requests = @ + 1,
          !.repeated = IF t.msg = "repeated" THEN @ \cup {deliver.requests + 1} ELSE @]

(* AddTransaction, and what HandleMessage adds for a request or a report.   *)
WithTx(t) == [tx EXCEPT !.txs = @ \cup {<<Height, next>>}]
WithMessage(t) ==
  IF t.msg \in Requests
  THEN [WithTx(t) EXCEPT !.requests = @ \cup {deliver.requests + 1}]
  ELSE [WithTx(t) EXCEPT !.reports = @ \cup {t.id}]

(* Mutants: the messages of failed transactions are handled too; an error   *)
(* of a message is ignored, as AddTransaction's is.                         *)
PanicsOnFailed(t) ==
  \/ t.msg \in Poison
  \/ t.msg = "report" /\ t.id \notin tx.requests

PanicsOnReports(t) == t.msg = "report" /\ IsOK(t) /\ t.id \notin tx.requests

(* DeliverTx panics on what it cannot write: TxDecoder and HandleMessage    *)
(* fail, a row of raw_data_requests has the key (request_id, external_id)   *)
(* of another, a report has no request for its foreign key.                 *)
Panics(t) ==
  \/ t.msg \in Poison
  \/ t.msg = "report" /\ IsOK(t) /\ t.id \notin tx.requests

(* Nothing is written unless the database has processed the block before    *)
(* this one.  A failed transaction is a row without messages.               *)
DeliverTx ==
  /\ phase = "deliver"
  /\ next <= Len(decided[Height])
  /\ LET t == decided[Height][next]
     IN  /\ deliver' = Executed(t)
         /\ \/ /\ tx.last + 1 # Height
               /\ UNCHANGED <<tx, phase>>
            \/ /\ tx.last + 1 = Height
               /\ ~Panics(t)
               /\ tx' = IF IsOK(t) THEN WithMessage(t) ELSE WithTx(t)
               /\ UNCHANGED phase
            \/ /\ tx.last + 1 = Height
               /\ Panics(t)
               /\ phase' = "panicked"
               /\ UNCHANGED tx
  /\ next' = next + 1
  /\ UNCHANGED <<decided, app, db, crashes, lost>>

(* The request_execute events of the block update rows that exist.          *)
NewlyResolved ==
  (deliver.reported \ {r[1] : r \in deliver.resolved}) \X {Height}
WithEvents ==
  [tx EXCEPT !.last = Height,
             !.resolved = @ \cup {r \in NewlyResolved : r[1] \in tx.requests}]

(* Mutants: the height is kept if the block was not the next one; events    *)
(* are handled for the next block only; the database is committed here.     *)
EndBlockKeepsHeight ==
  /\ phase = "deliver"
  /\ next = Len(decided[Height]) + 1
  /\ deliver' = [deliver EXCEPT !.resolved = @ \cup NewlyResolved]
  /\ tx' = IF tx.last + 1 = Height THEN WithEvents
           ELSE [WithEvents EXCEPT !.last = tx.last]
  /\ phase' = "ended"
  /\ UNCHANGED <<decided, next, app, db, crashes, lost>>

EndBlockSkipsEvents ==
  /\ phase = "deliver"
  /\ next = Len(decided[Height]) + 1
  /\ deliver' = [deliver EXCEPT !.resolved = @ \cup NewlyResolved]
  /\ tx' = IF tx.last + 1 = Height THEN WithEvents ELSE [tx EXCEPT !.last = Height]
  /\ phase' = "ended"
  /\ UNCHANGED <<decided, next, app, db, crashes, lost>>

EndBlockCommits ==
  /\ phase = "deliver"
  /\ next = Len(decided[Height]) + 1
  /\ deliver' = [deliver EXCEPT !.resolved = @ \cup NewlyResolved]
  /\ tx' = WithEvents
  /\ db' = WithEvents
  /\ phase' = "ended"
  /\ UNCHANGED <<decided, next, app, crashes, lost>>

(* The application executes the requests that were reported.  The height    *)
(* is set whether the transactions were written or skipped.                 *)
EndBlock ==
  /\ phase = "deliver"
  /\ next = Len(decided[Height]) + 1
  /\ deliver' = [deliver EXCEPT !.resolved = @ \cup NewlyResolved]
  /\ tx' = WithEvents
  /\ phase' = "ended"
  /\ UNCHANGED <<decided, next, app, db, crashes, lost>>

(* Commit: the application first, then the database. *)
CommitApp ==
  /\ phase = "ended"
  /\ app' = deliver
  /\ phase' = "committed"
  /\ UNCHANGED <<decided, next, deliver, db, tx, crashes, lost>>

CommitDB ==
  /\ phase = "committed"
  /\ db' = tx
  /\ phase' = "idle"
  /\ UNCHANGED <<decided, next, app, deliver, tx, crashes, lost>>

(* The process ends, by a panic or otherwise, and is started again: the     *)
(* database rolls its transaction back, Tendermint calls InitChain if the   *)
(* application has no block.                                                *)
Crash ==
  /\ crashes < MaxCrashes
  /\ crashes' = crashes + 1
  /\ phase' = IF app.height = 0 THEN "start" ELSE "idle"
  /\ deliver' = app
  /\ tx' = db
  /\ lost' = IF phase = "committed" THEN lost \cup {app.height} ELSE lost
  /\ UNCHANGED <<decided, next, app, db>>

Next ==
  \/ InitChain
  \/ BeginBlock
  \/ DeliverTx
  \/ EndBlock
  \/ CommitApp
  \/ CommitDB
  \/ Crash

Spec == Init /\ [][Next]_vars

-----------------------------------------------------------------------------
(* Type invariant. *)
TypeOK ==
  /\ phase \in {"start", "idle", "deliver", "ended", "committed", "panicked"}
  /\ next \in Nat
  /\ app \in App /\ deliver \in App
  /\ db \in Database /\ tx \in Database
  /\ lost \subseteq Nat

(* d has no block, transaction, request or result that a does not have.     *)
NeverAhead(d, a) ==
  /\ d.last <= a.height
  /\ \A h \in d.blocks : h <= a.height
  /\ \A row \in d.txs : row[1] <= a.height
  /\ d.requests \subseteq 1 .. a.requests
  /\ d.reports \subseteq a.reported
  /\ d.resolved \subseteq a.resolved

(* The order of Commit: the database never has a block, a transaction, a    *)
(* request or a result that the application could still lose in a crash.    *)
DBNeverAhead == NeverAhead(db, app)

(* What a crash between the two commits of a block costs: the block, and    *)
(* the transactions of the one after it, which DeliverTx skips.  Nothing    *)
(* else is missing, however many crashes there are, and indexing goes on.   *)
OnlyLostBlocksMissing ==
  phase = "idle" =>
    \A h \in 1 .. app.height :
       /\ h \in db.blocks <=> h \notin lost
       /\ \A i \in 1 .. Len(decided[h]) :
            <<h, i>> \in db.txs <=> {h - 1, h} \cap lost = {}

(* A request in the database has the status it has on the chain, unless it  *)
(* was resolved in a lost block: the events of the block after it, whose    *)
(* transactions are skipped, are handled all the same.                      *)
StatusAgrees ==
  phase = "idle" =>
    db.resolved = {r \in app.resolved : r[1] \in db.requests /\ r[2] \notin lost}

(* The node is stopped by its database only if a crash came before the      *)
(* first block or between two commits, or by the transaction it delivered   *)
(* last, which cannot be written; other crashes, and failed transactions,   *)
(* it survives.                                                             *)
PanicHasCause ==
  phase = "panicked" =>
    lost # {} \/ app.height = 0 \/ decided[Height][next - 1].msg \in Poison

(* A block with a transaction that cannot be written stops the node each    *)
(* time it is executed: the application never gets past it, unless the      *)
(* block before it was lost and its transactions are skipped.               *)
PoisonOnlyIfSkipped ==
  \A h \in 1 .. app.height :
    (\E i \in DOMAIN decided[h] : decided[h][i].msg \in Poison) => h - 1 \in lost
=============================================================================
