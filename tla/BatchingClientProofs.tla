------------------------ MODULE BatchingClientProofs ------------------------
(***************************************************************************)
(* Proofs about the client library, for any number of calls, any gas and   *)
(* any sizes of the channel and of a batch.                                *)
(***************************************************************************)
EXTENDS BatchingClient, SequenceTheorems, FiniteSetTheorems, TLAPS

Stages == {"new", "waiting", "ok", "failed", "refused", "error"}

ClientTx == [key : {Sender}, seq : Nat, msgs : Seq(Calls), gas : Nat]

ClientType ==
  /\ call \in [Calls -> Stages]
  /\ msgChan \in Seq(Calls)
  /\ msgs \in Seq(Calls) /\ chans = msgs /\ totalGas \in Nat
  /\ mode \in {"read", "send", "prepare", "broadcast", "wait", "answer"}
  /\ tx \in ClientTx
  /\ outcome \in {"none", "ok", "failed", "refused", "error"}
  /\ mode = "answer" => outcome # "none"
  /\ mempool \in Seq(ClientTx)
  /\ committedSeq \in [{Sender} -> Nat]
  /\ committed \subseteq [tx : ClientTx, result : {"ok", "failed"}]

-----------------------------------------------------------------------------
(* Sequences and what is in them. *)

LEMMA RangeAppend ==
  ASSUME NEW C, NEW s \in Seq(C), NEW x \in C
  PROVE  /\ Append(s, x) \in Seq(C) /\ Len(Append(s, x)) = Len(s) + 1
         /\ Range(Append(s, x)) = Range(s) \cup {x}
         /\ IsInjective(s) /\ x \notin Range(s) => IsInjective(Append(s, x))
<1> DEFINE n == Len(s) + 1
           t == Append(s, x)
<1>1. /\ Len(s) \in Nat /\ Len(t) = n /\ t[n] = x /\ t \in Seq(C)
      /\ \A i \in 1 .. Len(s) : t[i] = s[i]
  BY AppendProperties, LenProperties
<1>2. DOMAIN s = 1 .. Len(s) /\ DOMAIN t = 1 .. n
  BY <1>1, LenProperties
<1>3. 1 .. n = (1 .. Len(s)) \cup {n} /\ n \notin 1 .. Len(s)
  BY <1>1
<1> HIDE DEF n, t
<1>4. Range(t) = Range(s) \cup {x}
  BY <1>1, <1>2, <1>3 DEF Range
<1>5. ASSUME IsInjective(s), x \notin Range(s) PROVE IsInjective(t)
  <2> SUFFICES ASSUME NEW a \in DOMAIN t, NEW b \in DOMAIN t, t[a] = t[b] PROVE a = b
    BY DEF IsInjective
  <2>1. \A i \in 1 .. Len(s) : s[i] # x
    BY <1>2, <1>5 DEF Range
  <2>2. CASE a = n \/ b = n
    BY <1>1, <1>2, <1>3, <2>1, <2>2
  <2>3. CASE a # n /\ b # n
    BY <1>1, <1>2, <1>3, <1>5, <2>3 DEF IsInjective
  <2> QED
    BY <2>2, <2>3
<1> QED
  BY <1>1, <1>4, <1>5 DEF n, t

LEMMA RangeTail ==
  ASSUME NEW C, NEW s \in Seq(C), s # << >>
  PROVE  /\ Tail(s) \in Seq(C) /\ Head(s) \in C
         /\ Range(s) = Range(Tail(s)) \cup {Head(s)}
         /\ IsInjective(s) => IsInjective(Tail(s)) /\ Head(s) \notin Range(Tail(s))
<1> DEFINE t == Tail(s)
<1>1. /\ Len(s) \in Nat /\ Len(s) >= 1 /\ t \in Seq(C) /\ Len(t) = Len(s) - 1
      /\ \A i \in 1 .. Len(t) : t[i] = s[i + 1]
      /\ Head(s) = s[1] /\ Head(s) \in C
  BY HeadTailProperties, LenProperties, EmptySeq
<1>2. DOMAIN s = 1 .. Len(s) /\ DOMAIN t = 1 .. Len(t)
  BY <1>1, LenProperties
<1> HIDE DEF t
<1>3. /\ \A i \in 1 .. Len(t) : i + 1 \in 1 .. Len(s) /\ i + 1 # 1
      /\ \A i \in 1 .. Len(s) : i = 1 \/ (i - 1 \in 1 .. Len(t) /\ (i - 1) + 1 = i)
      /\ 1 \in 1 .. Len(s)
  BY <1>1
<1>4. Range(t) \subseteq Range(s) /\ Head(s) \in Range(s)
  BY <1>1, <1>2, <1>3 DEF Range
<1>5. ASSUME NEW x \in Range(s), x # Head(s) PROVE x \in Range(t)
  <2>1. PICK i \in 1 .. Len(s) : x = s[i]
    BY <1>2 DEF Range
  <2>2. i - 1 \in 1 .. Len(t) /\ t[i - 1] = x
    BY <1>1, <1>3, <1>5, <2>1
  <2> QED
    BY <1>2, <2>2 DEF Range
<1>6. ASSUME IsInjective(s) PROVE IsInjective(t) /\ Head(s) \notin Range(t)
  <2>1. ASSUME NEW a \in 1 .. Len(t), NEW b \in 1 .. Len(t), t[a] = t[b] PROVE a = b
    <3>1. a + 1 = b + 1
      BY <1>1, <1>2, <1>3, <1>6, <2>1 DEF IsInjective
    <3> QED
      BY <3>1
  <2>2. \A a \in 1 .. Len(t) : t[a] # s[1]
    BY <1>1, <1>2, <1>3, <1>6 DEF IsInjective
  <2> QED
    BY <1>1, <1>2, <2>1, <2>2 DEF IsInjective, Range
<1> QED
  BY <1>1, <1>4, <1>5, <1>6 DEF t

LEMMA RangeEmpty == Range(<< >>) = {} /\ IsInjective(<< >>) /\ Len(<< >>) = 0
BY EmptySeq DEF Range, IsInjective

LEMMA CarriesRange == \A t, c : Carries(t, c) <=> c \in Range(t.msgs)
BY DEF Carries, Range

-----------------------------------------------------------------------------
(* The sum of the gas of a set of calls. *)

Pick(s) == CHOOSE x \in s : TRUE
Plus(a, b) == a + b

Adding == INSTANCE FoldTheorems WITH op <- Plus, choose <- Pick

GasOf(S) == SumFunctionOnSet(Gas, S)

LEMMA GasIsFold == \A S : GasOf(S) = Adding!Fold(Gas, 0, S)
BY DEF GasOf, SumFunctionOnSet, FoldFunctionOnSet, MapThenFoldSet,
       Adding!Fold, Adding!MapThenFoldSet, Pick, Plus

LEMMA SameFinite == \A S : IsFiniteSet(S) => Adding!IsFiniteSet(S)
BY DEF IsFiniteSet, Adding!IsFiniteSet

LEMMA GasOfNone == GasOf({}) = 0
<1>1. Adding!IsFiniteSet({}) /\ Adding!Chooses({})
  BY FS_EmptySet, SameFinite DEF Adding!Chooses, Pick
<1> QED
  BY <1>1, GasIsFold, Adding!FoldEquation

LEMMA GasOfOneMore ==
  ASSUME NEW S, S \subseteq Calls, IsFiniteSet(S), NEW c \in Calls, c \notin S
  PROVE  GasOf(S) \in Nat /\ GasOf(S \cup {c}) = GasOf(S) + Gas[c]
<1> DEFINE T == S \cup {c}
<1>1. /\ Adding!IsFiniteSet(T) /\ Adding!Chooses(T)
      /\ 0 \in Nat /\ \A i \in T : Gas[i] \in Nat
  BY FS_AddElement, SameFinite, ClientAssumption DEF Adding!Chooses, Pick
<1>2. Adding!Keeps(Gas, T, Nat) /\ Adding!Exchanges(Gas, T, Nat)
  BY <1>1 DEF Adding!Keeps, Adding!Exchanges, Plus
<1>3. T \in SUBSET T /\ S \in SUBSET T /\ c \in T /\ T \ {c} = S
  OBVIOUS
<1> HIDE DEF T
<1>4. Adding!Fold(Gas, 0, S) \in Nat
  BY <1>1, <1>2, <1>3, Adding!FoldType
<1>5. Adding!Fold(Gas, 0, T) = Plus(Gas[c], Adding!Fold(Gas, 0, S))
  BY <1>1, <1>2, <1>3, Adding!FoldAnyFirst
<1>6. GasOf(T) = Gas[c] + GasOf(S) /\ GasOf(S) \in Nat
  BY <1>4, <1>5, GasIsFold DEF Plus
<1>7. Gas[c] \in Nat
  BY <1>1, <1>3
<1> QED
  BY <1>6, <1>7 DEF T

-----------------------------------------------------------------------------
(* The inductive invariant. *)

Unsent(c) == \A t \in Transactions : c \notin Range(t.msgs)

(* A message is in one place: with its call, on the channel, in the batch   *)
(* or in a transaction.                                                     *)
QueuedOnce ==
  /\ IsInjective(msgChan)
  /\ \A c \in Range(msgChan) : call[c] = "waiting" /\ c \notin Range(msgs) /\ Unsent(c)
  /\ \A c \in Calls : call[c] = "new" => c \notin Range(msgs) /\ Unsent(c)

BatchedOnce ==
  /\ IsInjective(msgs)
  /\ mode # "answer" => \A c \in Range(msgs) : call[c] = "waiting"
  /\ mode \in {"read", "send", "prepare", "broadcast"} => \A c \in Range(msgs) : Unsent(c)
  /\ mode \in {"prepare", "broadcast", "wait", "answer"} => tx.msgs = msgs

SentInOne ==
  \A t, u \in Transactions, c \in Calls :
     c \in Range(t.msgs) /\ c \in Range(u.msgs) => t = u

(* The outcome of the batch is true, and so is what calls were told.        *)
OutcomeIsTrue ==
  mode = "answer" =>
    /\ outcome = "refused" => \A c \in Range(msgs) : Unsent(c)
    /\ outcome \in {"ok", "failed"} => \E t \in committed : t.tx = tx /\ t.result = outcome

CallsAreTrue ==
  \A c \in Calls :
    /\ call[c] \in {"ok", "failed"} =>
         \E t \in committed : c \in Range(t.tx.msgs) /\ t.result = call[c]
    /\ call[c] = "refused" => Unsent(c)

AnswerInv == QueuedOnce /\ BatchedOnce /\ SentInOne /\ OutcomeIsTrue /\ CallsAreTrue

(* What was collected is what is paid for. *)
Paid(t) ==
  /\ Len(t.msgs) \in 1 .. MaximumMsgPerTx
  /\ IsInjective(t.msgs)
  /\ t.gas = GasOf(Range(t.msgs))

GasInv ==
  /\ IsFiniteSet(Range(msgs)) /\ totalGas = GasOf(Range(msgs))
  /\ Len(msgs) <= MaximumMsgPerTx
  /\ mode = "read" => Len(msgs) < MaximumMsgPerTx
  /\ mode # "read" => Len(msgs) >= 1
  /\ mode \in {"prepare", "broadcast", "wait", "answer"} => tx.gas = totalGas
  /\ \A t \in Transactions : Paid(t)


-----------------------------------------------------------------------------
LEMMA TypeInit == Init => ClientType
BY EmptySeq DEF Init, ClientType, NoTx, ClientTx, Stages

LEMMA CommitsHead ==
  ASSUME ClientType, CommitTx
  PROVE  /\ mempool # << >> /\ Head(mempool) \in ClientTx /\ mempool' \in Seq(ClientTx)
         /\ Range(mempool) = Range(mempool') \cup {Head(mempool)}
         /\ committedSeq' \in [{Sender} -> Nat]
         /\ \E result \in {"ok", "failed"} :
              /\ committed' = committed \cup {[tx |-> Head(mempool), result |-> result]}
              /\ IF mode = "wait" /\ Head(mempool) = tx
                 THEN outcome' = result /\ mode' = "answer"
                 ELSE UNCHANGED <<outcome, mode>>
         /\ UNCHANGED <<call, msgChan, batch, tx>>
<1>1. mempool \in Seq(ClientTx) /\ mempool # << >> /\ mempool' = Tail(mempool)
  BY DEF ClientType, CommitTx, CommitFirst
<1>2. /\ mempool' \in Seq(ClientTx) /\ Head(mempool) \in ClientTx
      /\ Range(mempool) = Range(mempool') \cup {Head(mempool)}
  BY <1>1, RangeTail
<1>3. committedSeq' \in [{Sender} -> Nat]
  <2>1. Head(mempool).key = Sender /\ committedSeq \in [{Sender} -> Nat]
    BY <1>2 DEF ClientType, ClientTx
  <2>2. committedSeq' = [committedSeq EXCEPT ![Head(mempool).key] = @ + 1]
    BY DEF CommitTx, CommitFirst
  <2> QED
    BY <2>1, <2>2
<1> QED
  BY <1>1, <1>2, <1>3 DEF CommitTx

LEMMA TypeStep == ClientType /\ [Next]_vars => ClientType'
<1> SUFFICES ASSUME ClientType, [Next]_vars PROVE ClientType'
  OBVIOUS
<1>1. ASSUME NEW c \in Calls, SendTransaction(c) PROVE ClientType'
  BY <1>1, RangeAppend DEF SendTransaction, ClientType, Stages, batch, node
<1>2. CASE ReadMsg
  <2>1. Head(msgChan) \in Calls /\ Tail(msgChan) \in Seq(Calls)
    BY <1>2, RangeTail DEF ReadMsg, ClientType
  <2>2. msgs' \in Seq(Calls) /\ chans' = msgs' /\ totalGas' \in Nat
    BY <1>2, <2>1, RangeAppend, ClientAssumption DEF ReadMsg, ClientType
  <2> QED
    BY <1>2, <2>1, <2>2 DEF ReadMsg, ClientType, node
<1>3. CASE Timer
  BY <1>3 DEF Timer, ClientType, batch, node
<1>4. CASE GetSequence
  BY <1>4 DEF GetSequence, ClientType, ClientTx, batch, node
<1>a. CASE PrepareTxBuilder
  <2>1. tx \in ClientTx /\ committedSeq[Sender] \in Nat
    BY DEF ClientType
  <2>2. tx' \in ClientTx
    BY <1>a, <2>1 DEF PrepareTxBuilder, ClientTx
  <2> QED
    BY <1>a, <2>2 DEF PrepareTxBuilder, ClientType, batch, node
<1>5. CASE Broadcast
  <2>1. mempool' \in Seq(ClientTx)
    <3>1. mempool \in Seq(ClientTx) /\ tx \in ClientTx
      BY DEF ClientType
    <3>2. mempool' = mempool \/ mempool' = Append(mempool, tx)
      BY <1>5 DEF Broadcast
    <3> QED
      BY <3>1, <3>2, RangeAppend
  <2> QED
    BY <1>5, <2>1 DEF Broadcast, ClientType, batch
<1>6. CASE BroadcastFails
  BY <1>6 DEF BroadcastFails, ClientType, batch, node
<1>7. CASE Answer
  <2>1. PICK i \in DOMAIN chans : call' = [call EXCEPT ![chans[i]] = outcome]
                                    /\ call[chans[i]] = "waiting"
    BY <1>7 DEF Answer
  <2> QED
    BY <1>7, <2>1 DEF Answer, ClientType, batch, node, Stages
<1>8. CASE Clear
  BY <1>8, EmptySeq DEF Clear, ClientType, node
<1>9. CASE CommitTx
  <2>1. PICK result \in {"ok", "failed"} :
               /\ committed' = committed \cup {[tx |-> Head(mempool), result |-> result]}
               /\ IF mode = "wait" /\ Head(mempool) = tx
                  THEN outcome' = result /\ mode' = "answer"
                  ELSE UNCHANGED <<outcome, mode>>
    BY <1>9, CommitsHead
  <2>2. committed' \subseteq [tx : ClientTx, result : {"ok", "failed"}]
    BY <1>9, <2>1, CommitsHead DEF ClientType
  <2> QED
    BY <1>9, <2>1, <2>2, CommitsHead DEF ClientType, batch
<1>10. CASE NodeRestarts
  BY <1>10, EmptySeq DEF NodeRestarts, DropMempool, ClientType, batch
<1>11. CASE UNCHANGED vars
  BY <1>11 DEF vars, ClientType, batch, node
<1> QED
  BY <1>1, <1>2, <1>3, <1>4, <1>5, <1>a, <1>6, <1>7, <1>8, <1>9, <1>10, <1>11 DEF Next, Loop

-----------------------------------------------------------------------------
(* How a step changes the transactions that were sent. *)

LEMMA SentByBroadcast ==
  ASSUME ClientType, mempool' = Append(mempool, tx), UNCHANGED committed
  PROVE  Transactions' = Transactions \cup {tx}
<1>1. Range(mempool') = Range(mempool) \cup {tx}
  BY RangeAppend DEF ClientType
<1> QED
  BY <1>1 DEF Transactions

LEMMA SentStays ==
  ASSUME ClientType, CommitTx
  PROVE  Transactions' = Transactions
<1>1. PICK result : committed' = committed \cup {[tx |-> Head(mempool), result |-> result]}
  BY CommitsHead
<1>2. {t.tx : t \in committed'} = {t.tx : t \in committed} \cup {Head(mempool)}
  <2> DEFINE e == [tx |-> Head(mempool), result |-> result]
  <2>1. e.tx = Head(mempool) /\ committed' = committed \cup {e}
    BY <1>1
  <2> HIDE DEF e
  <2> QED
    BY <2>1
<1>3. Range(mempool) = Range(mempool') \cup {Head(mempool)}
  BY CommitsHead
<1> QED
  BY <1>2, <1>3 DEF Transactions

LEMMA SentDropped ==
  ASSUME NodeRestarts
  PROVE  Transactions' \subseteq Transactions
BY RangeEmpty DEF NodeRestarts, DropMempool, Transactions

LEMMA SentSame ==
  ASSUME UNCHANGED <<mempool, committed>>
  PROVE  Transactions' = Transactions
BY DEF Transactions

LEMMA SentKept ==
  ASSUME Transactions' \subseteq Transactions, SentInOne
  PROVE  SentInOne' /\ \A c : Unsent(c) => Unsent(c)'
BY DEF SentInOne, Unsent

LEMMA AnswerInit == Init => AnswerInv
<1> SUFFICES ASSUME Init PROVE AnswerInv
  OBVIOUS
<1>1. Transactions = {}
  BY RangeEmpty DEF Init, Transactions
<1>2. \A c \in Calls : call[c] = "new"
  BY DEF Init
<1>3. msgs = << >> /\ msgChan = << >> /\ mode = "read"
  BY DEF Init
<1> QED
  BY <1>1, <1>2, <1>3, RangeEmpty
     DEF AnswerInv, QueuedOnce, BatchedOnce, SentInOne, OutcomeIsTrue, CallsAreTrue, Unsent

LEMMA AnswerStep == ClientType /\ AnswerInv /\ [Next]_vars => AnswerInv'
<1> SUFFICES ASSUME ClientType, AnswerInv, [Next]_vars PROVE AnswerInv'
  OBVIOUS
<1>0. /\ QueuedOnce /\ BatchedOnce /\ SentInOne /\ OutcomeIsTrue /\ CallsAreTrue
      /\ msgChan \in Seq(Calls) /\ msgs \in Seq(Calls) /\ call \in [Calls -> Stages]
  BY DEF AnswerInv, ClientType
<1>1. ASSUME NEW c \in Calls, SendTransaction(c) PROVE AnswerInv'
  <2>1. /\ call[c] = "new" /\ call' = [call EXCEPT ![c] = "waiting"]
        /\ msgChan' = Append(msgChan, c)
        /\ UNCHANGED <<msgs, mode, tx, outcome, mempool, committed>>
    BY <1>1 DEF SendTransaction, batch, node
  <2>2. c \notin Range(msgChan) /\ c \notin Range(msgs) /\ Unsent(c)
    BY <1>0, <2>1 DEF QueuedOnce
  <2>3. Range(msgChan') = Range(msgChan) \cup {c} /\ IsInjective(msgChan')
    BY <1>0, <2>1, <2>2, RangeAppend DEF QueuedOnce
  <2>4. /\ call'[c] = "waiting"
        /\ \A k \in Calls : k # c => call'[k] = call[k]
    BY <1>0, <2>1
  <2>5. Transactions' = Transactions /\ SentInOne' /\ \A k : Unsent(k) => Unsent(k)'
    BY <1>0, <2>1, SentSame, SentKept
  <2>6. QueuedOnce'
    BY <1>0, <2>1, <2>2, <2>3, <2>4, <2>5 DEF QueuedOnce
  <2>7. BatchedOnce'
    BY <1>0, <2>1, <2>2, <2>4, <2>5 DEF BatchedOnce
  <2>8. OutcomeIsTrue'
    BY <1>0, <2>1, <2>5 DEF OutcomeIsTrue
  <2>9. CallsAreTrue'
    BY <1>0, <2>1, <2>4, <2>5 DEF CallsAreTrue
  <2> QED
    BY <2>5, <2>6, <2>7, <2>8, <2>9 DEF AnswerInv
<1>2. CASE ReadMsg
  <2> DEFINE c == Head(msgChan)
  <2>1. /\ mode = "read" /\ msgChan # << >> /\ msgChan' = Tail(msgChan)
        /\ msgs' = Append(msgs, c) /\ mode' \in {"read", "send"}
        /\ UNCHANGED <<call, tx, outcome, mempool, committed>>
    BY <1>2 DEF ReadMsg, node
  <2>2. /\ c \in Calls /\ Range(msgChan) = Range(msgChan') \cup {c}
        /\ IsInjective(msgChan') /\ c \notin Range(msgChan')
    BY <1>0, <2>1, RangeTail DEF QueuedOnce
  <2>3. call[c] = "waiting" /\ c \notin Range(msgs) /\ Unsent(c)
    BY <1>0, <2>2 DEF QueuedOnce
  <2>4. Range(msgs') = Range(msgs) \cup {c} /\ IsInjective(msgs')
    BY <1>0, <2>1, <2>2, <2>3, RangeAppend DEF BatchedOnce
  <2>5. Transactions' = Transactions /\ SentInOne' /\ \A k : Unsent(k) => Unsent(k)'
    BY <1>0, <2>1, SentSame, SentKept
  <2> HIDE DEF c
  <2>6. QueuedOnce'
    BY <1>0, <2>1, <2>2, <2>3, <2>4, <2>5 DEF QueuedOnce
  <2>7. BatchedOnce'
    BY <1>0, <2>1, <2>3, <2>4, <2>5 DEF BatchedOnce
  <2>8. OutcomeIsTrue'
    BY <2>1 DEF OutcomeIsTrue
  <2>9. CallsAreTrue'
    BY <1>0, <2>1, <2>5 DEF CallsAreTrue
  <2> QED
    BY <2>5, <2>6, <2>7, <2>8, <2>9 DEF AnswerInv
<1>3. ASSUME UNCHANGED <<call, msgChan, msgs, mempool, committed, outcome>>, mode # "answer",
             \/ mode' = "send" /\ mode = "read"
             \/ mode' = "prepare" /\ tx'.msgs = msgs /\ mode = "send"
             \/ mode' = "broadcast" /\ tx'.msgs = tx.msgs /\ mode = "prepare"
      PROVE  AnswerInv'
  <2>1. Transactions' = Transactions /\ SentInOne' /\ \A k : Unsent(k) => Unsent(k)'
    BY <1>0, <1>3, SentSame, SentKept
  <2>2. QueuedOnce' /\ CallsAreTrue' /\ OutcomeIsTrue'
    BY <1>0, <1>3, <2>1 DEF QueuedOnce, CallsAreTrue, OutcomeIsTrue
  <2>3. BatchedOnce'
    BY <1>0, <1>3, <2>1 DEF BatchedOnce
  <2> QED
    BY <2>1, <2>2, <2>3 DEF AnswerInv
<1>4. CASE Timer
  BY <1>3, <1>4 DEF Timer, batch, node
<1>5. CASE GetSequence
  BY <1>3, <1>5 DEF GetSequence, batch, node
<1>a. CASE PrepareTxBuilder
  <2>1. tx'.msgs = tx.msgs
    BY <1>a DEF PrepareTxBuilder, ClientType, ClientTx
  <2> QED
    BY <1>3, <1>a, <2>1 DEF PrepareTxBuilder, batch, node
<1>6. CASE Broadcast
  <2>1. /\ mode = "broadcast"
        /\ UNCHANGED <<call, msgChan, msgs, tx, committed>>
    BY <1>6 DEF Broadcast, batch
  <2>2. CASE ~CheckTxAccepts(tx)
    <3>1. outcome' = "refused" /\ mode' = "answer" /\ UNCHANGED mempool
      BY <1>6, <2>2 DEF Broadcast
    <3>2. Transactions' = Transactions /\ SentInOne' /\ \A k : Unsent(k) => Unsent(k)'
      BY <1>0, <2>1, <3>1, SentSame, SentKept
    <3>3. QueuedOnce' /\ CallsAreTrue'
      BY <1>0, <2>1, <3>2 DEF QueuedOnce, CallsAreTrue
    <3>4. BatchedOnce' /\ OutcomeIsTrue'
      BY <1>0, <2>1, <3>1, <3>2 DEF BatchedOnce, OutcomeIsTrue
    <3> QED
      BY <3>2, <3>3, <3>4 DEF AnswerInv
  <2>3. CASE CheckTxAccepts(tx)
    <3>1. mempool' = Append(mempool, tx) /\ mode' = "wait" /\ UNCHANGED outcome
      BY <1>6, <2>3 DEF Broadcast
    <3>2. Transactions' = Transactions \cup {tx}
      BY <2>1, <3>1, SentByBroadcast
    <3>3. tx.msgs = msgs /\ \A c \in Range(msgs) : call[c] = "waiting" /\ Unsent(c)
      BY <1>0, <2>1 DEF BatchedOnce
    <3>4. \A c : Unsent(c) /\ c \notin Range(msgs) => Unsent(c)'
      BY <3>2, <3>3 DEF Unsent
    <3>5. SentInOne'
      <4> SUFFICES ASSUME NEW t \in Transactions \cup {tx}, NEW u \in Transactions \cup {tx},
                          NEW c \in Calls, c \in Range(t.msgs), c \in Range(u.msgs)
                   PROVE  t = u
        BY <3>2 DEF SentInOne
      <4>1. CASE t = tx \/ u = tx
        <5>1. c \in Range(msgs)
          BY <3>3, <4>1
        <5>2. Unsent(c)
          BY <3>3, <5>1
        <5> QED
          BY <4>1, <5>2 DEF Unsent
      <4>2. CASE t # tx /\ u # tx
        BY <1>0, <4>2 DEF SentInOne
      <4> QED
        BY <4>1, <4>2
    <3>6. QueuedOnce'
      BY <1>0, <2>1, <3>4 DEF QueuedOnce
    <3>7. BatchedOnce' /\ OutcomeIsTrue'
      BY <1>0, <2>1, <3>1 DEF BatchedOnce, OutcomeIsTrue
    <3>8. CallsAreTrue'
      BY <1>0, <2>1, <3>3, <3>4 DEF CallsAreTrue
    <3> QED
      BY <3>5, <3>6, <3>7, <3>8 DEF AnswerInv
  <2> QED
    BY <2>2, <2>3
<1>7. CASE BroadcastFails
  <2>1. /\ mode \in {"prepare", "broadcast", "wait"} /\ outcome' = "error" /\ mode' = "answer"
        /\ UNCHANGED <<call, msgChan, msgs, tx, mempool, committed>>
    BY <1>7 DEF BroadcastFails, batch, node
  <2>2. Transactions' = Transactions /\ SentInOne' /\ \A k : Unsent(k) => Unsent(k)'
    BY <1>0, <2>1, SentSame, SentKept
  <2>3. QueuedOnce' /\ CallsAreTrue'
    BY <1>0, <2>1, <2>2 DEF QueuedOnce, CallsAreTrue
  <2>4. BatchedOnce' /\ OutcomeIsTrue'
    BY <1>0, <2>1 DEF BatchedOnce, OutcomeIsTrue
  <2> QED
    BY <2>2, <2>3, <2>4 DEF AnswerInv
<1>8. CASE Answer
  <2>1. PICK i \in DOMAIN chans : /\ call' = [call EXCEPT ![chans[i]] = outcome]
                                  /\ call[chans[i]] = "waiting"
    BY <1>8 DEF Answer
  <2>2. /\ mode = "answer" /\ UNCHANGED <<msgChan, msgs, mode, tx, outcome, mempool, committed>>
    BY <1>8 DEF Answer, batch, node
  <2> DEFINE c == chans[i]
  <2>3. c \in Range(msgs) /\ c \in Calls
    <3>1. chans = msgs
      BY DEF ClientType
    <3>2. msgs[i] \in Calls
      BY <1>0, <2>1, <3>1
    <3> QED
      BY <2>1, <3>1, <3>2 DEF Range
  <2>4. call'[c] = outcome /\ \A k \in Calls : k # c => call'[k] = call[k]
    BY <1>0, <2>1, <2>3
  <2> HIDE DEF c
  <2>5. Transactions' = Transactions /\ SentInOne' /\ \A k : Unsent(k) => Unsent(k)'
    BY <1>0, <2>2, SentSame, SentKept
  <2>6. QueuedOnce'
    <3>1. c \notin Range(msgChan) /\ outcome # "new"
      BY <1>0, <2>3 DEF QueuedOnce, ClientType
    <3>2. \A k \in Range(msgChan) : k \in Calls
      BY <1>0 DEF Range
    <3> QED
      BY <1>0, <2>2, <2>4, <2>5, <3>1, <3>2 DEF QueuedOnce
  <2>7. BatchedOnce' /\ OutcomeIsTrue'
    BY <1>0, <2>2, <2>5 DEF BatchedOnce, OutcomeIsTrue
  <2>8. CallsAreTrue'
    <3>1. /\ outcome = "refused" => Unsent(c)
          /\ outcome \in {"ok", "failed"} =>
               \E t \in committed : c \in Range(t.tx.msgs) /\ t.result = outcome
      BY <1>0, <2>2, <2>3 DEF OutcomeIsTrue, BatchedOnce
    <3> QED
      BY <1>0, <2>2, <2>4, <2>5, <3>1 DEF CallsAreTrue
  <2> QED
    BY <2>5, <2>6, <2>7, <2>8 DEF AnswerInv
<1>9. CASE Clear
  <2>1. /\ mode' = "read" /\ msgs' = << >>
        /\ UNCHANGED <<call, msgChan, tx, outcome, mempool, committed>>
    BY <1>9 DEF Clear, node
  <2>2. Transactions' = Transactions /\ SentInOne' /\ \A k : Unsent(k) => Unsent(k)'
    BY <1>0, <2>1, SentSame, SentKept
  <2>3. Range(msgs') = {} /\ IsInjective(msgs')
    BY <2>1, RangeEmpty
  <2>4. QueuedOnce' /\ CallsAreTrue'
    BY <1>0, <2>1, <2>2, <2>3 DEF QueuedOnce, CallsAreTrue
  <2>5. BatchedOnce' /\ OutcomeIsTrue'
    BY <2>1, <2>3 DEF BatchedOnce, OutcomeIsTrue
  <2> QED
    BY <2>2, <2>4, <2>5 DEF AnswerInv
<1>10. CASE CommitTx
  <2>1. PICK result \in {"ok", "failed"} :
               /\ committed' = committed \cup {[tx |-> Head(mempool), result |-> result]}
               /\ IF mode = "wait" /\ Head(mempool) = tx
                  THEN outcome' = result /\ mode' = "answer"
                  ELSE UNCHANGED <<outcome, mode>>
    BY <1>10, CommitsHead
  <2>2. UNCHANGED <<call, msgChan, msgs, tx>>
    BY <1>10 DEF CommitTx, batch
  <2>3. SentInOne' /\ \A k : Unsent(k) => Unsent(k)'
    BY <1>0, <1>10, SentStays, SentKept
  <2>4. QueuedOnce' /\ CallsAreTrue'
    BY <1>0, <2>1, <2>2, <2>3 DEF QueuedOnce, CallsAreTrue
  <2>5. BatchedOnce'
    BY <1>0, <2>1, <2>2, <2>3 DEF BatchedOnce
  <2>6. OutcomeIsTrue'
    <3>1. CASE mode = "wait" /\ Head(mempool) = tx
      <4>1. [tx |-> Head(mempool), result |-> result] \in committed'
        BY <2>1
      <4> QED
        BY <2>1, <2>2, <3>1, <4>1 DEF OutcomeIsTrue
    <3>2. CASE ~(mode = "wait" /\ Head(mempool) = tx)
      BY <1>0, <2>1, <2>2, <2>3, <3>2 DEF OutcomeIsTrue
    <3> QED
      BY <3>1, <3>2
  <2> QED
    BY <2>3, <2>4, <2>5, <2>6 DEF AnswerInv
<1>11. ASSUME UNCHANGED <<call, msgChan, msgs, mode, tx, outcome, committed>>,
              Transactions' \subseteq Transactions
       PROVE  AnswerInv'
  <2>1. SentInOne' /\ \A k : Unsent(k) => Unsent(k)'
    BY <1>0, <1>11, SentKept
  <2>2. QueuedOnce' /\ CallsAreTrue'
    BY <1>0, <1>11, <2>1 DEF QueuedOnce, CallsAreTrue
  <2>3. BatchedOnce' /\ OutcomeIsTrue'
    BY <1>0, <1>11, <2>1 DEF BatchedOnce, OutcomeIsTrue
  <2> QED
    BY <2>1, <2>2, <2>3 DEF AnswerInv
<1>12. CASE NodeRestarts
  BY <1>11, <1>12, SentDropped DEF NodeRestarts, batch
<1>13. CASE UNCHANGED vars
  BY <1>11, <1>13, SentSame DEF vars, batch, node
<1> QED
  BY <1>1, <1>2, <1>4, <1>5, <1>a, <1>6, <1>7, <1>8, <1>9, <1>10, <1>12, <1>13 DEF Next, Loop

(* BandStatefulClient, for any number of calls: what SendTransaction        *)
(* returns to a call is true of the message that the call carried.          *)
THEOREM AnswersTrue == Spec => []AnswersAreTrue
<1>1. AnswerInv => AnswersAreTrue
  <2> SUFFICES ASSUME AnswerInv, NEW c \in Calls
               PROVE  /\ Cardinality({t \in Transactions : Carries(t, c)}) <= 1
                      /\ call[c] \in {"ok", "failed"} =>
                           \E t \in committed : Carries(t.tx, c) /\ t.result = call[c]
                      /\ call[c] = "refused" => \A t \in Transactions : ~Carries(t, c)
    BY DEF AnswersAreTrue
  <2> DEFINE S == {t \in Transactions : Carries(t, c)}
  <2>1. \A t, u \in S : t = u
    BY CarriesRange DEF AnswerInv, SentInOne
  <2>2. Cardinality(S) <= 1
    <3> HIDE DEF S
    <3>1. CASE S = {}
      BY <3>1, FS_EmptySet
    <3>2. CASE S # {}
      <4>1. PICK t : S = {t}
        BY <2>1, <3>2
      <4>2. Cardinality({t}) = 1
        BY FS_Singleton
      <4> QED
        BY <4>1, <4>2
    <3> QED
      BY <3>1, <3>2
  <2> QED
    BY <2>2, CarriesRange DEF AnswerInv, CallsAreTrue, Unsent
<1> QED
  BY <1>1, TypeInit, TypeStep, AnswerInit, AnswerStep, PTL DEF Spec

-----------------------------------------------------------------------------
(* The gas. *)

LEMMA GasInit == Init => GasInv
<1> SUFFICES ASSUME Init PROVE GasInv
  OBVIOUS
<1>1. Transactions = {}
  BY RangeEmpty DEF Init, Transactions
<1>2. msgs = << >> /\ totalGas = 0 /\ mode = "read"
  BY DEF Init
<1>3. IsFiniteSet({})
  BY FS_EmptySet
<1> QED
  <2>1. Range(msgs) = {} /\ Len(msgs) = 0 /\ totalGas = GasOf(Range(msgs))
    BY <1>2, RangeEmpty, GasOfNone
  <2>2. IsFiniteSet(Range(msgs))
    BY <1>3, <2>1
  <2>3. Len(msgs) <= MaximumMsgPerTx /\ Len(msgs) < MaximumMsgPerTx
    BY <2>1, ClientAssumption
  <2> QED
    BY <1>1, <1>2, <2>1, <2>2, <2>3 DEF GasInv

LEMMA GasStep == ClientType /\ AnswerInv /\ GasInv /\ [Next]_vars => GasInv'
<1> SUFFICES ASSUME ClientType, AnswerInv, GasInv, [Next]_vars PROVE GasInv'
  OBVIOUS
<1>0. /\ BatchedOnce /\ QueuedOnce /\ msgChan \in Seq(Calls) /\ msgs \in Seq(Calls)
      /\ Len(msgs) \in Nat /\ MaximumMsgPerTx \in Nat \ {0}
  BY LenProperties, ClientAssumption DEF AnswerInv, ClientType
<1>1. ASSUME UNCHANGED <<msgs, totalGas>>, Transactions' \subseteq Transactions,
             mode' = "read" => mode = "read", mode # "read" \/ mode' = "read" \/ Len(msgs) # 0,
             mode' \in {"prepare", "broadcast", "wait", "answer"} => tx'.gas = totalGas
      PROVE  GasInv'
  BY <1>0, <1>1 DEF GasInv, Paid
<1>2. ASSUME NEW c \in Calls, SendTransaction(c) PROVE GasInv'
  BY <1>1, <1>2, SentSame DEF SendTransaction, batch, node, GasInv
<1>3. CASE ReadMsg
  <2> DEFINE c == Head(msgChan)
  <2>1. /\ mode = "read" /\ msgChan # << >> /\ msgs' = Append(msgs, c)
        /\ totalGas' = totalGas + Gas[c]
        /\ mode' = IF Len(msgs') = MaximumMsgPerTx THEN "send" ELSE "read"
        /\ UNCHANGED <<tx, mempool, committed>>
    BY <1>3 DEF ReadMsg, node
  <2>2. c \in Calls /\ c \in Range(msgChan)
    BY <1>0, <2>1, RangeTail
  <2>3. c \notin Range(msgs)
    BY <1>0, <2>2 DEF QueuedOnce
  <2> HIDE DEF c
  <2>4. Range(msgs') = Range(msgs) \cup {c} /\ Len(msgs') = Len(msgs) + 1
    BY <1>0, <2>1, <2>2, RangeAppend
  <2>5. Range(msgs) \subseteq Calls /\ IsFiniteSet(Range(msgs))
    BY <1>0 DEF GasInv, Range
  <2>6. IsFiniteSet(Range(msgs')) /\ totalGas' = GasOf(Range(msgs'))
    BY <2>1, <2>2, <2>3, <2>4, <2>5, FS_AddElement, GasOfOneMore DEF GasInv
  <2>7. /\ Len(msgs') <= MaximumMsgPerTx /\ Len(msgs') >= 1
        /\ mode' = "read" => Len(msgs') < MaximumMsgPerTx
    BY <1>0, <2>1, <2>4 DEF GasInv
  <2>8. Transactions' = Transactions
    BY <2>1, SentSame
  <2> QED
    BY <2>1, <2>6, <2>7, <2>8 DEF GasInv, Paid
<1>4. CASE Timer
  BY <1>1, <1>4, SentSame DEF Timer, batch, node
<1>5. CASE GetSequence
  BY <1>1, <1>5, SentSame DEF GetSequence, batch, node
<1>a. CASE PrepareTxBuilder
  <2>1. tx'.gas = tx.gas
    BY <1>a DEF PrepareTxBuilder, ClientType, ClientTx
  <2> QED
    BY <1>1, <1>a, <2>1, SentSame DEF PrepareTxBuilder, batch, node, GasInv
<1>6. CASE Broadcast
  <2>1. /\ mode = "broadcast" /\ mode' \in {"wait", "answer"}
        /\ UNCHANGED <<msgs, totalGas, tx, committed>>
        /\ mempool' = mempool \/ mempool' = Append(mempool, tx)
    BY <1>6 DEF Broadcast, batch
  <2>2. tx.msgs = msgs /\ tx.gas = totalGas
    BY <1>0, <2>1 DEF BatchedOnce, GasInv
  <2>3. Paid(tx)
    BY <1>0, <2>1, <2>2 DEF Paid, GasInv, BatchedOnce
  <2>4. Transactions' \subseteq Transactions \cup {tx}
    BY <2>1, SentSame, SentByBroadcast
  <2> QED
    BY <2>1, <2>2, <2>3, <2>4 DEF GasInv, Paid
<1>7. CASE BroadcastFails
  BY <1>1, <1>7, SentSame DEF BroadcastFails, batch, node, GasInv
<1>8. CASE Answer
  BY <1>1, <1>8, SentSame DEF Answer, batch, node, GasInv
<1>9. CASE Clear
  <2>1. /\ mode' = "read" /\ msgs' = << >> /\ totalGas' = 0
        /\ UNCHANGED <<mempool, committed>>
    BY <1>9 DEF Clear, node
  <2>2. Transactions' = Transactions /\ IsFiniteSet({})
    BY <2>1, SentSame, FS_EmptySet
  <2>3. Range(msgs') = {} /\ Len(msgs') = 0 /\ totalGas' = GasOf(Range(msgs'))
    BY <2>1, RangeEmpty, GasOfNone
  <2>4. IsFiniteSet(Range(msgs'))
    BY <2>2, <2>3
  <2>5. Len(msgs') <= MaximumMsgPerTx /\ Len(msgs') < MaximumMsgPerTx
    BY <1>0, <2>3
  <2>6. \A t \in Transactions' : Paid(t)'
    BY <2>2 DEF GasInv, Paid
  <2> QED
    BY <2>1, <2>3, <2>4, <2>5, <2>6 DEF GasInv
<1>10. CASE CommitTx
  <2>1. /\ UNCHANGED <<msgs, totalGas, tx>>
        /\ mode' = mode \/ (mode = "wait" /\ mode' = "answer")
    BY <1>10 DEF CommitTx, batch
  <2> QED
    BY <1>1, <1>10, <2>1, SentStays DEF GasInv
<1>11. CASE NodeRestarts
  BY <1>1, <1>11, SentDropped DEF NodeRestarts, batch, GasInv
<1>12. CASE UNCHANGED vars
  BY <1>1, <1>12, SentSame DEF vars, batch, node, GasInv
<1> QED
  BY <1>2, <1>3, <1>4, <1>5, <1>a, <1>6, <1>7, <1>8, <1>9, <1>10, <1>11, <1>12 DEF Next, Loop

(* BandStatefulClient, for any positive gas and any MaximumMsgPerTx: no     *)
(* batch leaves messages or gas to the next.                                *)
THEOREM GasCovers == Spec => []GasCoversMessages
<1>1. GasInv => GasCoversMessages
  BY DEF GasInv, GasCoversMessages, Paid, GasOf
<1> QED
  BY <1>1, TypeInit, TypeStep, AnswerInit, AnswerStep, GasInit, GasStep, PTL DEF Spec
=============================================================================
