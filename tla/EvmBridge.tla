----------------------------- MODULE EvmBridge -----------------------------
(***************************************************************************)
(* The way of a result to another chain: the proof service                 *)
(* (src/chain/client/proof), the bridge contract                           *)
(* (src/bridges/evm/contracts/Bridge.sol) and the bot that tells the       *)
(* contract the validators' powers (src/chain/cmd/bandevmbot).             *)
(*                                                                         *)
(* A hash is the value it is made of.  The packets of a result are         *)
(* determined by its request and the block that saved it; a leaf of the    *)
(* oracle's tree is its version and the packets, whose request is its key. *)
(***************************************************************************)
EXTENDS Integers, FiniteSets, SequencesExt

CONSTANTS
  Validators,      \* their EVM addresses, as numbers: signatures are sorted
  ValidatorSets,   \* the powers they may have on BandChain
  Requests,        \* request IDs
  Executions,      \* the sequences of results a block may save
  InitialLists,    \* arguments of the contract's constructor
  OwnerLists,      \* updates the owner makes besides the bot's
  PageSize,        \* validators on a page of the node's answer
  MaxHeight,       \* bound: blocks of BandChain
  MaxOwnerUpdates  \* bound: updates of the owner

ASSUME BridgeAssumption ==
  /\ Validators \subseteq Nat \ {0} /\ IsFiniteSet(Validators)
  /\ ValidatorSets \subseteq [Validators -> Nat]
  /\ \A vals \in ValidatorSets : \E v \in Validators : vals[v] > 0
  /\ Requests \subseteq Nat \ {0} /\ IsFiniteSet(Requests)
  /\ \A executed \in Executions : executed \in Seq(Requests) /\ IsInjective(executed)
  /\ InitialLists \cup OwnerLists \subseteq Seq([addr : Validators, power : Nat])
  /\ PageSize \in Nat \ {0}
  /\ MaxHeight \in Nat /\ MaxOwnerUpdates \in Nat

VARIABLES
  chain,        \* blocks: the powers of the validators that sign them, and
                \* the results they save, in the order of the events
  proof,        \* the proof being made, or made last
  powers,       \* Bridge.validatorPowers
  total,        \* Bridge.totalValidatorPower
  oracleStates, \* Bridge.oracleStates, a function on the relayed heights
  bot,          \* its step, its list, and whether the nonce it read is used
  pending,      \* the lists in the transactions of the bot's account, which
                \* is the owner's, that are not mined
  ownerUpdates

contract == <<powers, total, oracleStates>>
vars == <<chain, proof, contract, bot, pending, ownerUpdates>>

-----------------------------------------------------------------------------
(* BandChain: a block is signed by two thirds of its validators.  Its       *)
(* header holds the state after the block before it.                        *)
NoLeaf == [version |-> 0, packets |-> <<0, 0>>]

StateAt(height) ==
  [r \in Requests |->
     LET saved == {h \in 1 .. height : r \in Range(chain[h].executed)}
     IN  IF saved = {} THEN NoLeaf
         ELSE [version |-> Max(saved), packets |-> <<r, Max(saved)>>]]

HeaderState(height) == StateAt(height - 1)

Signers(height) ==
  LET vals == chain[height].vals
  IN  {S \in SUBSET {v \in Validators : vals[v] > 0} :
         SumFunctionOnSet(vals, S) * 3 > SumFunction(vals) * 2}

NewBlock ==
  /\ Len(chain) < MaxHeight
  /\ \E vals \in ValidatorSets, executed \in Executions :
       chain' = Append(chain, [vals |-> vals, executed |-> executed])
  /\ UNCHANGED <<proof, contract, bot, pending, ownerUpdates>>

-----------------------------------------------------------------------------
(* The contract. *)

(* The constructor's loop; a validator that has a power is a duplicate.     *)
AddInitial(c, entry) ==
  IF c.ok /\ c.powers[entry.addr] = 0
  THEN [c EXCEPT !.powers[entry.addr] = entry.power, !.total = @ + entry.power]
  ELSE [c EXCEPT !.ok = FALSE]

Constructor(list) ==
  FoldLeft(AddInitial, [ok |-> TRUE, powers |-> [v \in Validators |-> 0], total |-> 0], list)

(* Mutant: the power the validator had stays in the total. *)
SetPowerAdds(c, entry) ==
  [c EXCEPT !.powers[entry.addr] = entry.power, !.total = @ + entry.power]

(* An entry of updateValidatorPowers. *)
SetPower(c, entry) ==
  [c EXCEPT !.powers[entry.addr] = entry.power,
            !.total = @ - c.powers[entry.addr] + entry.power]

UpdateValidatorPowers(list) ==
  LET c == FoldLeft(SetPower, [powers |-> powers, total |-> total], list)
  IN  /\ powers' = c.powers
      /\ total' = c.total
      /\ UNCHANGED oracleStates

(* The signers are recovered from the hash of the header that is computed   *)
(* with the given state; of another header than the signed one they would   *)
(* be other addresses, which have no power.                                 *)
SumVotingPower(p) ==
  IF p.state = HeaderState(p.height) THEN SumFunctionOnSet(powers, Range(p.signatures)) ELSE 0

Ascending(signatures) ==
  \A i \in 1 .. Len(signatures) - 1 : signatures[i] < signatures[i + 1]

RelayAccepted(p) ==
  /\ Ascending(p.signatures)
  /\ SumVotingPower(p) * 3 > total * 2

Relayed(p) ==
  [h \in DOMAIN oracleStates \cup {p.height} |->
     IF h = p.height THEN p.state ELSE oracleStates[h]]

(* The Merkle path leads from the leaf to the root.                         *)
ComputedRoot(p) ==
  [p.state EXCEPT ![p.id] = [version |-> p.version, packets |-> p.packets]]

VerifyAccepted(p, states) ==
  /\ p.height \in DOMAIN states
  /\ ComputedRoot(p) = states[p.height]

-----------------------------------------------------------------------------
(* The proof service. *)
NoProof == [step |-> "none", id |-> 0, height |-> 0, signatures |-> << >>,
            state |-> << >>, version |-> 0, packets |-> <<0, 0>>]

(* sort.Strings on the addresses of a set of validators. *)
Sorted(S) ==
  CHOOSE s \in [1 .. Cardinality(S) -> S] : Range(s) = S /\ Ascending(s)

(* The service reads the last commit and sorts its signatures.  Proofs can  *)
(* be had from the second block on.                                         *)
GetCommit(r) ==
  /\ proof.step # "commit"
  /\ Len(chain) >= 2
  /\ \E S \in Signers(Len(chain)) :
       proof' = [NoProof EXCEPT !.step = "commit", !.id = r, !.height = Len(chain),
                                !.signatures = Sorted(S)]
  /\ UNCHANGED <<chain, contract, bot, pending, ownerUpdates>>

(* Mutant: the packets of the first event are kept. *)
PacketsOfFirst(height) == <<Head(chain[height].executed), height>>

(* The request_execute events of the block that saved the result are read   *)
(* into one pair of packets: those of the last event are left.              *)
PacketsOf(height) == <<Last(chain[height].executed), height>>

WithData(state) ==
  LET version == state[proof.id].version
  IN  IF version = 0 THEN NoProof
      ELSE [proof EXCEPT !.step = "ready", !.state = state, !.version = version,
                         !.packets = PacketsOf(version)]

(* The result is queried at the height before that of the commit, however   *)
(* many blocks there are by now.                                            *)
GetData ==
  /\ proof.step = "commit"
  /\ proof' = WithData(StateAt(proof.height - 1))
  /\ UNCHANGED <<chain, contract, bot, pending, ownerUpdates>>

(* Someone sends the relay half of the proof to the contract, or all of it: *)
(* relayAndVerify reverts the relay if the data is refused.                 *)
RelayOracleState ==
  /\ proof.step = "ready"
  /\ RelayAccepted(proof)
  /\ oracleStates' = Relayed(proof)
  /\ UNCHANGED <<chain, proof, powers, total, bot, pending, ownerUpdates>>

RelayAndVerify ==
  /\ proof.step = "ready"
  /\ RelayAccepted(proof)
  /\ VerifyAccepted(proof, Relayed(proof))
  /\ oracleStates' = Relayed(proof)
  /\ UNCHANGED <<chain, proof, powers, total, bot, pending, ownerUpdates>>

-----------------------------------------------------------------------------
(* The bot. *)

(* The node's answer has the validators in the order of their addresses.    *)
ValidatorPage(vals) ==
  LET addrs == Sorted({v \in Validators : vals[v] > 0})
  IN  [i \in 1 .. Min({PageSize, Len(addrs)}) |-> [addr |-> addrs[i], power |-> vals[addrs[i]]]]

(* Mutant: the list is read in the first round only. *)
GetValidatorsOnce ==
  /\ bot.step = "idle"
  /\ bot' = [bot EXCEPT !.step = "nonce",
                        !.list = IF bot.list # << >> THEN bot.list ELSE ValidatorPage(Last(chain).vals)]
  /\ UNCHANGED <<chain, proof, contract, pending, ownerUpdates>>

(* A round begins with the validators of the last block.                    *)
GetValidators ==
  /\ bot.step = "idle"
  /\ bot' = [bot EXCEPT !.step = "nonce", !.list = ValidatorPage(Last(chain).vals)]
  /\ UNCHANGED <<chain, proof, contract, pending, ownerUpdates>>

(* NonceAt counts the mined transactions: one that is pending has it too.   *)
GetNonce ==
  /\ bot.step = "nonce"
  /\ bot' = [bot EXCEPT !.step = "send", !.nonceUsed = FALSE]
  /\ UNCHANGED <<chain, proof, contract, pending, ownerUpdates>>

(* The EVM node refuses a nonce that is used and a second transaction with  *)
(* the nonce and gas price of a pending one.  The bot panics.  The gas      *)
(* limit, for which the flag gas-price is taken, is assumed to be enough.   *)
SendTransaction ==
  /\ bot.step = "send"
  /\ IF pending = << >> /\ ~bot.nonceUsed
     THEN pending' = <<bot.list>> /\ bot' = [bot EXCEPT !.step = "idle"]
     ELSE bot' = [bot EXCEPT !.step = "stopped"] /\ UNCHANGED pending
  /\ UNCHANGED <<chain, proof, contract, ownerUpdates>>

(* Every other error of a call to BandChain's node or to the EVM node, a    *)
(* refusal of the transaction for its price or its size included.           *)
CallFails ==
  /\ bot.step \in {"idle", "nonce", "send"}
  /\ bot' = [bot EXCEPT !.step = "stopped"]
  /\ UNCHANGED <<chain, proof, contract, pending, ownerUpdates>>

(* Whoever runs the bot starts it again. *)
BotRestarts ==
  /\ bot.step = "stopped"
  /\ bot' = [bot EXCEPT !.step = "idle", !.list = << >>]
  /\ UNCHANGED <<chain, proof, contract, pending, ownerUpdates>>

(* The transactions of an account are mined in the order of their nonces.   *)
Mine ==
  /\ pending # << >>
  /\ UpdateValidatorPowers(Head(pending))
  /\ pending' = Tail(pending)
  /\ bot' = [bot EXCEPT !.nonceUsed = TRUE]
  /\ UNCHANGED <<chain, proof, ownerUpdates>>

(* The owner may update powers with another client, for one to remove a     *)
(* validator that left.  Only the owner may, so the bot has the owner's     *)
(* account: the update takes the nonce after those that are pending.        *)
OwnerUpdates ==
  /\ ownerUpdates < MaxOwnerUpdates
  /\ ownerUpdates' = ownerUpdates + 1
  /\ \E list \in OwnerLists : pending' = Append(pending, list)
  /\ UNCHANGED <<chain, proof, contract, bot>>

-----------------------------------------------------------------------------
Init ==
  /\ \E vals \in ValidatorSets : chain = <<[vals |-> vals, executed |-> << >>]>>
  /\ proof = NoProof
  /\ \E list \in InitialLists :
       /\ Constructor(list).ok
       /\ powers = Constructor(list).powers
       /\ total = Constructor(list).total
  /\ oracleStates = [h \in {} |-> << >>]
  /\ bot = [step |-> "idle", list |-> << >>, nonceUsed |-> TRUE]
  /\ pending = << >>
  /\ ownerUpdates = 0

BotRound == GetValidators \/ GetNonce \/ SendTransaction \/ CallFails \/ BotRestarts

Next ==
  \/ NewBlock
  \/ \E r \in Requests : GetCommit(r)
  \/ GetData
  \/ RelayOracleState
  \/ RelayAndVerify
  \/ BotRound
  \/ Mine
  \/ OwnerUpdates

Spec == Init /\ [][Next]_vars

(* The bot's loop runs and is restarted, none of its calls fails each time  *)
(* it is made, and the EVM chain mines.                                     *)
FairSpec ==
  /\ Spec
  /\ SF_vars(GetValidators) /\ SF_vars(GetNonce) /\ SF_vars(SendTransaction)
  /\ WF_vars(BotRestarts) /\ WF_vars(Mine)

-----------------------------------------------------------------------------
(* A commit is refused only because the contract's powers are not those of  *)
(* the validators that signed: with equal powers, through whatever          *)
(* constructor list, updates with duplicates and zero powers they came      *)
(* about, the total is right, and every proof the service makes relays.     *)
CurrentPowersSuffice ==
  proof.step = "ready" /\ powers = chain[proof.height].vals => RelayAccepted(proof)

(* What a proof proves, once its height is relayed: the packets that are    *)
(* accepted are those of the result that was asked for, as the chain had it *)
(* at that height, whatever blocks came while the proof was made; and the   *)
(* proof of a result that is the last one its block saved is accepted.  Of  *)
(* a result that another one followed the service makes no valid proof.     *)
LastOfBlockProved ==
  proof.step = "ready" /\ proof.height \in DOMAIN oracleStates =>
    LET version == HeaderState(proof.height)[proof.id].version
        accepted == VerifyAccepted(proof, oracleStates)
    IN  /\ accepted => proof.packets = <<proof.id, version>>
        /\ version # 0 /\ proof.id = Last(chain[version].executed) => accepted

(* Once the validator set stops changing, the contract has the power of     *)
(* every validator on the node's page, for good, although failed calls, a   *)
(* slow transaction and an update of the owner stop the bot.  A validator   *)
(* that left is on no page.                                                 *)
PowersCatchUp ==
  <>[](\A i \in DOMAIN ValidatorPage(Last(chain).vals) :
         LET entry == ValidatorPage(Last(chain).vals)[i] IN powers[entry.addr] = entry.power)
=============================================================================
