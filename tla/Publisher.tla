------------------------------ MODULE Publisher ------------------------------
(***************************************************************************)
(* The publisher process of the relay (on_chain_publisher.ts with          *)
(* publish_evm_transaction.ts): drains of the proofs in Redis, started at  *)
(* start-up and by every notification, that post proofs to the contract    *)
(* one after the other.  JavaScript interleaves the drains only at an      *)
(* await: every action is the code between two awaits, the remote call     *)
(* that ends it included.                                                  *)
(*                                                                         *)
(* The proof store, the notifications of the provers and the execution     *)
(* chain are the environment.  The relay's account is the only one that    *)
(* updates the contract.                                                   *)
(***************************************************************************)
EXTENDS Integers

CONSTANTS
  Drain,            \* drains that can be alive at the same time
  Slot,             \* slots a header can have
  FirstSlot,        \* slot of the header the contract is deployed with
  NoProof,          \* the reply of getNextProof when there is no proof
  MaxFailedNumber,  \* handleFailure's limit, 10 in the code
  MaxRetries,       \* bound: sends of one transaction
  MaxFaults         \* bound: failed remote calls and crashes

ASSUME PublisherAssumption ==
  /\ Drain # {}
  /\ Slot \subseteq Nat
  /\ FirstSlot \in Slot
  /\ MaxFailedNumber \in Nat
  /\ MaxRetries \in Nat \ {0}
  /\ MaxFaults \in Nat
  /\ NoProof \notin [from : Slot, to : Slot]

VARIABLES
  proofs,          \* Redis: the saved proofs
  onChain,         \* contract: slot of optimisticHeaderRoot
  txCount,         \* chain: transactions of the relay's account so far
  pending,         \* chain: transactions waiting to be included
  mined,           \* chain: transactions included with success
  isDrainRunning,  \* process: the module's flag
  subscribed,      \* process: subscribeForProofs has returned
  inbox,           \* process: a notification waits to be handled
  drain,           \* process: the activations of drainUpdatesInRedis
  stopping,        \* history: some drain has logged 'STOPPING'
  faults           \* history: failures so far

chainVars == <<onChain, txCount, pending, mined>>
processVars == <<isDrainRunning, subscribed, inbox, drain, stopping>>
vars == <<proofs, onChain, txCount, pending, mined, isDrainRunning,
          subscribed, inbox, drain, stopping, faults>>

Proof == {p \in [from : Slot, to : Slot] : p.from < p.to}

Transaction ==
  [proof : Proof, nonce : Nat, sender : Drain, retries : 1 .. MaxRetries]

\* Where a drain awaits: the contract's slot, the next proof, the reply's
\* handling, the gas estimate, the broadcast, the receipt, and the report and
\* pause after a published update.
PC == {"idle", "slot", "next", "reply", "estimate", "send", "wait", "posted"}

DrainState ==
  [pc : PC, slot : Slot, proof : Proof \cup {NoProof}, nonce : Nat,
   retries : 1 .. MaxRetries, failed : 0 .. MaxFailedNumber + 1]

TypeOK ==
  /\ proofs \subseteq Proof
  /\ onChain \in Slot
  /\ txCount \in Nat
  /\ pending \subseteq Transaction
  /\ mined \subseteq Transaction
  /\ isDrainRunning \in BOOLEAN
  /\ subscribed \in BOOLEAN
  /\ inbox \in BOOLEAN
  /\ drain \in [Drain -> DrainState]
  /\ stopping \in BOOLEAN
  /\ faults \in 0 .. MaxFaults
-----------------------------------------------------------------------------
\* A drain at the top of its loop after `failed' failures in a row.
AtTop(failed) ==
  [pc |-> "slot", slot |-> FirstSlot, proof |-> NoProof, nonce |-> 0,
   retries |-> 1, failed |-> failed]

Idle == [AtTop(0) EXCEPT !.pc = "idle"]

Active == {d \in Drain : drain[d].pc # "idle"}

Goto(d, state) == drain' = [drain EXCEPT ![d] = state]

\* The one drain publishProofs starts and awaits before it subscribes.
OnlyDrain(d) == [e \in Drain |-> IF e = d THEN AtTop(0) ELSE Idle]

Init ==
  /\ proofs = {}
  /\ onChain = FirstSlot
  /\ txCount = 0
  /\ pending = {}
  /\ mined = {}
  /\ isDrainRunning = TRUE
  /\ subscribed = FALSE
  /\ inbox = FALSE
  /\ \E d \in Drain : drain = OnlyDrain(d)
  /\ stopping = FALSE
  /\ faults = 0

-----------------------------------------------------------------------------
(***************************************************************************)
(* One turn of a drain's loop.                                             *)
(***************************************************************************)

GetSlotOnChain(d) ==
  /\ drain[d].pc = "slot"
  /\ Goto(d, [drain[d] EXCEPT !.pc = "next", !.slot = onChain])
  /\ UNCHANGED <<proofs, chainVars, isDrainRunning, subscribed, inbox,
                 stopping, faults>>

\* Redis answers; KEYS returns the matching proofs in no particular order.
GetNextProof(d) ==
  /\ drain[d].pc = "next"
  /\ \E p \in proofs \cup {NoProof} :
       /\ IF p = NoProof THEN \A q \in proofs : q.from # drain[d].slot
                         ELSE p.from = drain[d].slot
       /\ Goto(d, [drain[d] EXCEPT !.pc = "reply", !.proof = p])
  /\ UNCHANGED <<proofs, chainVars, isDrainRunning, subscribed, inbox,
                 stopping, faults>>

\* Mutant: the early return forgets the flag.
NothingToPublishFlagKept(d) ==
  /\ drain[d].pc = "reply"
  /\ drain[d].proof = NoProof
  /\ Goto(d, Idle)
  /\ UNCHANGED <<proofs, chainVars, isDrainRunning, subscribed, inbox,
                 stopping, faults>>

NothingToPublish(d) ==
  /\ drain[d].pc = "reply"
  /\ drain[d].proof = NoProof
  /\ isDrainRunning' = FALSE
  /\ Goto(d, Idle)
  /\ UNCHANGED <<proofs, chainVars, subscribed, inbox, stopping, faults>>

\* publishTransaction reads the account's nonce once, before its loop.
GetTransactionCount(d) ==
  /\ drain[d].pc = "reply"
  /\ drain[d].proof # NoProof
  /\ Goto(d, [drain[d] EXCEPT !.pc = "estimate", !.nonce = txCount])
  /\ UNCHANGED <<proofs, chainVars, isDrainRunning, subscribed, inbox,
                 stopping, faults>>

\* The contract is executed on its present state: the proof must start there.
EstimateGas(d) ==
  /\ drain[d].pc = "estimate"
  /\ drain[d].proof.from = onChain
  /\ Goto(d, [drain[d] EXCEPT !.pc = "send"])
  /\ UNCHANGED <<proofs, chainVars, isDrainRunning, subscribed, inbox,
                 stopping, faults>>

\* Mutant: the nonce is read again for every broadcast.
TransactionOfFreshNonce(d) ==
  [proof |-> drain[d].proof, nonce |-> txCount, sender |-> d,
   retries |-> drain[d].retries]

TransactionOf(d) ==
  [proof |-> drain[d].proof, nonce |-> drain[d].nonce, sender |-> d,
   retries |-> drain[d].retries]

\* The node takes a transaction only with the account's next nonce; one that
\* waits with the same nonce may be included instead.
Broadcast(d) ==
  /\ drain[d].pc = "send"
  /\ TransactionOf(d).nonce = txCount
  /\ pending' = pending \cup {TransactionOf(d)}
  /\ UNCHANGED <<proofs, onChain, txCount, mined>>

Send(d) ==
  /\ Broadcast(d)
  /\ Goto(d, [drain[d] EXCEPT !.pc = "wait"])
  /\ UNCHANGED <<isDrainRunning, subscribed, inbox, stopping, faults>>

\* Two minutes are over: again with a bumped fee and the same nonce.
BumpFee(d) ==
  /\ drain[d].pc = "wait"
  /\ drain[d].retries < MaxRetries
  /\ Goto(d, [drain[d] EXCEPT !.pc = "estimate", !.retries = @ + 1])
  /\ UNCHANGED <<proofs, chainVars, isDrainRunning, subscribed, inbox,
                 stopping, faults>>

\* Mutant: any transaction with the awaited nonce counts as the awaited one.
IncludedByNonce(d) == drain[d].nonce < txCount

Included(d) == TransactionOf(d) \in mined

Receipt(d) ==
  /\ drain[d].pc = "wait"
  /\ Included(d)
  /\ Goto(d, [drain[d] EXCEPT !.pc = "posted"])
  /\ UNCHANGED <<proofs, chainVars, isDrainRunning, subscribed, inbox,
                 stopping, faults>>

Posted(d) ==
  /\ drain[d].pc = "posted"
  /\ Goto(d, AtTop(0))
  /\ UNCHANGED <<proofs, chainVars, isDrainRunning, subscribed, inbox,
                 stopping, faults>>

-----------------------------------------------------------------------------
(***************************************************************************)
(* Failures: every exception of a turn ends in handleFailure, and the loop *)
(* goes on whatever handleFailure decided.                                 *)
(***************************************************************************)

\* Mutant: the limit on failures is not looked at.
WillRetryForever(d) ==
  /\ Goto(d, AtTop(drain[d].failed + 1))
  /\ UNCHANGED <<isDrainRunning, stopping>>

WillRetry(d) ==
  /\ drain[d].failed <= MaxFailedNumber
  /\ Goto(d, AtTop(drain[d].failed + 1))
  /\ UNCHANGED <<isDrainRunning, stopping>>

Stop(d) ==
  /\ drain[d].failed > MaxFailedNumber
  /\ isDrainRunning' = FALSE
  /\ stopping' = TRUE
  /\ Goto(d, AtTop(drain[d].failed))

handleFailure(d) ==
  /\ WillRetry(d) \/ Stop(d)
  /\ UNCHANGED <<subscribed, inbox>>

\* The code's own refusals: the estimate reverts, the nonce is used up, or
\* the awaited transaction reverted, or another one took its nonce.
Refused(d) ==
  /\ \/ drain[d].pc = "estimate" /\ drain[d].proof.from # onChain
     \/ drain[d].pc = "send" /\ TransactionOf(d).nonce < txCount
     \/ drain[d].pc = "wait" /\ ~Included(d) /\ drain[d].nonce < txCount
  /\ handleFailure(d)
  /\ UNCHANGED <<proofs, chainVars, faults>>

\* A remote call fails; a broadcast may have reached the node nevertheless.
RemoteFailure(d) ==
  /\ drain[d].pc # "idle"
  /\ drain[d].pc = "reply" => drain[d].proof # NoProof
  /\ faults < MaxFaults
  /\ faults' = faults + 1
  /\ handleFailure(d)
  /\ Broadcast(d) \/ UNCHANGED <<proofs, chainVars>>

-----------------------------------------------------------------------------
(***************************************************************************)
(* The process: notifications, the subscription, crash and restart.        *)
(***************************************************************************)

\* Mutant: a notification starts a drain whatever the flag says.
StartUnguarded(d) ==
  /\ isDrainRunning' = TRUE
  /\ Goto(d, AtTop(0))

\* drainUpdatesInRedis, up to its loop.
Start(d) ==
  /\ ~isDrainRunning
  /\ isDrainRunning' = TRUE
  /\ Goto(d, AtTop(0))

Deliver ==
  /\ subscribed
  /\ inbox
  /\ inbox' = FALSE
  /\ \/ \E d \in Drain \ Active : Start(d)
     \/ isDrainRunning /\ UNCHANGED <<isDrainRunning, drain>>
  /\ UNCHANGED <<proofs, chainVars, subscribed, stopping, faults>>

\* The first drain has returned.
Subscribe ==
  /\ ~subscribed
  /\ Active = {}
  /\ subscribed' = TRUE
  /\ UNCHANGED <<proofs, chainVars, isDrainRunning, inbox, drain, stopping,
                 faults>>

Restart ==
  /\ faults < MaxFaults
  /\ faults' = faults + 1
  /\ isDrainRunning' = TRUE
  /\ subscribed' = FALSE
  /\ inbox' = FALSE
  /\ \E d \in Drain : drain' = OnlyDrain(d)
  /\ stopping' = FALSE
  /\ UNCHANGED <<proofs, chainVars>>

-----------------------------------------------------------------------------
(***************************************************************************)
(* The environment: the provers and the execution chain.                   *)
(***************************************************************************)

\* Mutant: the key of a proof leaves out its target, so that a second proof
\* from the same header takes the first one's place.
SaveByFrom(p) ==
  /\ p \notin proofs
  /\ proofs' = {q \in proofs : q.from # p.from} \cup {p}
  /\ UNCHANGED <<chainVars, processVars, faults>>

Save(p) ==
  /\ p \notin proofs
  /\ proofs' = proofs \cup {p}
  /\ UNCHANGED <<chainVars, processVars, faults>>

\* After a proof is saved, or found again; Redis keeps no message for a
\* client that is not subscribed.
Notify ==
  /\ proofs # {}
  /\ inbox' = (inbox \/ subscribed)
  /\ UNCHANGED <<proofs, chainVars, isDrainRunning, subscribed, drain,
                 stopping, faults>>

\* A transaction is included: the contract takes its update, or reverts, and
\* wait() throws.  The others with its nonce can no longer be included.
Mine(tx) ==
  /\ tx.nonce = txCount
  /\ txCount' = txCount + 1
  /\ \/ /\ tx.proof.from = onChain
        /\ onChain' = tx.proof.to
        /\ mined' = mined \cup {tx}
     \/ /\ tx.proof.from # onChain
        /\ UNCHANGED <<onChain, mined>>
  /\ pending' = {t \in pending : t.nonce # tx.nonce}
  /\ UNCHANGED <<proofs, processVars, faults>>

-----------------------------------------------------------------------------
Turn(d) ==
  \/ GetSlotOnChain(d)
  \/ GetNextProof(d)
  \/ NothingToPublish(d)
  \/ GetTransactionCount(d)
  \/ EstimateGas(d)
  \/ Send(d)
  \/ Receipt(d)
  \/ Posted(d)
  \/ Refused(d)

Environment ==
  \/ \E p \in Proof : Save(p)
  \/ Notify
  \/ \E tx \in pending : Mine(tx)

Next ==
  \/ \E d \in Drain : Turn(d) \/ BumpFee(d) \/ RemoteFailure(d)
  \/ Deliver
  \/ Subscribe
  \/ Restart
  \/ Environment

\* The event loop runs every continuation and delivers what it received; the
\* chain includes what waits with the next nonce; and the provers go on
\* announcing proofs, as the beacon chain goes on growing.
Fairness ==
  /\ \A d \in Drain : WF_vars(Turn(d))
  /\ WF_vars(Deliver)
  /\ WF_vars(Subscribe)
  /\ WF_vars(Notify)
  /\ WF_vars(\E tx \in pending : Mine(tx))

Spec == Init /\ [][Next]_vars

FairSpec == Spec /\ Fairness
-----------------------------------------------------------------------------
\* Nobody is locked out: while the flag is set some drain is at work, so the
\* notifications it makes drainUpdatesInRedis ignore are not lost for good.
FlagMeansDraining == isDrainRunning => Active # {}

\* The flag excludes a second drain ('Publishing transactions is already
\* running') as long as handleFailure has not logged 'STOPPING'.
OneDrainUnlessStopping ==
  ~stopping =>
    /\ Active # {} => isDrainRunning
    /\ \A d, e \in Active : d = e

\* No transaction of the relay can revert on chain: whatever waits to be
\* included carries the account's next nonce and a saved proof that starts
\* at the contract's header, with concurrent drains, retries and restarts.
PendingLinked ==
  \A tx \in pending :
    /\ tx.nonce = txCount
    /\ tx.proof \in proofs
    /\ tx.proof.from = onChain

\* A drain that takes its update for published is right: the contract has
\* reached it, even if another drain, an earlier send or the send of a
\* crashed process competed for the same nonce.
PostedIsOnChain ==
  \A d \in Drain : drain[d].pc = "posted" => onChain >= drain[d].proof.to

PP == INSTANCE ProofPublication

\* The publisher moves the contract's header only along saved proofs.
Publication == PP!Spec

\* A proof that starts at the contract's header gets the contract past that
\* header, whatever fails on the way and although a notification that comes
\* before the subscription, or between the empty reply of Redis and its
\* handling, is lost: the notifications of later proofs make up for it.
ProofsArePublished ==
  \A s \in Slot :
    (onChain = s /\ \E p \in proofs : p.from = s) ~> (onChain # s)
=============================================================================
