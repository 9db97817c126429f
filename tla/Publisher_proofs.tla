--------------------------- MODULE Publisher_proofs ---------------------------
(***************************************************************************)
(* Proofs about the publisher for any number of concurrent drains, any     *)
(* slots, and any number of failures, retries and restarts.                *)
(***************************************************************************)
EXTENDS Publisher, TLAPS

\* A drain's state at the top of its loop and at rest has its type.
LEMMA AtTopType ==
  /\ \A n \in 0 .. MaxFailedNumber + 1 : AtTop(n) \in DrainState
  /\ AtTop(0) \in DrainState
  /\ Idle \in DrainState
<1>1. \A n \in 0 .. MaxFailedNumber + 1 : AtTop(n) \in DrainState
  BY PublisherAssumption DEF AtTop, DrainState, PC
<1>2. 0 \in 0 .. MaxFailedNumber + 1
  BY PublisherAssumption
<1>3. Idle \in DrainState
  BY <1>1, <1>2 DEF Idle, DrainState, PC
<1>4. QED
  BY <1>1, <1>2, <1>3

\* What such a drain holds.
LEMMA AtTopValue ==
  /\ \A n : /\ AtTop(n).pc = "slot"
            /\ AtTop(n).proof = NoProof
            /\ AtTop(n).nonce = 0
            /\ AtTop(n).failed = n
  /\ Idle.pc = "idle" /\ Idle.proof = NoProof /\ Idle.nonce = 0
  BY DEF AtTop, Idle

\* A transaction made from a drain that holds a proof has its type.
LEMMA TransactionType ==
  ASSUME TypeOK, NEW d \in Drain, drain[d].proof # NoProof
  PROVE  TransactionOf(d) \in Transaction
  BY DEF TypeOK, DrainState, TransactionOf, Transaction

\* What handleFailure does to the process, whatever failed.
LEMMA FailureType ==
  ASSUME TypeOK, NEW d \in Drain, handleFailure(d)
  PROVE  /\ drain' \in [Drain -> DrainState]
         /\ isDrainRunning' \in BOOLEAN
         /\ stopping' \in BOOLEAN
<1>1. drain[d].failed \in 0 .. MaxFailedNumber + 1
  BY DEF TypeOK, DrainState
<1>2. CASE WillRetry(d)
  <2>1. drain[d].failed + 1 \in 0 .. MaxFailedNumber + 1
    BY <1>1, <1>2, PublisherAssumption DEF WillRetry
  <2>2. QED
    BY <1>2, <2>1, AtTopType DEF WillRetry, Goto, TypeOK
<1>3. CASE Stop(d)
  BY <1>1, <1>3, AtTopType DEF Stop, Goto, TypeOK
<1>4. QED
  BY <1>2, <1>3 DEF handleFailure

\* A broadcast keeps the types of the chain's variables and of the store.
LEMMA BroadcastType ==
  ASSUME TypeOK, NEW d \in Drain, drain[d].proof # NoProof, Broadcast(d)
  PROVE  /\ proofs' \subseteq Proof
         /\ onChain' \in Slot
         /\ txCount' \in Nat
         /\ pending' \subseteq Transaction
         /\ mined' \subseteq Transaction
  BY TransactionType DEF TypeOK, Broadcast

-----------------------------------------------------------------------------
(***************************************************************************)
(* The inductive invariant, in three parts.                                *)
(***************************************************************************)

\* From the estimate on a drain holds a proof, and only a saved one; its
\* nonce was the account's when it was read.
HeldProofs ==
  \A d \in Drain :
    /\ drain[d].proof \in proofs \cup {NoProof}
    /\ drain[d].pc \in {"estimate", "send", "wait", "posted"} =>
         drain[d].proof # NoProof
    /\ drain[d].nonce <= txCount

\* An estimate is still good while its nonce is: whoever moved the contract
\* since has used that nonce.
EstimatesHold ==
  \A d \in Drain :
    (drain[d].pc = "send" /\ drain[d].nonce = txCount) =>
      drain[d].proof.from = onChain

\* The contract has reached every included update.
MinedIsOnChain == \A tx \in mined : onChain >= tx.proof.to

Exclusion == FlagMeansDraining /\ OneDrainUnlessStopping

IInv ==
  /\ TypeOK
  /\ Exclusion
  /\ HeldProofs
  /\ EstimatesHold
  /\ PendingLinked
  /\ MinedIsOnChain
  /\ PostedIsOnChain

\* The process just started, on an empty store and a new contract.
LEMMA InitInvariant == Init => IInv
<1>. SUFFICES ASSUME Init PROVE IInv
  OBVIOUS
<1>. USE PublisherAssumption
<1>1. PICK e \in Drain : drain = OnlyDrain(e)
  BY DEF Init
<1>2. TypeOK
  <2>1. drain \in [Drain -> DrainState]
    BY <1>1, AtTopType DEF OnlyDrain
  <2>2. 0 \in 0 .. MaxFaults
    OBVIOUS
  <2>3. QED
    BY <2>1, <2>2 DEF Init, TypeOK
<1>3. Active = {e}
  BY <1>1, AtTopValue DEF Active, OnlyDrain
<1>4. Exclusion
  BY <1>3 DEF Exclusion, FlagMeansDraining, OneDrainUnlessStopping, Init
<1>5. \A d \in Drain : /\ drain[d].pc \in {"slot", "idle"}
                       /\ drain[d].proof = NoProof
                       /\ drain[d].nonce = 0
  BY <1>1, AtTopValue DEF OnlyDrain
<1>6. HeldProofs /\ EstimatesHold /\ PostedIsOnChain
  BY <1>5 DEF HeldProofs, EstimatesHold, PostedIsOnChain, Init
<1>7. PendingLinked /\ MinedIsOnChain
  BY DEF PendingLinked, MinedIsOnChain, Init
<1>8. QED
  BY <1>2, <1>4, <1>6, <1>7 DEF IInv

-----------------------------------------------------------------------------
\* Every step keeps the types.
LEMMA TypeStep == TypeOK /\ HeldProofs /\ [Next]_vars => TypeOK'
<1>. SUFFICES ASSUME TypeOK, HeldProofs, [Next]_vars PROVE TypeOK'
  OBVIOUS
<1>. USE PublisherAssumption
<1>1. ASSUME NEW d \in Drain, Turn(d) PROVE TypeOK'
  <2>1. CASE GetSlotOnChain(d)
    BY <2>1 DEF GetSlotOnChain, Goto, TypeOK, DrainState, PC, chainVars
  <2>2. CASE GetNextProof(d)
    <3>1. PICK p \in proofs \cup {NoProof} :
            Goto(d, [drain[d] EXCEPT !.pc = "reply", !.proof = p])
      BY <2>2 DEF GetNextProof
    <3>2. p \in Proof \cup {NoProof}
      BY DEF TypeOK
    <3>3. drain' \in [Drain -> DrainState]
      BY <3>1, <3>2 DEF Goto, TypeOK, DrainState, PC
    <3>4. QED
      BY <2>2, <3>3 DEF GetNextProof, TypeOK, chainVars
  <2>3. CASE NothingToPublish(d)
    BY <2>3, AtTopType DEF NothingToPublish, Goto, TypeOK, chainVars
  <2>4. CASE GetTransactionCount(d)
    BY <2>4 DEF GetTransactionCount, Goto, TypeOK, DrainState, PC, chainVars
  <2>5. CASE EstimateGas(d)
    BY <2>5 DEF EstimateGas, Goto, TypeOK, DrainState, PC, chainVars
  <2>6. CASE Send(d)
    <3>1. drain[d].proof # NoProof
      BY <2>6 DEF Send, Broadcast, HeldProofs
    <3>2. drain' \in [Drain -> DrainState]
      BY <2>6 DEF Send, Goto, TypeOK, DrainState, PC
    <3>3. QED
      BY <2>6, <3>1, <3>2, BroadcastType DEF Send, TypeOK
  <2>7. CASE Receipt(d)
    BY <2>7 DEF Receipt, Goto, TypeOK, DrainState, PC, chainVars
  <2>8. CASE Posted(d)
    BY <2>8, AtTopType DEF Posted, Goto, TypeOK, chainVars
  <2>9. CASE Refused(d)
    <3>1. handleFailure(d)
      BY <2>9 DEF Refused
    <3>2. QED
      BY <2>9, <3>1, FailureType DEF Refused, handleFailure, TypeOK, chainVars
  <2>10. QED
    BY <1>1, <2>1, <2>2, <2>3, <2>4, <2>5, <2>6, <2>7, <2>8, <2>9 DEF Turn
<1>2. ASSUME NEW d \in Drain, BumpFee(d) PROVE TypeOK'
  <2>1. drain[d].retries + 1 \in 1 .. MaxRetries
    BY <1>2 DEF BumpFee, TypeOK, DrainState
  <2>2. drain' \in [Drain -> DrainState]
    BY <1>2, <2>1 DEF BumpFee, Goto, TypeOK, DrainState, PC
  <2>3. QED
    BY <1>2, <2>2 DEF BumpFee, TypeOK, chainVars
<1>3. ASSUME NEW d \in Drain, RemoteFailure(d) PROVE TypeOK'
  <2>1. /\ handleFailure(d)
        /\ faults' \in 0 .. MaxFaults
        /\ subscribed' = subscribed
        /\ inbox' = inbox
    BY <1>3 DEF RemoteFailure, handleFailure, TypeOK
  <2>2. CASE Broadcast(d)
    <3>1. drain[d].proof # NoProof
      BY <2>2 DEF Broadcast, HeldProofs
    <3>2. QED
      BY <2>1, <2>2, <3>1, FailureType, BroadcastType DEF TypeOK
  <2>3. CASE UNCHANGED <<proofs, chainVars>>
    BY <2>1, <2>3, FailureType DEF TypeOK, chainVars
  <2>4. QED
    BY <1>3, <2>2, <2>3 DEF RemoteFailure
<1>4. CASE Deliver
  <2>1. drain' \in [Drain -> DrainState] /\ isDrainRunning' \in BOOLEAN
    BY <1>4, AtTopType DEF Deliver, Start, Goto, TypeOK
  <2>2. QED
    BY <1>4, <2>1 DEF Deliver, TypeOK, chainVars
<1>5. CASE Subscribe
  BY <1>5 DEF Subscribe, TypeOK, chainVars
<1>6. CASE Restart
  <2>1. drain' \in [Drain -> DrainState]
    BY <1>6, AtTopType DEF Restart, OnlyDrain
  <2>2. faults' \in 0 .. MaxFaults
    BY <1>6 DEF Restart, TypeOK
  <2>3. QED
    BY <1>6, <2>1, <2>2 DEF Restart, TypeOK, chainVars
<1>7. CASE Environment
  <2>1. ASSUME NEW p \in Proof, Save(p) PROVE TypeOK'
    BY <2>1 DEF Save, TypeOK, chainVars, processVars
  <2>2. CASE Notify
    BY <2>2 DEF Notify, TypeOK, chainVars
  <2>3. ASSUME NEW tx \in pending, Mine(tx) PROVE TypeOK'
    <3>1. tx \in Transaction /\ tx.proof.to \in Slot
      BY DEF TypeOK, Transaction, Proof
    <3>2. QED
      BY <2>3, <3>1 DEF Mine, TypeOK, processVars
  <2>4. QED
    BY <1>7, <2>1, <2>2, <2>3 DEF Environment
<1>8. CASE UNCHANGED vars
  BY <1>8 DEF vars, TypeOK
<1>9. QED
  BY <1>1, <1>2, <1>3, <1>4, <1>5, <1>6, <1>7, <1>8 DEF Next

-----------------------------------------------------------------------------
(***************************************************************************)
(* The flag and the drains.                                                *)
(***************************************************************************)

\* An awaiting drain that goes on awaiting changes nobody's activity.
LEMMA StaysActive ==
  ASSUME TypeOK, NEW d \in Drain, drain[d].pc # "idle",
         NEW s, s.pc # "idle", Goto(d, s)
  PROVE  Active' = Active
  BY DEF Goto, Active, TypeOK

\* Every step keeps the flag in agreement with the drains.
LEMMA ExclusionStep == TypeOK /\ Exclusion /\ [Next]_vars => Exclusion'
<1>. SUFFICES ASSUME TypeOK, Exclusion, [Next]_vars PROVE Exclusion'
  OBVIOUS
<1>. USE DEF Exclusion, FlagMeansDraining, OneDrainUnlessStopping
<1>1. ASSUME NEW d \in Drain, handleFailure(d), drain[d].pc # "idle"
      PROVE  Exclusion'
  <2>1. CASE WillRetry(d)
    <3>1. Active' = Active
      BY <1>1, <2>1, AtTopValue, StaysActive DEF WillRetry
    <3>2. QED
      BY <2>1, <3>1 DEF WillRetry
  <2>2. CASE Stop(d)
    BY <2>2 DEF Stop
  <2>3. QED
    BY <1>1, <2>1, <2>2 DEF handleFailure
<1>2. ASSUME NEW d \in Drain, Turn(d) PROVE Exclusion'
  <2>1. ASSUME UNCHANGED <<isDrainRunning, stopping>>, drain[d].pc # "idle",
               NEW s, s.pc # "idle", Goto(d, s)
        PROVE  Exclusion'
    BY <2>1, StaysActive
  <2>2. drain[d] \in DrainState
    BY DEF TypeOK
  <2>3. CASE GetSlotOnChain(d)
    BY <2>1, <2>2, <2>3 DEF GetSlotOnChain, DrainState
  <2>4. CASE GetNextProof(d)
    BY <2>1, <2>2, <2>4 DEF GetNextProof, DrainState
  <2>5. CASE NothingToPublish(d)
    <3>1. ~isDrainRunning' /\ stopping' = stopping
      BY <2>5 DEF NothingToPublish
    <3>2. Active' = Active \ {d}
      BY <2>5, AtTopValue DEF NothingToPublish, Goto, Active, TypeOK
    <3>3. d \in Active
      BY <2>5 DEF NothingToPublish, Active
    <3>4. QED
      BY <3>1, <3>2, <3>3
  <2>6. CASE GetTransactionCount(d)
    BY <2>1, <2>2, <2>6 DEF GetTransactionCount, DrainState
  <2>7. CASE EstimateGas(d)
    BY <2>1, <2>2, <2>7 DEF EstimateGas, DrainState
  <2>8. CASE Send(d)
    BY <2>1, <2>2, <2>8 DEF Send, Broadcast, DrainState
  <2>9. CASE Receipt(d)
    BY <2>1, <2>2, <2>9 DEF Receipt, DrainState
  <2>10. CASE Posted(d)
    BY <2>1, <2>10, AtTopValue DEF Posted
  <2>11. CASE Refused(d)
    BY <1>1, <2>11 DEF Refused
  <2>12. QED
    BY <1>2, <2>3, <2>4, <2>5, <2>6, <2>7, <2>8, <2>9, <2>10, <2>11 DEF Turn
<1>3. ASSUME NEW d \in Drain, BumpFee(d) PROVE Exclusion'
  <2>1. Active' = Active
    BY <1>3 DEF BumpFee, Goto, Active, TypeOK, DrainState
  <2>2. QED
    BY <1>3, <2>1 DEF BumpFee
<1>4. ASSUME NEW d \in Drain, RemoteFailure(d) PROVE Exclusion'
  BY <1>1, <1>4 DEF RemoteFailure
<1>5. CASE Deliver
  <2>1. ASSUME NEW d \in Drain \ Active, Start(d) PROVE Exclusion'
    <3>1. Active' = Active \cup {d}
      BY <2>1, AtTopValue DEF Start, Goto, Active, TypeOK
    <3>2. ~stopping => Active = {}
      BY <2>1 DEF Start
    <3>3. stopping' = stopping
      BY <1>5 DEF Deliver
    <3>4. QED
      BY <2>1, <3>1, <3>2, <3>3 DEF Start
  <2>2. CASE UNCHANGED <<isDrainRunning, drain>>
    BY <1>5, <2>2 DEF Deliver, Active
  <2>3. QED
    BY <1>5, <2>1, <2>2 DEF Deliver
<1>6. CASE Restart
  <2>1. PICK d \in Drain : drain' = OnlyDrain(d)
    BY <1>6 DEF Restart
  <2>2. Active' = {d}
    BY <2>1, AtTopValue DEF OnlyDrain, Active
  <2>3. QED
    BY <1>6, <2>2 DEF Restart
<1>7. CASE Subscribe \/ Environment \/ UNCHANGED vars
  BY <1>7 DEF Subscribe, Environment, Save, Notify, Mine, processVars, vars,
              Active
<1>8. QED
  BY <1>2, <1>3, <1>4, <1>5, <1>6, <1>7 DEF Next

-----------------------------------------------------------------------------
(***************************************************************************)
(* The drains, the mempool and the contract.                               *)
(***************************************************************************)

ChainInv ==
  /\ HeldProofs
  /\ EstimatesHold
  /\ PendingLinked
  /\ MinedIsOnChain
  /\ PostedIsOnChain

\* What ChainInv asks of one drain.
Holds(s) ==
  /\ s.proof \in proofs \cup {NoProof}
  /\ s.pc \in {"estimate", "send", "wait", "posted"} => s.proof # NoProof
  /\ s.nonce <= txCount
  /\ (s.pc = "send" /\ s.nonce = txCount) => s.proof.from = onChain
  /\ s.pc = "posted" => onChain >= s.proof.to

\* A step of one drain that leaves the store and the chain alone.
LEMMA LocalStep ==
  ASSUME TypeOK, ChainInv, UNCHANGED <<proofs, chainVars>>,
         NEW d \in Drain, NEW s, Goto(d, s), Holds(s)
  PROVE  ChainInv'
<1>1. \A e \in Drain : drain'[e] = IF e = d THEN s ELSE drain[e]
  BY DEF Goto, TypeOK
<1>2. QED
  BY <1>1 DEF ChainInv, HeldProofs, EstimatesHold, PendingLinked,
              MinedIsOnChain, PostedIsOnChain, Holds, chainVars

\* A drain that has failed holds nothing.
LEMMA FailureHolds ==
  ASSUME TypeOK, NEW d \in Drain, handleFailure(d)
  PROVE  \E s : Goto(d, s) /\ Holds(s)
<1>1. \A n : Holds(AtTop(n))
  BY AtTopValue DEF Holds, TypeOK
<1>2. QED
  BY <1>1 DEF handleFailure, WillRetry, Stop

\* A drain broadcasts only what starts at the contract's header.
LEMMA BroadcastLinked ==
  ASSUME TypeOK, ChainInv, NEW d \in Drain, Broadcast(d)
  PROVE  PendingLinked'
<1>1. /\ drain[d].pc = "send"
      /\ drain[d].nonce = txCount
  BY DEF Broadcast, TransactionOf
<1>2. /\ drain[d].proof \in proofs
      /\ drain[d].proof.from = onChain
  BY <1>1 DEF ChainInv, HeldProofs, EstimatesHold
<1>3. QED
  BY <1>1, <1>2
  DEF ChainInv, PendingLinked, Broadcast, TransactionOf

\* An included transaction moves the contract forward, uses up its nonce and
\* with it every estimate made before, and leaves nothing pending.
LEMMA MineStep ==
  ASSUME TypeOK, ChainInv, NEW tx \in pending, Mine(tx)
  PROVE  ChainInv'
<1>. USE PublisherAssumption DEF ChainInv
<1>1. /\ tx \in Transaction
      /\ tx.proof.from = onChain
      /\ tx.nonce = txCount
  BY DEF PendingLinked, TypeOK
<1>2. /\ tx.proof.from \in Nat
      /\ tx.proof.to \in Nat
      /\ tx.proof.from < tx.proof.to
  BY <1>1 DEF Transaction, Proof
<1>3. /\ onChain' = tx.proof.to
      /\ onChain < onChain'
      /\ onChain \in Nat /\ onChain' \in Nat
  BY <1>1, <1>2 DEF Mine
<1>4. /\ txCount' = txCount + 1
      /\ txCount \in Nat
      /\ proofs' = proofs
      /\ drain' = drain
  BY DEF Mine, processVars, TypeOK
<1>5. \A d \in Drain : drain[d] \in DrainState
  BY DEF TypeOK
<1>6. HeldProofs'
  <2>1. \A d \in Drain : drain[d].nonce \in Nat
    BY <1>5 DEF DrainState
  <2>2. QED
    BY <1>4, <2>1 DEF HeldProofs
<1>7. EstimatesHold'
  <2>1. \A d \in Drain : drain[d].nonce \in Nat /\ drain[d].nonce <= txCount
    BY <1>5 DEF DrainState, HeldProofs
  <2>2. QED
    BY <1>4, <2>1 DEF EstimatesHold
<1>8. PendingLinked'
  BY DEF Mine, PendingLinked
<1>9. MinedIsOnChain'
  <2>1. \A t \in mined : t.proof.to \in Nat
    BY DEF TypeOK, Transaction, Proof
  <2>2. QED
    BY <1>3, <2>1 DEF Mine, MinedIsOnChain
<1>10. PostedIsOnChain'
  <2>1. ASSUME NEW d \in Drain, drain[d].pc = "posted"
        PROVE  drain[d].proof.to \in Nat
    BY <2>1, <1>5 DEF HeldProofs, DrainState, Proof
  <2>2. QED
    BY <1>3, <1>4, <2>1 DEF PostedIsOnChain
<1>11. QED
  BY <1>6, <1>7, <1>8, <1>9, <1>10

\* Every step keeps the drains, the mempool and the contract linked.
LEMMA ChainStep == TypeOK /\ ChainInv /\ [Next]_vars => ChainInv'
<1>. SUFFICES ASSUME TypeOK, ChainInv, [Next]_vars PROVE ChainInv'
  OBVIOUS
<1>1. ASSUME NEW d \in Drain, handleFailure(d), UNCHANGED <<proofs, chainVars>>
      PROVE  ChainInv'
  BY <1>1, FailureHolds, LocalStep
<1>2. ASSUME NEW d \in Drain PROVE drain[d] \in DrainState /\ Holds(drain[d])
  BY DEF TypeOK, ChainInv, HeldProofs, EstimatesHold, PostedIsOnChain, Holds
<1>3. ASSUME NEW d \in Drain, Broadcast(d),
             NEW s, Goto(d, s), Holds(s), s.pc # "send"
      PROVE  ChainInv'
  <2>1. \A e \in Drain : drain'[e] = IF e = d THEN s ELSE drain[e]
    BY <1>3 DEF Goto, TypeOK
  <2>2. PendingLinked'
    BY <1>3, BroadcastLinked
  <2>3. QED
    BY <1>3, <2>1, <2>2
    DEF ChainInv, HeldProofs, EstimatesHold, MinedIsOnChain, PostedIsOnChain,
        Holds, Broadcast
<1>4. ASSUME NEW d \in Drain, Turn(d) PROVE ChainInv'
  <2>. USE DEF DrainState, Holds
  <2>1. CASE GetSlotOnChain(d)
    BY <1>2, <2>1, LocalStep DEF GetSlotOnChain
  <2>2. CASE GetNextProof(d)
    <3>1. PICK p \in proofs \cup {NoProof} :
            Goto(d, [drain[d] EXCEPT !.pc = "reply", !.proof = p])
      BY <2>2 DEF GetNextProof
    <3>2. Holds([drain[d] EXCEPT !.pc = "reply", !.proof = p])
      BY <1>2
    <3>3. QED
      BY <2>2, <3>1, <3>2, LocalStep DEF GetNextProof
  <2>3. CASE NothingToPublish(d)
    <3>1. Holds(Idle)
      BY AtTopValue DEF TypeOK
    <3>2. QED
      BY <2>3, <3>1, LocalStep DEF NothingToPublish
  <2>4. CASE GetTransactionCount(d)
    <3>1. Holds([drain[d] EXCEPT !.pc = "estimate", !.nonce = txCount])
      BY <1>2, <2>4 DEF GetTransactionCount, TypeOK
    <3>2. QED
      BY <2>4, <3>1, LocalStep DEF GetTransactionCount
  <2>5. CASE EstimateGas(d)
    BY <1>2, <2>5, LocalStep DEF EstimateGas
  <2>6. CASE Send(d)
    <3>1. Holds([drain[d] EXCEPT !.pc = "wait"])
      BY <1>2, <2>6 DEF Send, Broadcast
    <3>2. QED
      BY <1>2, <1>3, <2>6, <3>1 DEF Send
  <2>7. CASE Receipt(d)
    <3>1. onChain >= drain[d].proof.to
      BY <2>7 DEF Receipt, Included, TransactionOf, ChainInv, MinedIsOnChain
    <3>2. Holds([drain[d] EXCEPT !.pc = "posted"])
      BY <1>2, <2>7, <3>1 DEF Receipt
    <3>3. QED
      BY <2>7, <3>2, LocalStep DEF Receipt
  <2>8. CASE Posted(d)
    <3>1. Holds(AtTop(0))
      BY AtTopValue DEF TypeOK
    <3>2. QED
      BY <2>8, <3>1, LocalStep DEF Posted
  <2>9. CASE Refused(d)
    BY <1>1, <2>9 DEF Refused
  <2>10. QED
    BY <1>4, <2>1, <2>2, <2>3, <2>4, <2>5, <2>6, <2>7, <2>8, <2>9 DEF Turn
<1>5. ASSUME NEW d \in Drain, BumpFee(d) PROVE ChainInv'
  <2>1. Holds([drain[d] EXCEPT !.pc = "estimate", !.retries = @ + 1])
    BY <1>2, <1>5 DEF BumpFee, DrainState, Holds
  <2>2. QED
    BY <1>5, <2>1, LocalStep DEF BumpFee
<1>6. ASSUME NEW d \in Drain, RemoteFailure(d) PROVE ChainInv'
  <2>1. CASE Broadcast(d)
    <3>1. \E n : Goto(d, AtTop(n))
      BY <1>6 DEF RemoteFailure, handleFailure, WillRetry, Stop
    <3>2. \A n : Holds(AtTop(n)) /\ AtTop(n).pc # "send"
      BY AtTopValue DEF Holds, TypeOK
    <3>3. QED
      BY <1>3, <2>1, <3>1, <3>2
  <2>2. CASE UNCHANGED <<proofs, chainVars>>
    BY <1>1, <1>6, <2>2 DEF RemoteFailure
  <2>3. QED
    BY <1>6, <2>1, <2>2 DEF RemoteFailure
<1>7. CASE Deliver
  <2>1. Holds(AtTop(0))
    BY AtTopValue DEF Holds, TypeOK
  <2>2. ASSUME NEW d \in Drain, Start(d) PROVE ChainInv'
    BY <1>7, <2>1, <2>2, LocalStep DEF Start, Deliver
  <2>3. CASE UNCHANGED drain
    BY <1>7, <2>3
    DEF Deliver, chainVars, ChainInv, HeldProofs, EstimatesHold,
        PendingLinked, MinedIsOnChain, PostedIsOnChain
  <2>4. QED
    BY <1>7, <2>2, <2>3 DEF Deliver
<1>8. CASE Restart
  <2>1. PICK d \in Drain : drain' = OnlyDrain(d)
    BY <1>8 DEF Restart
  <2>2. \A e \in Drain : /\ drain'[e].pc \in {"slot", "idle"}
                         /\ drain'[e].proof = NoProof
                         /\ drain'[e].nonce = 0
    BY <2>1, AtTopValue DEF OnlyDrain
  <2>3. QED
    BY <1>8, <2>2
    DEF Restart, chainVars, ChainInv, HeldProofs, EstimatesHold,
        PendingLinked, MinedIsOnChain, PostedIsOnChain, TypeOK
<1>9. CASE Environment
  <2>1. ASSUME NEW p \in Proof, Save(p) PROVE ChainInv'
    BY <2>1
    DEF Save, chainVars, processVars, ChainInv, HeldProofs, EstimatesHold,
        PendingLinked, MinedIsOnChain, PostedIsOnChain
  <2>2. CASE Notify
    BY <2>2
    DEF Notify, chainVars, ChainInv, HeldProofs, EstimatesHold,
        PendingLinked, MinedIsOnChain, PostedIsOnChain
  <2>3. QED
    BY <1>9, <2>1, <2>2, MineStep DEF Environment
<1>10. CASE Subscribe \/ UNCHANGED vars
  BY <1>10
  DEF Subscribe, vars, chainVars, ChainInv, HeldProofs, EstimatesHold,
      PendingLinked, MinedIsOnChain, PostedIsOnChain
<1>11. QED
  BY <1>4, <1>5, <1>6, <1>7, <1>8, <1>9, <1>10 DEF Next

-----------------------------------------------------------------------------
\* IInv holds in every reachable state of the publisher and its environment.
THEOREM Invariant == Spec => []IInv
<1>1. IInv /\ [Next]_vars => IInv'
  BY TypeStep, ExclusionStep, ChainStep DEF IInv, ChainInv
<1>2. QED
  BY <1>1, InitInvariant, PTL DEF Spec

\* The publisher's state keeps its types (on_chain_publisher.ts).
THEOREM TypeCorrect == Spec => []TypeOK
  BY Invariant, PTL DEF IInv

\* isDrainRunning is never left set with nobody draining, for any number of
\* drains (drainUpdatesInRedis, handleFailure).
THEOREM FlagIsNeverStuck == Spec => []FlagMeansDraining
  BY Invariant, PTL DEF IInv, Exclusion

\* Two drains are alive only after a drain has logged 'STOPPING'
\* (drainUpdatesInRedis, handleFailure).
THEOREM DrainsExclude == Spec => []OneDrainUnlessStopping
  BY Invariant, PTL DEF IInv, Exclusion

\* No transaction of the relay reverts on chain: publishTransaction's order
\* of nonce, estimate and broadcast suffices for any number of concurrent
\* drains, retries and restarts.
THEOREM PendingIsLinked == Spec => []PendingLinked
  BY Invariant, PTL DEF IInv

\* A drain that goes on after a receipt has its update on chain
\* (publishTransaction's wait).
THEOREM PostedIsRight == Spec => []PostedIsOnChain
  BY Invariant, PTL DEF IInv

\* The publisher implements ProofPublication: every step that moves the
\* contract follows a saved proof that starts at its header.
THEOREM ImplementsPublication == Spec => Publication
<1>1. Init => PP!Init
  BY DEF Init, PP!Init
<1>2. IInv /\ [Next]_vars => [PP!Next]_<<proofs, onChain>>
  <2>. SUFFICES ASSUME IInv, [Next]_vars
                PROVE  [PP!Next]_<<proofs, onChain>>
    OBVIOUS
  <2>1. ASSUME NEW tx \in pending, Mine(tx) PROVE PP!Next
    <3>1. /\ tx.proof \in Proof
          /\ tx.proof \in proofs
          /\ tx.proof.from = onChain
      BY DEF IInv, TypeOK, PendingLinked, Transaction
    <3>2. PP!Publish(tx.proof)
      BY <2>1, <3>1 DEF Mine, PP!Publish
    <3>3. QED
      BY <3>1, <3>2 DEF PP!Next, PP!Proof, Proof
  <2>2. ASSUME NEW p \in Proof, Save(p) PROVE PP!Next
    BY <2>2 DEF Save, chainVars, PP!Save, PP!Next, PP!Proof, Proof
  <2>3. ASSUME NEW d \in Drain, Turn(d) \/ BumpFee(d) \/ RemoteFailure(d)
        PROVE  UNCHANGED <<proofs, onChain>>
    BY <2>3
    DEF Turn, GetSlotOnChain, GetNextProof, NothingToPublish,
        GetTransactionCount, EstimateGas, Send, Broadcast, Receipt, Posted,
        Refused, BumpFee, RemoteFailure, chainVars
  <2>4. CASE Deliver \/ Subscribe \/ Restart \/ Notify \/ UNCHANGED vars
    BY <2>4 DEF Deliver, Subscribe, Restart, Notify, chainVars, vars
  <2>5. QED
    BY <2>1, <2>2, <2>3, <2>4 DEF Next, Environment
<1>3. QED
  BY <1>1, <1>2, Invariant, PTL DEF Spec, PP!Spec, Publication
=============================================================================
