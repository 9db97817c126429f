------------------------------ MODULE WorkQueue ------------------------------
(***************************************************************************)
(* The queue of the plonky2 provers, the library redis-work-queue in its   *)
(* TypeScript and Rust forms, as the code under src/ uses it: `addItem',   *)
(* `lease', `complete' and the `lightClean' of the light cleaners.  The    *)
(* library is not part of the repository, so everything here is external.  *)
(*                                                                         *)
(* Redis keeps a list of the items that wait, a list of those being        *)
(* processed, and for each item its data and a lease that runs out by      *)
(* itself.  An item stands for its identifier, which the library draws at  *)
(* random and the users of this module keep unique.                        *)
(***************************************************************************)
EXTENDS Sequences, SequencesExt

\* What Redis keeps of a queue over the given items.
WorkQueues(Item) ==
  [main : Seq(Item), processing : Seq(Item), leased : SUBSET Item, data : SUBSET Item]

EmptyQueue == [main |-> <<>>, processing |-> <<>>, leased |-> {}, data |-> {}]

AddItem(q, item) ==
  [q EXCEPT !.main = Append(@, item), !.data = @ \cup {item}]

\* `lease': the head of the list moves to the processing list and is leased.
\* Its data may be gone, which the library reports as empty data.
CanLease(q) == q.main # <<>>

Lease(q) ==
  [q EXCEPT !.main = Tail(@), !.processing = Append(@, Head(q.main)),
            !.leased = @ \cup {Head(q.main)}]

\* `complete': whoever calls it, the item is done and its data is deleted.
\* An item that was put back keeps its place in the list, without data.
Complete(q, item) ==
  [q EXCEPT !.processing = RemoveFirst(@, item),
            !.leased = @ \ {item}, !.data = @ \ {item}]

\* Leases are all equally long, so they run out in the order of leasing.
CanExpire(q) == \E i \in ToSet(q.processing) : i \in q.leased

Expiring(q) == q.processing[SelectInSeq(q.processing, LAMBDA i : i \in q.leased)]

Expire(q) == [q EXCEPT !.leased = @ \ {Expiring(q)}]

\* `lightClean' walks over the items in processing and puts those without a
\* lease back; here, one item at a time.
CanPutBack(q) == \E i \in ToSet(q.processing) : i \notin q.leased

Lapsed(q) == q.processing[SelectInSeq(q.processing, LAMBDA i : i \notin q.leased)]

PutBack(q) ==
  [q EXCEPT !.processing = RemoveFirst(@, Lapsed(q)), !.main = Append(@, Lapsed(q))]

\* Nothing waits and nothing is being processed.
IsDrained(q) == q.main = <<>> /\ q.processing = <<>>
=============================================================================
