------------------------------- MODULE SpscQueue -------------------------------
(***************************************************************************)
(* util::SpscQueue: a ring with two indices, without a lock, between the   *)
(* one thread that pushes and the one that pops.  Each load of the other   *)
(* thread's index and each store is a step, and an item is copied into its *)
(* slot in two, since it may be larger than a word.  A store that releases *)
(* comes after the copy before it, a load that acquires before the copy    *)
(* behind it.  A load sees the last store: one that saw an older value     *)
(* would refuse, or find nothing, a moment longer.                         *)
(***************************************************************************)
EXTENDS Naturals, Sequences

CONSTANTS
  Payloads,  \* the items pushed
  Torn,      \* what a slot holds before its first item and while one is copied into it
  RingSize   \* Size: one slot more than the capacity

ASSUME RingAssumption == RingSize \in Nat /\ RingSize >= 2 /\ Torn \notin Payloads

VARIABLES
  buffer,    \* m_buffer
  head,      \* m_head: stored by pop
  tail,      \* m_tail: stored by push
  pusher,    \* the thread that pushes: where it is in push, and the item
  popper,    \* the thread that pops: where it is in pop, and the item copied
  pushed,    \* what the last push returned
  popped,    \* what the last pop handed out, <<>> for nothing
  empty      \* what empty returned to the thread that pops

ringVars == <<buffer, head, tail, pusher, popper, pushed, popped, empty>>

Slots == 0..RingSize - 1

\* The mask of a power of two keeps the remainder.
Behind(slot) == (slot + 1) % RingSize

RingInit ==
  /\ buffer = [slot \in Slots |-> Torn]
  /\ head = 0 /\ tail = 0
  /\ pusher = [step |-> "idle", item |-> Torn]
  /\ popper = [step |-> "idle", item |-> Torn]
  /\ pushed = FALSE /\ popped = <<>> /\ empty = TRUE

-------------------------------------------------------------------------------
Full == Behind(tail) = head

PushFull ==
  /\ pusher.step = "idle" /\ Full
  /\ pushed' = FALSE
  /\ UNCHANGED <<buffer, head, tail, pusher, popper, popped, empty>>

PushRoom(item) ==
  /\ pusher.step = "idle" /\ ~Full
  /\ pusher' = [step |-> "copy", item |-> item]
  /\ UNCHANGED <<buffer, head, tail, popper, pushed, popped, empty>>

PushCopy ==
  /\ pusher.step = "copy"
  /\ buffer' = [buffer EXCEPT ![tail] = Torn]
  /\ pusher' = [pusher EXCEPT !.step = "copying"]
  /\ UNCHANGED <<head, tail, popper, pushed, popped, empty>>

PushCopied ==
  /\ pusher.step = "copying"
  /\ buffer' = [buffer EXCEPT ![tail] = pusher.item]
  /\ pusher' = [pusher EXCEPT !.step = "store"]
  /\ UNCHANGED <<head, tail, popper, pushed, popped, empty>>

\* Mutant: the index is stored before the copy is complete.
StoreTailEarly ==
  /\ pusher.step \in {"copying", "store"}
  /\ tail' = Behind(tail)
  /\ pushed' = TRUE
  /\ pusher' = [pusher EXCEPT !.step = "idle"]
  /\ UNCHANGED <<buffer, head, popper, popped, empty>>

StoreTail ==
  /\ pusher.step = "store"
  /\ tail' = Behind(tail)
  /\ pushed' = TRUE
  /\ pusher' = [pusher EXCEPT !.step = "idle"]
  /\ UNCHANGED <<buffer, head, popper, popped, empty>>

-------------------------------------------------------------------------------
PopEmpty ==
  /\ popper.step = "idle" /\ head = tail
  /\ popped' = <<>>
  /\ UNCHANGED <<buffer, head, tail, pusher, popper, pushed, empty>>

PopFront ==
  /\ popper.step = "idle" /\ head # tail
  /\ popper' = [popper EXCEPT !.step = "copy"]
  /\ UNCHANGED <<buffer, head, tail, pusher, pushed, popped, empty>>

\* The copy out of the slot: if push could write to it in between, it could as
\* well have written before.
PopCopy ==
  /\ popper.step = "copy"
  /\ popper' = [step |-> "store", item |-> buffer[head]]
  /\ UNCHANGED <<buffer, head, tail, pusher, pushed, popped, empty>>

StoreHead ==
  /\ popper.step = "store"
  /\ head' = Behind(head)
  /\ popped' = <<popper.item>>
  /\ popper' = [popper EXCEPT !.step = "idle"]
  /\ UNCHANGED <<buffer, tail, pusher, pushed, empty>>

AskEmpty ==
  /\ popper.step = "idle"
  /\ empty' = (head = tail)
  /\ UNCHANGED <<buffer, head, tail, pusher, popper, pushed, popped>>

RingNext ==
  \/ PushFull \/ (\E item \in Payloads : PushRoom(item))
  \/ PushCopy \/ PushCopied \/ StoreTail
  \/ PopEmpty \/ PopFront \/ PopCopy \/ StoreHead \/ AskEmpty

-------------------------------------------------------------------------------
\* What is in the ring, the oldest first
Count == IF head <= tail THEN tail - head ELSE tail + RingSize - head
Slot(i) == (head + i - 1) % RingSize
Contents == [i \in 1..Count |-> buffer[Slot(i)]]

Fifo == INSTANCE BoundedQueue WITH
          Items <- Payloads, Capacity <- RingSize - 1, contents <- Contents

\* The two threads see one queue: items come out whole, once and in the order in
\* which they went in, push refuses exactly when RingSize - 1 are in it, and pop and
\* empty find it empty exactly when it is.
ImplementsBoundedQueue == Fifo!Spec
===============================================================================
