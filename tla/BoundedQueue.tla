----------------------------- MODULE BoundedQueue -----------------------------
(***************************************************************************)
(* The queue that the models of the threads use for SpscQueue: a sequence  *)
(* that refuses an item when it is full, and whose calls take no time.     *)
(***************************************************************************)
EXTENDS Naturals, Sequences

CONSTANTS Items, Capacity

VARIABLES
  contents,
  pushed,    \* what the last push answered
  popped,    \* the item of the last pop, <<>> if there was none
  empty      \* what empty answered

Init == contents = <<>> /\ pushed = FALSE /\ popped = <<>> /\ empty = TRUE

Push(item) ==
  /\ Len(contents) < Capacity
  /\ contents' = Append(contents, item)
  /\ pushed' = TRUE
  /\ UNCHANGED <<popped, empty>>

Refuse ==
  /\ Len(contents) = Capacity
  /\ pushed' = FALSE
  /\ UNCHANGED <<contents, popped, empty>>

Pop ==
  /\ contents # <<>>
  /\ contents' = Tail(contents)
  /\ popped' = <<Head(contents)>>
  /\ UNCHANGED <<pushed, empty>>

FindNothing ==
  /\ contents = <<>>
  /\ popped' = <<>>
  /\ UNCHANGED <<contents, pushed, empty>>

Look ==
  /\ empty' = (contents = <<>>)
  /\ UNCHANGED <<contents, pushed, popped>>

Next == (\E item \in Items : Push(item)) \/ Refuse \/ Pop \/ FindNothing \/ Look

Spec == Init /\ [][Next]_<<contents, pushed, popped, empty>>
===============================================================================
