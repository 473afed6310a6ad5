----------------------------- MODULE BoundedQueue -----------------------------
(***************************************************************************)
(* What circle_buffer promises: a queue of at most Capacity elements, first *)
(* in, first out, that knows its size and whether it is empty or full.     *)
(***************************************************************************)
EXTENDS Naturals, Sequences

CONSTANTS Elem, Capacity

VARIABLES
    q,          \* the elements, the oldest first
    out,        \* what the last pop() returned
    answers     \* what size(), empty(), full(), front() and back() say

Answers(s) ==
    [size |-> Len(s), empty |-> s = <<>>, full |-> Len(s) = Capacity,
     ends |-> IF s = <<>> THEN <<>> ELSE <<Head(s), s[Len(s)]>>]

Init == q = <<>> /\ out = "none" /\ answers = Answers(<<>>)

Push(e) == Len(q) < Capacity /\ q' = Append(q, e) /\ UNCHANGED out
Pop == q # <<>> /\ q' = Tail(q) /\ out' = Head(q)

Next == ((\E e \in Elem : Push(e)) \/ Pop) /\ answers' = Answers(q')

Spec == Init /\ [][Next]_<<q, out, answers>>

===============================================================================
