----------------------------- MODULE CircleBuffer -----------------------------
(***************************************************************************)
(* The ring of buffers of the RDMA sockets                                 *)
(* (include/ylt/coro_io/detail/circle_buffer.hpp).  front_ and end_ are    *)
(* indices one before the first and at the last element; when they are     *)
(* equal may_empty tells a full ring from an empty one.  An element that   *)
(* was moved out leaves its place as it is.                                *)
(***************************************************************************)
EXTENDS Naturals, Sequences

CONSTANTS
    Elem,       \* the elements
    Capacity    \* queue.size()

ASSUME CapacityAssumption == Capacity \in Nat \ {0}

VARIABLES
    queue,      \* queue, indexed from 0
    front,      \* front_
    end,        \* end_
    may_empty,  \* may_empty
    popped      \* what the last pop() returned

ringVars == <<queue, front, end, may_empty, popped>>

RingInit ==
    /\ queue = [n \in 0..Capacity - 1 |-> "none"] /\ front = 0 /\ end = 0
    /\ may_empty = TRUE /\ popped = "none"

\* full(), empty()
Full == end = front /\ ~may_empty
IsEmpty == end = front /\ may_empty

\* Mutant: a full ring is not told from an empty one.
PlainSize == IF front > end THEN Capacity + end - front ELSE end - front

\* size()
Size ==
    CASE front > end -> Capacity + end - front
      [] front = end -> IF IsEmpty THEN 0 ELSE Capacity
      [] OTHER -> end - front

\* front(), back()
Oldest == queue[(front + 1) % Capacity]
Back == queue[end]

\* push(), where assert(!full()) holds.
Push(e) ==
    /\ ~Full /\ may_empty' = FALSE /\ end' = (end + 1) % Capacity
    /\ queue' = [queue EXCEPT ![end'] = e] /\ UNCHANGED <<front, popped>>

\* pop(), where assert(!empty()) holds.
Pop ==
    /\ ~IsEmpty /\ front' = (front + 1) % Capacity /\ may_empty' = TRUE
    /\ popped' = queue[front'] /\ UNCHANGED <<queue, end>>

RingNext == (\E e \in Elem : Push(e)) \/ Pop

RingSpec == RingInit /\ [][RingNext]_ringVars

---------------------------------------------------------------------------

\* The elements from front_ + 1 on.
Content == [n \in 1..Size |-> queue[(front + n) % Capacity]]

Queue == INSTANCE BoundedQueue WITH
    q <- Content, out <- popped,
    answers <- [size |-> Size, empty |-> IsEmpty, full |-> Full,
                ends |-> IF IsEmpty THEN <<>> ELSE <<Oldest, Back>>]

\* The ring is a bounded queue, for any order of push() and pop() around its
\* end: size(), empty(), full(), front() and back() say what a queue would say.
ImplementsQueue == Queue!Spec

===============================================================================
