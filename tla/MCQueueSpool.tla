---------------------------- MODULE MCQueueSpool ----------------------------
(* Instances of QueueSpool for TLC. *)
EXTENDS QueueSpool, TLC

EveryTick == [q \in Queues |-> <<1>>]
TwoElsewhere == [q \in Queues |-> IF q = DefaultQueue THEN <<1>> ELSE <<1, 1>>]
Far == [q \in Queues |-> <<9>>]
Ttl2 == [q \in Queues |-> [kind |-> "ttl", n |-> 2]]
Ttl3 == [q \in Queues |-> [kind |-> "ttl", n |-> 3]]
OwnQueue == [q \in Queues |-> q]
OnlyDefault == [q \in Queues |-> DefaultQueue]
SameQueue == [q \in Queues |-> {q}]
OneRoute == [Rcpts -> {DefaultQueue}]
AllRoutes == [Rcpts -> Queues]
(* The recipients in different queues, as far as there are queues.          *)
SplitRoutes == {f \in [Rcpts -> Queues] : {f[r] : r \in Rcpts} = Queues}
AnyQueue == [q \in Queues |-> Queues]

Symmetry == Permutations(Workers) \cup Permutations(Rcpts)
=============================================================================
