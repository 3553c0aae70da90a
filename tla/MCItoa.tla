-------------------------------- MODULE MCItoa --------------------------------
(* myItoa and atoi on every argument up to a bound, one after the other. *)
EXTENDS Itoa

CONSTANT MaxNumber      \* bound on the arguments tried

VARIABLE number         \* the argument: a scheduler type, a count, a quantum

Init == number = 0
Next == number < MaxNumber /\ number' = number + 1
Spec == Init /\ [][Next]_number

(* myItoa converts a number to its string: the scheduler reads back with atoi *)
(* the number that the generator passed.                                      *)
RoundTrip == Passed(number) = number
==============================================================================
