-------------------------------- MODULE Itoa --------------------------------
(* myItoa of process_generator.c (and its copy in scheduler.c): how the       *)
(* generator writes the numbers it passes to the scheduler on the command     *)
(* line, and atoi, with which the scheduler reads them back.                  *)
EXTENDS Naturals, Sequences

(* Digits from the least significant one on, up to the first zero digit:      *)
(* while ((ch = number % 10)) { number /= 10; append ch }.                    *)
Digits[n \in Nat] ==
    IF n % 10 = 0 THEN <<>> ELSE <<n % 10>> \o Digits[n \div 10]

(* The string, as the sequence of its digits. *)
myItoa(number) == IF number = 0 THEN <<0>> ELSE Digits[number]

(* atoi on a string of digits; the empty string reads as 0. *)
Value[s \in Seq(0 .. 9)] ==
    IF s = <<>> THEN 0 ELSE 10 * Value[SubSeq(s, 1, Len(s) - 1)] + s[Len(s)]

Atoi(string) == Value[string]

(* What the scheduler reads when the generator passes number. *)
Passed(number) == Atoi(myItoa(number))
=============================================================================
