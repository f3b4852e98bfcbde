------------------------------- MODULE UpkeepMC -------------------------------
(* A corpus for Upkeep: "seed" is a copy of "b"; "c" is a smaller input that     *)
(* covers what "a" covers beyond "b".                                            *)
EXTENDS Upkeep

InputFeatures == [seed |-> {2}, a |-> {1, 2}, b |-> {2}, c |-> {1}]
InputContent == [seed |-> "bytes b", a |-> "bytes a", b |-> "bytes b", c |-> "bytes c"]

\* Shorter than the hours of the code, in the same order.
RetryHours == <<1, 1, 2>>

=============================================================================
