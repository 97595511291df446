------------------------------ MODULE PureInput ------------------------------
(* Pure functions of the code are checked one input at a time: the initial state
   holds an input of some kind, and one step puts the function's result beside it. *)
EXTENDS Integers, Sequences

VARIABLES input,   \* [kind, value]
          answer   \* << >>, then <<result>>

pureVars == <<input, answer>>

NoInput == input = [kind |-> "none", value |-> << >>] /\ answer = << >>
Given(kind, values) == input \in [kind : {kind}, value : values] /\ answer = << >>
Answers(kind, result) ==
    /\ input.kind = kind /\ answer = << >>
    /\ answer' = <<result>> /\ UNCHANGED input
Evaluated(kind) == answer # << >> /\ input.kind = kind
===============================================================================
