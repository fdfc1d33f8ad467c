--------------------------- MODULE MCCatExchange ---------------------------
(* Instances of CatExchange for TLC: a poll cycle cut down to one fast     *)
(* question and one slow group of two questions that share a verb.         *)
EXTENDS CatExchange, TLC

Group(questions, ifBusy, slow) ==
    [ask |-> questions, ifBusy |-> ifBusy, slow |-> slow]

\* An answer may be another item's with the same verb, or another verb's.
FewItems == {"FA", "RM4", "RM5"}
FewVerbOf == [i \in FewItems |-> IF i = "FA" THEN "FA" ELSE "RM"]
FewPlan == << Group(<<"FA">>, "abandon", FALSE),
              Group(<<"RM4", "RM5">>, "skip", TRUE) >>

Symmetric == Permutations(Operators)
=============================================================================
