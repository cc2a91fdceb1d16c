------------------------------ MODULE MCStaging ------------------------------
(* Instances of Staging for TLC. *)
EXTENDS Staging

CONSTANTS p1, p2, order, reform, orderFile, reformFile, oldLayout, newLayout

TwoLayouts == <<oldLayout, newLayout>>

\* A file for every document ...
OneFileEach == [d \in Documents |-> IF d = order THEN {orderFile} ELSE {reformFile}]

\* ... and the path of the README's example for all of them.
OneFileForAll == [d \in Documents |-> {orderFile}]

\* An item expires at the end of day 1, and the new revision leaves it out.
ExpiringItem ==
    [x \in Revision \X Day |-> IF x = <<1, 1>> THEN 10 ELSE 20]

NoItems == {<<>>}

SomeItems == {<<>>, <<order>>}
=============================================================================
