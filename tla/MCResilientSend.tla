--------------------------- MODULE MCResilientSend --------------------------
(***************************************************************************)
(* Instances of ResilientSend for TLC.                                     *)
(***************************************************************************)
EXTENDS ResilientSend, TLC

seconds(n) == [form |-> "seconds", value |-> n]

date(t) == [form |-> "date", value |-> t]

(* No header, one within the ceiling, and one far beyond it.               *)
SomeHeaders == {NoHeader, seconds(1), seconds(9)}

DateHeaders == {NoHeader, date(2)}

NoHeaders == {NoHeader}

CallSymmetry == Permutations(Calls)
=============================================================================
