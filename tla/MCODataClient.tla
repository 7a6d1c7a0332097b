---------------------------- MODULE MCODataClient ---------------------------
(***************************************************************************)
(* Instances of ODataClient for TLC.                                       *)
(***************************************************************************)
EXTENDS ODataClient, TLC

CONSTANTS r1, r2

(* r1 creates, r2 reads or creates.                                        *)
CreateAndAny == (r1 :> {"POST"}) @@ (r2 :> {"GET", "POST"})

UnstatedShortOrPast == {NotStated, 1, -1}
=============================================================================
