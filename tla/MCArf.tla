-------------------------------- MODULE MCArf --------------------------------
(***************************************************************************)
(* A list with a sub-list, for TLC.                                        *)
(***************************************************************************)
EXTENDS Arf

OneSublist == [l \in List |-> IF l = "main-L" THEN <<"sub-L">> ELSE <<>>]
=============================================================================
