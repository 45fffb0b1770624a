------------------------------ MODULE MCTagPopup ------------------------------
(* TagPopup on small instances, with the texts Base58 tells apart for it.    *)
EXTENDS PopupText, TLC

MCExcluded == {<<1, 0>>}
=============================================================================
