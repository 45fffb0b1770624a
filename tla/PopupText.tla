------------------------------ MODULE PopupText ------------------------------
(* The popup with the text it is given: what of it base58.js takes for a     *)
(* mint.                                                                     *)
EXTENDS TagPopup, Base58

\* What is taken from a text as a candidate is the one text of a key, and a whole word.  It
\* is about functions of their arguments, so it is looked at once, in the first state.
CandidatesAreKeys == Init => DecodesTheNumber /\ OneTextPerKey /\ WholeWordsOnly
=============================================================================
