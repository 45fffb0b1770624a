-------------------------------- MODULE IdlCheck --------------------------------
(***************************************************************************)
(* The check that the committed IDL and the Rust source agree              *)
(* (.github/scripts/check-idl.mjs).  It finds the items of the source with *)
(* regular expressions over the raw text: they may stop matching how an    *)
(* item is written, and they match one that is commented out.  An input    *)
(* tells what there is of each item in each text, and what the IDL has.    *)
(***************************************************************************)
EXTENDS FiniteSets

CONSTANTS
  Items,           \* names of instructions, events, errors and accounts
  Ids, NoId,       \* program addresses
  StateModules,    \* the files of the accounts
  ListedKinds      \* the kinds that come from one file each

AccountKind == "account"
Kinds == ListedKinds \cup {AccountKind}
Places == {"declare_id", "localnet", "devnet"}

\* The texts that the expressions for a kind run over.
TextsOf(kind) == IF kind = AccountKind THEN StateModules ELSE {kind}

ASSUME IdlAssumption ==
  /\ NoId \notin Ids /\ AccountKind \notin ListedKinds /\ Ids # {} /\ StateModules # {}

\* What a text has of an item: nothing, its declaration in a form that the expressions match
\* or in one that they do not, or only a comment that they match.
Forms == {"nothing", "item", "unmatched", "comment"}
Declared == {"item", "unmatched"}
Matched == {"item", "comment"}

\* The addresses, as they are found: all the same, or one of them other or missing.
Addresses ==
  LET agreed == [place \in Places \cup {"idl"} |-> CHOOSE id \in Ids : TRUE]
  IN  {agreed} \cup {[agreed EXCEPT ![place] = id] : place \in Places \cup {"idl"}, id \in Ids \cup {NoId}}

\* unread: the state module that cannot be read, if any, or "file" for a file that cannot be
\* read, listed or parsed, or has no #[program] block.  libName: the [lib] name of Cargo.toml
\* beside the name in the IDL.
Inputs ==
  [unread : {{}, {"file"}} \cup {{s} : s \in StateModules},
   address : Addresses, libName : {"same", "other", "missing"},
   text : [ListedKinds \cup StateModules -> [Items -> Forms]],
   idl : [Kinds -> SUBSET Items]]

\* What the source has of a kind, whether the expressions match it or not.
InSource(input, kind) ==
  {item \in Items : \E t \in TextsOf(kind) : input.text[t][item] \in Declared}

\* allMatches(): a state module that cannot be read counts as empty.
Extracted(input, kind) ==
  {item \in Items : \E t \in TextsOf(kind) \ input.unread : input.text[t][item] \in Matched}

\* Each bail() of the script: a file, an address, the [lib] name or a module that is not
\* there, a kind of which nothing was extracted, an IDL without an address.
SelfFailed(input) ==
  \/ input.unread # {}
  \/ \E place \in Places : input.address[place] = NoId
  \/ input.libName = "missing"
  \/ \E kind \in Kinds : Extracted(input, kind) = {}
  \/ input.address["idl"] = NoId

\* Mutant: as many names on both sides are taken for the same names.
SameNumber(input, kind) == Cardinality(input.idl[kind]) = Cardinality(Extracted(input, kind))

\* compareSets(), which reports the difference both ways.
SameSets(input, kind) == input.idl[kind] = Extracted(input, kind)

Verdict(input) ==
  IF SelfFailed(input) THEN "SELF-FAIL"
  ELSE IF /\ \A place \in Places : input.address[place] = input.address["idl"]
          /\ input.libName = "same"
          /\ \A kind \in Kinds : SameSets(input, kind)
       THEN "PASS" ELSE "FAIL"

-----------------------------------------------------------------------------
(* Properties *)

\* What a pass is worth: the addresses and the names are one, and where the committed IDL
\* and the source differ, the difference is written down in the source.  An item that only
\* the IDL has is in a comment of it, one that only the source has is in none of its texts
\* in a form that the expressions match.  So an IDL that is right passes only when the
\* expressions read the source right, and a parser that stopped matching is seen.
PassMeansAgreement ==
  \A input \in Inputs :
    Verdict(input) = "PASS" =>
      /\ Cardinality({input.address[place] : place \in Places \cup {"idl"}}) = 1
      /\ input.libName = "same"
      /\ \A kind \in Kinds :
           /\ \A item \in input.idl[kind] \ InSource(input, kind) :
                \E t \in TextsOf(kind) : input.text[t][item] = "comment"
           /\ \A item \in InSource(input, kind) \ input.idl[kind], t \in TextsOf(kind) :
                input.text[t][item] \notin Matched
           /\ input.idl[kind] = InSource(input, kind) =>
                Extracted(input, kind) = InSource(input, kind)

\* "This is not 'nothing is wrong'.  It is 'the check could not run'" (check-idl.mjs): with a
\* file that was not read, be it one of several state modules, with an address or a name that
\* was not found, or with texts that have no item of a kind in a form that is matched, the
\* verdict is neither that the two agree nor that they do not.
UnreadIsSelfFail ==
  \A input \in Inputs :
    (\/ input.unread # {}
     \/ input.libName = "missing" \/ \E place \in Places \cup {"idl"} : input.address[place] = NoId
     \/ \E kind \in Kinds : \A t \in TextsOf(kind), item \in Items :
          input.text[t][item] \notin Matched) =>
      Verdict(input) = "SELF-FAIL"

\* "the committed IDL has to describe the committed program", and an item that "is in the IDL
\* and not in the Rust source" is a mismatch (check-idl.mjs).
StaleIdlFails ==
  \A input \in Inputs :
    Verdict(input) = "PASS" =>
      \A kind \in Kinds : input.idl[kind] \subseteq InSource(input, kind)
=============================================================================
