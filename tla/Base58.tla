-------------------------------- MODULE Base58 --------------------------------
(***************************************************************************)
(* What of a page or of a typed text can be a mint (shared/base58.js): the *)
(* decoder, the shape of an address, and the search for addresses in a     *)
(* text and in a URL.                                                      *)
(*                                                                         *)
(* A text is a sequence of characters: 0..RADIX-1 are the digits of the    *)
(* alphabet ('1' is 0), Foreign stands for the letters and digits that the *)
(* alphabet leaves out (0 O I l), UrlMark for / ? # & = and Mark for any   *)
(* other character.  The code's radix is 58, its byte 256, its key 32      *)
(* bytes; the texts are checked exhaustively for small ones.               *)
(***************************************************************************)
EXTENDS Integers, Sequences, FiniteSets

CONSTANTS
  RADIX, BYTE, KEY_BYTES,
  MIN_TEXT, MAX_TEXT,       \* the lengths isPubkeyShaped() lets through: 32 and 44
  EXCLUDED_ADDRESSES,
  MaxText                   \* bound on the texts that are searched

\* base ^ n, as a recursion that proofs can follow.
Power(base, n) == LET power[i \in 0..n] == IF i = 0 THEN 1 ELSE base * power[i - 1] IN power[n]

ASSUME Base58Assumption ==
  /\ {RADIX, BYTE, KEY_BYTES, MIN_TEXT, MAX_TEXT, MaxText} \subseteq Nat \ {0}
  /\ 2 <= RADIX /\ RADIX <= BYTE
  /\ MIN_TEXT = KEY_BYTES
  /\ Power(RADIX, MAX_TEXT) >= Power(BYTE, KEY_BYTES)

Digits == 0..(RADIX - 1)
Foreign == RADIX
UrlMark == RADIX + 1
Mark == RADIX + 2
Chars == Digits \cup {Foreign, UrlMark, Mark}
Alnum == Digits \cup {Foreign}

TextsOf(chars, n) == UNION {[1..k -> chars] : k \in 0..n}

-----------------------------------------------------------------------------
(* The decoder *)

\* What each turn of a while loop leaves of n, which takes its lowest byte away.
Left(n) == LET left[i \in 0..n] == IF i = 0 THEN n ELSE left[i - 1] \div BYTE IN left

\* The bytes that the loop pushes until nothing is left, the lowest first; none for 0.
BytesOf(n) ==
  LET turns == CHOOSE k \in 0..n : Left(n)[k] = 0 /\ \A i \in 0..(k - 1) : Left(n)[i] # 0
  IN  [i \in 1..turns |-> Left(n)[i - 1] % BYTE]

\* One digit: every byte times RADIX with the carry, and new bytes for what is left of it.
Carry(bytes, digit) ==
  LET carry[i \in 0..Len(bytes)] ==
        IF i = 0 THEN digit ELSE (carry[i - 1] + bytes[i] * RADIX) \div BYTE
  IN  carry
AddDigit(bytes, digit) ==
  LET carry == Carry(bytes, digit)
  IN  [i \in 1..Len(bytes) |-> (carry[i - 1] + bytes[i] * RADIX) % BYTE]
      \o BytesOf(carry[Len(bytes)])

\* The bytes after each character, from the lowest on.
Accumulated(text) ==
  LET bytes[i \in 0..Len(text)] == IF i = 0 THEN <<0>> ELSE AddDigit(bytes[i - 1], text[i])
  IN  bytes

\* How many '1' the text starts with.
LeadingOnes(text) ==
  Cardinality({k \in DOMAIN text : \A i \in 1..k : text[i] = 0})

\* decodeBase58(), the highest byte first; a text with a character outside the alphabet,
\* or none, gives no bytes.
NoBytes == <<>>
Backwards(seq) == [i \in 1..Len(seq) |-> seq[Len(seq) + 1 - i]]
DecodeBase58(text) ==
  IF text = <<>> \/ \E i \in DOMAIN text : text[i] \notin Digits THEN NoBytes
  ELSE Backwards(Accumulated(text)[Len(text)] \o [k \in 1..LeadingOnes(text) |-> 0])

IsPubkeyShaped(text) ==
  /\ Len(text) \in MIN_TEXT..MAX_TEXT
  /\ Len(DecodeBase58(text)) = KEY_BYTES
  /\ \E i \in 1..KEY_BYTES : DecodeBase58(text)[i] # 0

IsMintCandidate(text) == IsPubkeyShaped(text) /\ text \notin EXCLUDED_ADDRESSES

-----------------------------------------------------------------------------
(* The search *)

\* Mutant: the boundary is the base58 alphabet.
MatchAtBase58(text, i, n) ==
  /\ i + n - 1 <= Len(text) /\ \A k \in i..(i + n - 1) : text[k] \in Digits
  /\ i = 1 \/ text[i - 1] \notin Digits
  /\ i + n > Len(text) \/ text[i + n] \notin Digits

\* CANDIDATE_RE matches the n characters of the text from i on: no letter and no digit on
\* either side.
MatchAt(text, i, n) ==
  /\ i + n - 1 <= Len(text) /\ \A k \in i..(i + n - 1) : text[k] \in Digits
  /\ i = 1 \/ text[i - 1] \notin Alnum
  /\ i + n > Len(text) \/ text[i + n] \notin Alnum

\* The regular expression at i: the longest match, or 0.
LongestMatch(text, i) ==
  LET fits == {n \in MIN_TEXT..MAX_TEXT : MatchAt(text, i, n)}
  IN  IF fits = {} THEN 0 ELSE CHOOSE n \in fits : \A k \in fits : k <= n

\* exec() again and again, each from the end of the match before: the matches from i on.
Matches(text) ==
  LET found[i \in 1..(Len(text) + 1)] ==
        IF i > Len(text) THEN {}
        ELSE LET n == LongestMatch(text, i)
             IN  IF n = 0 THEN found[i + 1]
                 ELSE {SubSeq(text, i, i + n - 1)} \cup found[i + n]
  IN  found
ExtractMintCandidates(text) == {t \in Matches(text)[1] : IsMintCandidate(t)}

\* The parts between the characters of a set of separators.
Parts(text, separators) ==
  {SubSeq(text, p[1], p[2]) : p \in
    {p \in (1..Len(text)) \X (1..Len(text)) :
       /\ p[1] <= p[2] /\ \A k \in p[1]..p[2] : text[k] \notin separators
       /\ p[1] = 1 \/ text[p[1] - 1] \in separators
       /\ p[2] = Len(text) \/ text[p[2] + 1] \in separators}}

ExtractMintCandidatesFromUrl(href) == {t \in Parts(href, {UrlMark}) : IsMintCandidate(t)}

-----------------------------------------------------------------------------
(* Properties *)

\* The numbers that the first digits of a text are.
Values(text) ==
  LET value[i \in 0..Len(text)] == IF i = 0 THEN 0 ELSE value[i - 1] * RADIX + text[i]
  IN  value
Value(text) == Values(text)[Len(text)]
Zeros(n) == [k \in 1..n |-> 0]

\* The decoder gives the bytes of the number, behind one zero byte for each leading '1';
\* the text of only '1' gets one zero byte too many, as its accumulator is never empty.
DecodesTheNumber ==
  \A text \in TextsOf(Digits, MAX_TEXT + 1) \ {<<>>} :
    DecodeBase58(text) =
      Zeros(LeadingOnes(text)) \o
      (IF Value(text) = 0 THEN <<0>> ELSE Backwards(BytesOf(Value(text))))

\* The limits on the length reject no address and let no other text through: every key of
\* KEY_BYTES bytes, the one of only zeros apart, is the decoding of exactly one text that
\* isPubkeyShaped() accepts, so two marks on a page are never for one key.
OneTextPerKey ==
  \A key \in [1..KEY_BYTES -> 0..(BYTE - 1)] :
    Cardinality({text \in TextsOf(Digits, MAX_TEXT + 1) :
                   IsPubkeyShaped(text) /\ DecodeBase58(text) = key})
      = IF key = Zeros(KEY_BYTES) THEN 0 ELSE 1

\* The search finds the whole words that are candidates and nothing cut out of a longer
\* word: neither the part of a signature nor a mistyped address; and a candidate of a URL
\* is one that the search in the same text would find.
WholeWordsOnly ==
  \A text \in TextsOf(Chars, MaxText) :
    /\ ExtractMintCandidates(text) =
         {word \in Parts(text, {UrlMark, Mark}) : IsMintCandidate(word)}
    /\ ExtractMintCandidatesFromUrl(text) \subseteq ExtractMintCandidates(text)
=============================================================================
