---------------------------- MODULE TagPopupProofs ----------------------------
(***************************************************************************)
(* The popup for any number of popups, lookups, mints and recent lookups:  *)
(* the busy flag, the tag on the screen and the lookups of the worker      *)
(* agree, and the stored list names what was found, each mint once.        *)
(*                                                                         *)
(* And the text it is given, for any radix, width of a key and length of a *)
(* text: decodeBase58() decodes the number, each key has one text, and the *)
(* search finds whole words.                                               *)
(***************************************************************************)
EXTENDS PopupText, SumLemmas, SequenceTheorems

-----------------------------------------------------------------------------
(* Lists *)

NoTwice(list) == \A i, j \in DOMAIN list : list[i] = list[j] => i = j
Among(list, S) == \A i \in DOMAIN list : list[i] \in S

\* What is left of the first n of a list without the mint.
KeepStep(mint, list, n, g) ==
  IF n = 0 THEN <<>>
  ELSE IF list[n] = mint THEN g[n - 1] ELSE Append(g[n - 1], list[n])
Keeps(g, mint, list, n) == g = [k \in 0..n |-> KeepStep(mint, list, k, g)]

LEMMA KeepsGrows ==
  ASSUME NEW mint, NEW list, NEW n \in Nat, NEW g, Keeps(g, mint, list, n)
  PROVE  \E h : Keeps(h, mint, list, n + 1)
<1> DEFINE h == [k \in 0..(n + 1) |-> KeepStep(mint, list, k, g)]
<1>1. \A k \in 0..n : h[k] = g[k]
  BY DEF Keeps
<1>2. \A k \in 0..(n + 1) : k # 0 => k - 1 \in 0..n
  OBVIOUS
<1>3. \A k \in 0..(n + 1) : KeepStep(mint, list, k, g) = KeepStep(mint, list, k, h)
  BY <1>1, <1>2 DEF KeepStep
<1>4. Keeps(h, mint, list, n + 1)
  BY <1>3 DEF Keeps
<1>5. QED
  BY <1>4

LEMMA KeepsExists ==
  ASSUME NEW mint, NEW list, NEW n \in Nat
  PROVE  \E g : Keeps(g, mint, list, n)
<1>1. PICK N : N = {k \in Nat : \E g : Keeps(g, mint, list, k)}
  OBVIOUS
<1>2. 0 \in N
  <2>1. Keeps([k \in 0..0 |-> <<>>], mint, list, 0)
    BY DEF Keeps, KeepStep
  <2>2. QED
    BY <1>1, <2>1
<1>3. \A k \in N : k + 1 \in N
  BY <1>1, KeepsGrows
<1>4. N = Nat
  <2>1. N \in SUBSET Nat
    BY <1>1
  <2>2. QED
    BY <1>2, <1>3, <2>1, NatSetInduction
<1>5. QED
  BY <1>1, <1>4

\* Others is such a function at the whole length.
LEMMA OthersKeeps ==
  ASSUME NEW mint, NEW T, NEW list \in Seq(T)
  PROVE  \E g : Others(mint, list) = g[Len(list)] /\ Keeps(g, mint, list, Len(list))
<1> DEFINE kept == CHOOSE kept : kept = [n \in 0..Len(list) |->
        IF n = 0 THEN <<>>
        ELSE IF list[n] = mint THEN kept[n - 1] ELSE Append(kept[n - 1], list[n])]
<1>1. PICK g : Keeps(g, mint, list, Len(list))
  <2>1. Len(list) \in Nat
    OBVIOUS
  <2>2. QED
    BY <2>1, KeepsExists
<1>2. g = [n \in 0..Len(list) |->
        IF n = 0 THEN <<>>
        ELSE IF list[n] = mint THEN g[n - 1] ELSE Append(g[n - 1], list[n])]
  BY <1>1 DEF Keeps, KeepStep
<1>3. kept = [n \in 0..Len(list) |->
        IF n = 0 THEN <<>>
        ELSE IF list[n] = mint THEN kept[n - 1] ELSE Append(kept[n - 1], list[n])]
  BY <1>2
<1>4. Others(mint, list) = kept[Len(list)]
  BY Zenon DEF Others
<1> HIDE DEF kept
<1>5. Keeps(kept, mint, list, Len(list))
  BY <1>3 DEF Keeps, KeepStep
<1>6. QED
  BY <1>4, <1>5

\* r keeps of the first n of the list what is not the mint, in its place or before it.
KeptOf(r, mint, list, n, T) ==
  /\ r \in Seq(T) /\ Len(r) <= n
  /\ \A j \in DOMAIN r : r[j] # mint /\ \E i \in 1..n : r[j] = list[i]
  /\ NoTwice(list) => NoTwice(r)

LEMMA KeptGrows ==
  ASSUME NEW mint, NEW T, NEW list \in Seq(T), NEW n \in Nat, n + 1 <= Len(list),
         NEW r, KeptOf(r, mint, list, n, T)
  PROVE  /\ list[n + 1] = mint => KeptOf(r, mint, list, n + 1, T)
         /\ list[n + 1] # mint => KeptOf(Append(r, list[n + 1]), mint, list, n + 1, T)
<1>1. r \in Seq(T) /\ Len(r) \in Nat /\ Len(r) <= n /\ DOMAIN r = 1..Len(r)
  BY DEF KeptOf
<1>2. \A j \in DOMAIN r : r[j] # mint /\ \E i \in 1..(n + 1) : r[j] = list[i]
  BY DEF KeptOf
<1>3. KeptOf(r, mint, list, n + 1, T)
  BY <1>1, <1>2 DEF KeptOf
<1>4. ASSUME list[n + 1] # mint PROVE KeptOf(Append(r, list[n + 1]), mint, list, n + 1, T)
  <2>1. PICK e : e = list[n + 1]
    OBVIOUS
  <2>2. e \in T /\ n + 1 \in DOMAIN list /\ DOMAIN list = 1..Len(list)
    BY <2>1
  <2>3. PICK a : a = Append(r, e)
    OBVIOUS
  <2>4. /\ a \in Seq(T) /\ Len(a) = Len(r) + 1 /\ DOMAIN a = 1..(Len(r) + 1)
        /\ a[Len(r) + 1] = e /\ \A j \in 1..Len(r) : a[j] = r[j]
    BY <1>1, <2>2, <2>3
  <2>5. ASSUME NEW j \in DOMAIN a PROVE a[j] # mint /\ \E i \in 1..(n + 1) : a[j] = list[i]
    <3>1. CASE j = Len(r) + 1
      BY <1>4, <2>1, <2>4, <3>1
    <3>2. CASE j # Len(r) + 1
      BY <1>1, <1>2, <2>4, <3>2
    <3>3. QED
      BY <3>1, <3>2
  <2>6. ASSUME NoTwice(list) PROVE NoTwice(a)
    <3>1. \A j \in 1..Len(r) : r[j] # e
      <4>1. ASSUME NEW j \in 1..Len(r), r[j] = e PROVE FALSE
        <5>1. PICK i \in 1..n : r[j] = list[i]
          BY <1>1 DEF KeptOf
        <5>2. i \in DOMAIN list /\ i # n + 1
          BY <2>2
        <5>3. QED
          BY <2>1, <2>2, <2>6, <4>1, <5>1, <5>2 DEF NoTwice
      <4>2. QED
        BY <4>1
    <3>2. NoTwice(r)
      BY <2>6 DEF KeptOf
    <3>3. QED
      BY <1>1, <2>4, <3>1, <3>2 DEF NoTwice
  <2>7. QED
    BY <1>1, <2>1, <2>3, <2>4, <2>5, <2>6 DEF KeptOf
<1>5. QED
  BY <1>3, <1>4

LEMMA OthersKept ==
  ASSUME NEW mint, NEW T, NEW list \in Seq(T)
  PROVE  KeptOf(Others(mint, list), mint, list, Len(list), T)
<1>1. PICK g : Others(mint, list) = g[Len(list)] /\ Keeps(g, mint, list, Len(list))
  BY OthersKeeps
<1>2. PICK N : N = {n \in Nat : n <= Len(list) => KeptOf(g[n], mint, list, n, T)}
  OBVIOUS
<1>3. 0 \in N
  <2>1. g[0] = <<>>
    BY <1>1 DEF Keeps, KeepStep
  <2>2. KeptOf(<<>>, mint, list, 0, T)
    BY DEF KeptOf, NoTwice
  <2>3. QED
    BY <1>2, <2>1, <2>2
<1>4. ASSUME NEW n \in N PROVE n + 1 \in N
  <2>1. n \in Nat
    BY <1>2
  <2>2. SUFFICES ASSUME n + 1 <= Len(list) PROVE KeptOf(g[n + 1], mint, list, n + 1, T)
    BY <1>2, <2>1
  <2>3. KeptOf(g[n], mint, list, n, T)
    BY <1>2, <2>1, <2>2
  <2>4. g[n + 1] = IF list[n + 1] = mint THEN g[n] ELSE Append(g[n], list[n + 1])
    <3>1. n + 1 \in 0..Len(list) /\ n + 1 # 0 /\ (n + 1) - 1 = n
      BY <2>1, <2>2
    <3>2. g[n + 1] = KeepStep(mint, list, n + 1, g)
      BY <1>1, <3>1 DEF Keeps
    <3>3. QED
      BY <3>1, <3>2 DEF KeepStep
  <2>5. QED
    BY <2>1, <2>2, <2>3, <2>4, KeptGrows
<1>5. N = Nat
  <2>1. N \in SUBSET Nat
    BY <1>2
  <2>2. QED
    BY <1>3, <1>4, <2>1, NatSetInduction
<1>6. QED
  BY <1>1, <1>2, <1>5

\* The first of a list are of it, in their places.
LEMMA FirstOfList ==
  ASSUME NEW T, NEW list \in Seq(T), NEW n \in Nat
  PROVE  /\ First(list, n) \in Seq(T) /\ Len(First(list, n)) <= n
         /\ Len(First(list, n)) <= Len(list)
         /\ \A i \in DOMAIN First(list, n) : i \in DOMAIN list /\ First(list, n)[i] = list[i]
<1>1. PICK k : k = Least(n, Len(list))
  OBVIOUS
<1>2. k \in 0..Len(list) /\ k <= n
  BY <1>1 DEF Least
<1>3. First(list, n) = SubSeq(list, 1, k)
  BY <1>1 DEF First
<1>4. /\ SubSeq(list, 1, k) \in Seq(T) /\ Len(SubSeq(list, 1, k)) = k
      /\ \A i \in 1..k : SubSeq(list, 1, k)[i] = list[i]
  BY <1>2
<1>5. QED
  BY <1>2, <1>3, <1>4

\* A list of recent lookups: of mints of S, each once, and no longer than it may be.
Recents(list, S) ==
  list \in Lists /\ NoTwice(list) /\ Among(list, S)

LEMMA PushedList ==
  ASSUME NEW S \in SUBSET Mints, NEW list, Recents(list, S), NEW mint \in S
  PROVE  Recents(Pushed(mint, list), S)
<1>0. list \in Seq(S)
  <2>1. list \in Seq(Mints) /\ Among(list, S)
    BY DEF Recents, Lists
  <2>2. PICK n \in Nat : list \in [1..n -> Mints]
    BY <2>1, SeqDef
  <2>3. list \in [1..n -> S]
    <3>1. DOMAIN list = 1..n
      BY <2>2
    <3>2. list = [i \in 1..n |-> list[i]]
      BY <2>2, <3>1
    <3>3. \A i \in 1..n : list[i] \in S
      BY <2>1, <3>1 DEF Among
    <3>4. QED
      BY <3>2, <3>3
  <2>4. QED
    BY <2>3, SeqDef
<1>1. PICK r : r = Others(mint, list)
  OBVIOUS
<1>2. KeptOf(r, mint, list, Len(list), S)
  BY <1>0, <1>1, OthersKept
<1>3. r \in Seq(S) /\ Len(r) \in Nat /\ DOMAIN r = 1..Len(r) /\ NoTwice(r)
  BY <1>2 DEF KeptOf, Recents
<1>4. PICK a : a = <<mint>> \o r
  OBVIOUS
<1>5. /\ a \in Seq(S) /\ Len(a) = Len(r) + 1 /\ DOMAIN a = 1..(Len(r) + 1) /\ a[1] = mint
      /\ \A i \in 2..(Len(r) + 1) : a[i] = r[i - 1]
  BY <1>3, <1>4
<1>6. NoTwice(a)
  <2>1. SUFFICES ASSUME NEW i \in DOMAIN a, NEW j \in DOMAIN a, a[i] = a[j] PROVE i = j
    BY DEF NoTwice
  <2>2. ASSUME NEW k \in 2..(Len(r) + 1) PROVE a[k] # mint
    <3>1. k - 1 \in DOMAIN r /\ a[k] = r[k - 1]
      BY <1>3, <1>5
    <3>2. QED
      BY <1>2, <3>1 DEF KeptOf
  <2>3. CASE i = 1 \/ j = 1
    BY <1>3, <1>5, <2>1, <2>2, <2>3
  <2>4. CASE i # 1 /\ j # 1
    <3>1. i \in 2..(Len(r) + 1) /\ j \in 2..(Len(r) + 1)
      BY <1>3, <1>5, <2>4
    <3>2. r[i - 1] = r[j - 1] /\ i - 1 \in DOMAIN r /\ j - 1 \in DOMAIN r
      BY <1>3, <1>5, <2>1, <3>1
    <3>3. i - 1 = j - 1
      BY <1>3, <3>2 DEF NoTwice
    <3>4. QED
      BY <1>3, <3>1, <3>3
  <2>5. QED
    BY <2>3, <2>4
<1>7. RECENT_LIMIT \in Nat
  BY PopupAssumption
<1>8. PICK f : f = First(a, RECENT_LIMIT)
  OBVIOUS
<1>9. /\ f \in Seq(S) /\ Len(f) <= RECENT_LIMIT
      /\ \A i \in DOMAIN f : i \in DOMAIN a /\ f[i] = a[i]
  BY <1>5, <1>7, <1>8, FirstOfList
<1>10. f \in Seq(Mints)
  BY <1>9
<1>11. NoTwice(f) /\ Among(f, S)
  BY <1>6, <1>9 DEF NoTwice, Among
<1>12. Pushed(mint, list) = f
  BY <1>1, <1>4, <1>8 DEF Pushed
<1>13. QED
  BY <1>9, <1>10, <1>11, <1>12 DEF Recents, Lists

\* What was found is found for good.
LEMMA StillRecents ==
  ASSUME NEW S, NEW T, S \subseteq T, NEW list, Recents(list, S)
  PROVE  Recents(list, T)
  BY DEF Recents, Among

-----------------------------------------------------------------------------
(* The invariant *)

Slots == [show : {"hint", "loading", "tag", "error"}, mint : Mints \cup {NoMint}]
LookupCalls ==
  [step : {"idle", "asking", "reading", "storing", "done"}, mint : Mints \cup {NoMint},
   session : 0..MaxSessions, list : Lists]
Gets == [read : BOOLEAN, list : Lists]

ScreenInv ==
  /\ session \in 0..MaxSessions /\ open \in BOOLEAN /\ busy \in BOOLEAN
  /\ lastMint \in Mints \cup {NoMint} /\ status \in {"checking", "told"}
  /\ slot \in Slots /\ listed \in Lists
  /\ lookups \in 0..MaxLookups /\ found \subseteq Mints
  /\ ~open => slot = Hint /\ ~busy

CallsInv ==
  /\ calls \in [Calls -> LookupCalls]
  /\ \A c \in Calls : calls[c].session <= session
  /\ \A c \in Calls : calls[c].step \in {"reading", "storing"} => calls[c].mint \in found
  /\ \A c \in Calls : calls[c].step = "storing" => Recents(calls[c].list, found)
  /\ \A c \in Calls : calls[c].step # "idle" => c <= lookups /\ calls[c].mint \in Mints
  /\ \A c \in Calls : calls[c].step = "idle" => c > lookups /\ calls[c].session = 0

GetsInv == gets \in Seq(Gets)

RecentInv == Recents(recent, found)

\* A lookup of this popup that is under way.
Awaited(c) == calls[c].session = session /\ calls[c].step \notin {"idle", "done"}

\* Busy is the popup with its last lookup, and what it shows is of that lookup.
BusyInv ==
  open =>
    /\ session >= 1
    /\ \A c \in Calls : Awaited(c) <=> busy /\ c = lookups
    /\ busy => lookups \in Calls
    /\ slot.show = "loading" => busy /\ calls[lookups].mint = slot.mint
    /\ slot.show \in {"tag", "error"} => ~busy /\ slot.mint = lastMint
         /\ \A c \in Calls : calls[c].session = session /\ c = lookups
              => calls[c].mint = slot.mint

PopupInv == ScreenInv /\ CallsInv /\ GetsInv /\ RecentInv /\ BusyInv

-----------------------------------------------------------------------------
(* How a step changes the lookups, the requests of the list, and the screen *)

\* The step of a lookup in the worker: what it is afterwards.
CallBecomes(c, r) ==
  /\ r \in LookupCalls /\ r.mint = calls[c].mint /\ r.session = calls[c].session
  /\ r.step \in {"reading", "storing", "done"}
  /\ r.step = "reading" => r.mint \in found'
  /\ r.step = "storing" => r.mint \in found /\ Recents(r.list, found)
  /\ calls' = [calls EXCEPT ![c] = r]

LEMMA NoList == <<>> \in Lists /\ \A S : Recents(<<>>, S)
<1>1. <<>> \in Seq(Mints) /\ Len(<<>>) = 0 /\ RECENT_LIMIT \in Nat
  BY PopupAssumption
<1>2. QED
  BY <1>1 DEF Lists, Recents, NoTwice, Among

LEMMA EndsBecomes ==
  ASSUME CallsInv, NEW c \in Calls, Ends(c)
  PROVE  \E r : CallBecomes(c, r) /\ r.step = "done"
<1>1. PICK r : r = [calls[c] EXCEPT !.step = "done", !.list = <<>>]
  OBVIOUS
<1>2. calls[c] \in LookupCalls
  BY DEF CallsInv
<1>3. r \in LookupCalls /\ r.step = "done" /\ r.mint = calls[c].mint /\ r.session = calls[c].session
  BY <1>1, <1>2, NoList DEF LookupCalls
<1>4. calls' = [calls EXCEPT ![c] = r]
  BY <1>1, <1>2 DEF Ends
<1>5. QED
  BY <1>3, <1>4 DEF CallBecomes

\* A lookup that ends tells the popup; until then the popup stays as it is.
Shows(c, r) ==
  \/ r.step = "done" /\ \E show \in {"tag", "error"} : Replied(c, show)
  \/ r.step # "done" /\ UNCHANGED <<busy, lastMint, slot>>

LEMMA WorkBecomes ==
  ASSUME ScreenInv, CallsInv, RecentInv, NEW c \in Calls, Work(c) \/ LoseCall(c)
  PROVE  /\ calls[c].step \notin {"idle", "done"}
         /\ UNCHANGED <<session, open, status, listed, lookups>>
         /\ \E r : CallBecomes(c, r) /\ Shows(c, r)
<1>0. calls[c] \in LookupCalls /\ calls \in [Calls -> LookupCalls]
  BY DEF CallsInv
<1>1. ASSUME NEW show \in {"tag", "error"}, Replied(c, show)
      PROVE  \E r : CallBecomes(c, r) /\ Shows(c, r)
  <2>1. PICK r : CallBecomes(c, r) /\ r.step = "done"
    BY <1>1, EndsBecomes DEF Replied
  <2>2. QED
    BY <1>1, <2>1 DEF Shows
<1>2. CASE LoseCall(c)
  BY <1>1, <1>2 DEF LoseCall, SentInVain
<1>3. CASE StorePush(c)
  BY <1>1, <1>3 DEF StorePush
<1>4. CASE FetchRelic(c, FALSE)
  BY <1>1, <1>4 DEF FetchRelic
<1>5. CASE FetchRelic(c, TRUE)
  <2>1. PICK r : r = [calls[c] EXCEPT !.step = "reading"]
    OBVIOUS
  <2>2. /\ r \in LookupCalls /\ r.step = "reading" /\ r.mint = calls[c].mint
        /\ r.session = calls[c].session
    BY <1>0, <2>1 DEF LookupCalls
  <2>3. /\ calls' = [calls EXCEPT ![c] = r] /\ calls[c].mint \in found'
        /\ calls[c].step = "asking" /\ UNCHANGED <<busy, lastMint, slot>>
    BY <1>5, <2>1 DEF FetchRelic, Goes
  <2>4. UNCHANGED <<session, open, status, listed, lookups>>
    BY <1>5 DEF FetchRelic
  <2>5. QED
    BY <2>2, <2>3, <2>4 DEF CallBecomes, Shows
<1>6. CASE ReadForPush(c)
  <2>1. PICK pushed : pushed = Pushed(calls[c].mint, recent)
    OBVIOUS
  <2>2. calls[c].step = "reading" /\ calls[c].mint \in found /\ found \in SUBSET Mints
    BY <1>6 DEF ReadForPush, CallsInv, ScreenInv
  <2>3. Recents(pushed, found)
    BY <2>1, <2>2, PushedList DEF RecentInv
  <2>4. PICK r : r = [calls[c] EXCEPT !.step = "storing", !.list = pushed]
    OBVIOUS
  <2>5. /\ r \in LookupCalls /\ r.step = "storing" /\ r.mint = calls[c].mint
        /\ r.session = calls[c].session /\ r.list = pushed
    BY <1>0, <2>3, <2>4 DEF LookupCalls, Recents
  <2>6. calls' = [calls EXCEPT ![c].step = "storing", ![c].list = pushed]
    BY <1>6, <2>1 DEF ReadForPush
  <2>7. calls' = [calls EXCEPT ![c] = r]
    BY <1>0, <2>4, <2>6
  <2>8. UNCHANGED <<session, open, busy, lastMint, slot, status, listed, lookups>>
    BY <1>6 DEF ReadForPush, screen
  <2>9. QED
    BY <2>2, <2>3, <2>5, <2>7, <2>8 DEF CallBecomes, Shows
<1>7. QED
  BY <1>2, <1>3, <1>4, <1>5, <1>6
  DEF Work, LoseCall, StorePush, FetchRelic, ReadForPush

\* A new lookup.
NewCall(mint) == [step |-> "asking", mint |-> mint, session |-> session, list |-> <<>>]

LEMMA LookupBecomes ==
  ASSUME ScreenInv, CallsInv, NEW mint \in Mints, Lookup(mint)
  PROVE  /\ lookups + 1 \in Calls /\ NewCall(mint) \in LookupCalls
         /\ calls[lookups + 1].step = "idle"
         /\ calls' = [calls EXCEPT ![lookups + 1] = NewCall(mint)]
<1>1. lookups + 1 \in Calls
  BY PopupAssumption DEF Lookup, ScreenInv, Calls
<1>2. NewCall(mint) \in LookupCalls
  BY NoList DEF NewCall, LookupCalls, ScreenInv
<1>3. calls[lookups + 1].step = "idle"
  <2>1. ~(lookups + 1 <= lookups)
    BY DEF ScreenInv
  <2>2. QED
    BY <1>1, <2>1 DEF CallsInv
<1>4. QED
  BY <1>1, <1>2, <1>3 DEF Lookup, NewCall

LEMMA CallsStep == ScreenInv /\ CallsInv /\ RecentInv /\ [Next]_vars => CallsInv'
<1> SUFFICES ASSUME ScreenInv, CallsInv, RecentInv, [Next]_vars PROVE CallsInv'
  OBVIOUS
<1>0. session \in Nat /\ lookups \in Nat /\ calls \in [Calls -> LookupCalls] /\ Calls \subseteq Nat
  BY PopupAssumption DEF ScreenInv, CallsInv, Calls
<1>1. ASSUME NEW c \in Calls, Work(c) \/ LoseCall(c) PROVE CallsInv'
  <2>1. PICK r : CallBecomes(c, r)
    BY <1>1, WorkBecomes
  <2>2. session' = session /\ lookups' = lookups /\ found \subseteq found'
    BY <1>1 DEF Work, LoseCall, FetchRelic, ReadForPush, StorePush
  <2>3. /\ calls' \in [Calls -> LookupCalls]
        /\ \A d \in Calls : calls'[d] = IF d = c THEN r ELSE calls[d]
    BY <1>0, <2>1 DEF CallBecomes
  <2>4. r.session <= session /\ c <= lookups /\ r.mint \in Mints /\ r.step # "idle"
    <3>1. calls[c].step # "idle"
      BY <1>1, WorkBecomes
    <3>2. QED
      BY <2>1, <3>1 DEF CallBecomes, CallsInv
  <2>5. /\ r.step \in {"reading", "storing"} => r.mint \in found'
        /\ r.step = "storing" => Recents(r.list, found')
    BY <2>1, <2>2, StillRecents DEF CallBecomes
  <2>6. \A d \in Calls : calls[d].step = "storing" => Recents(calls[d].list, found')
    BY <2>2, StillRecents DEF CallsInv
  <2>7. QED
    BY <2>2, <2>3, <2>4, <2>5, <2>6 DEF CallsInv
<1>2. ASSUME NEW mint \in Mints, Lookup(mint) PROVE CallsInv'
  <2>1. PICK r : r = NewCall(mint)
    OBVIOUS
  <2>2. /\ lookups + 1 \in Calls /\ r \in LookupCalls /\ calls[lookups + 1].step = "idle"
        /\ calls' = [calls EXCEPT ![lookups + 1] = r]
    BY <1>2, <2>1, LookupBecomes
  <2>3. r.step = "asking" /\ r.mint = mint /\ r.session = session
    BY <2>1 DEF NewCall
  <2>4. session' = session /\ lookups' = lookups + 1 /\ found' = found
    BY <1>2 DEF Lookup
  <2>5. /\ calls' \in [Calls -> LookupCalls]
        /\ \A d \in Calls : calls'[d] = IF d = lookups + 1 THEN r ELSE calls[d]
    BY <1>0, <2>2
  <2>6. \A d \in Calls : /\ d <= lookups => d <= lookups + 1
                         /\ d > lookups /\ d # lookups + 1 => d > lookups + 1
    BY <1>0
  <2>7. \A d \in Calls : calls'[d].session <= session
    BY <1>0, <2>3, <2>5 DEF CallsInv
  <2>8. \A d \in Calls : /\ calls'[d].step \in {"reading", "storing"} => calls'[d].mint \in found
                         /\ calls'[d].step = "storing" => Recents(calls'[d].list, found)
    BY <2>3, <2>5 DEF CallsInv
  <2>9. \A d \in Calls :
          /\ calls'[d].step # "idle" => d <= lookups + 1 /\ calls'[d].mint \in Mints
          /\ calls'[d].step = "idle" => d > lookups + 1 /\ calls'[d].session = 0
    BY <1>0, <2>3, <2>5, <2>6 DEF CallsInv
  <2>10. QED
    BY <2>4, <2>5, <2>7, <2>8, <2>9 DEF CallsInv
<1>3. ASSUME calls' = calls, lookups' = lookups, found' = found,
             session' = session \/ session' = session + 1
      PROVE  CallsInv'
  <2>1. \A c \in Calls : calls[c].session \in Nat /\ calls[c].session <= session'
    BY <1>0, <1>3, PopupAssumption DEF CallsInv, LookupCalls
  <2>2. QED
    BY <1>3, <2>1 DEF CallsInv
<1>4. CASE Open \/ Close \/ LoadStatus \/ ResetTag \/ UNCHANGED vars
  BY <1>3, <1>4 DEF Open, Close, LoadStatus, ResetTag, vars
<1>5. CASE \E i \in DOMAIN gets : ReadRecent(i) \/ \E lost \in BOOLEAN : RenderRecent(i, lost)
  BY <1>3, <1>5 DEF ReadRecent, RenderRecent
<1>6. QED
  BY <1>1, <1>2, <1>4, <1>5 DEF Next

LEMMA ScreenStep == ScreenInv /\ CallsInv /\ GetsInv /\ RecentInv /\ [Next]_vars => ScreenInv'
<1> SUFFICES ASSUME ScreenInv, CallsInv, GetsInv, RecentInv, [Next]_vars PROVE ScreenInv'
  OBVIOUS
<1>0. session \in Nat /\ lookups \in Nat /\ MaxSessions \in Nat /\ MaxLookups \in Nat
  BY PopupAssumption DEF ScreenInv
<1>1. Hint \in Slots
  BY DEF Hint, Slots
<1>2. ASSUME NEW c \in Calls, Work(c) \/ LoseCall(c) PROVE ScreenInv'
  <2>1. /\ calls[c].step \notin {"idle", "done"}
        /\ UNCHANGED <<session, open, status, listed, lookups>>
        /\ \E r : CallBecomes(c, r) /\ Shows(c, r)
    BY <1>2, WorkBecomes
  <2>2. calls[c].mint \in Mints
    BY <2>1 DEF CallsInv
  <2>3. found' \subseteq Mints
    BY <1>2, <2>2 DEF ScreenInv, Work, LoseCall, FetchRelic, ReadForPush, StorePush
  <2>4. CASE UNCHANGED <<busy, lastMint, slot>>
    BY <2>1, <2>3, <2>4 DEF ScreenInv
  <2>5. ASSUME NEW show \in {"tag", "error"}, Replied(c, show),
               open, calls[c].session = session
        PROVE  ScreenInv'
    <3>1. busy' = FALSE /\ lastMint' = calls[c].mint
      BY <2>5 DEF Replied
    <3>2. slot' \in Slots
      BY <2>2, <2>5 DEF Replied, Slots
    <3>3. QED
      BY <2>1, <2>2, <2>3, <2>5, <3>1, <3>2 DEF ScreenInv
  <2>6. QED
    BY <2>1, <2>4, <2>5 DEF Shows, Replied
<1>3. ASSUME NEW mint \in Mints, Lookup(mint) PROVE ScreenInv'
  <2>1. slot' \in Slots
    BY <1>3 DEF Lookup, Slots
  <2>2. lookups' \in 0..MaxLookups
    BY <1>0, <1>3 DEF Lookup
  <2>3. QED
    BY <1>3, <2>1, <2>2 DEF ScreenInv, Lookup
<1>4. ASSUME NEW i \in DOMAIN gets, NEW lost \in BOOLEAN, RenderRecent(i, lost)
      PROVE  ScreenInv'
  <2>1. gets[i].list \in Lists
    <3>1. gets[i] \in Gets
      BY DEF GetsInv
    <3>2. QED
      BY <3>1 DEF Gets
  <2>2. listed' \in Lists
    <3>1. gets[i].list \in Seq(Mints) /\ RECENT_LIMIT \in Nat
      BY <2>1, PopupAssumption DEF Lists
    <3>2. First(gets[i].list, RECENT_LIMIT) \in Lists
      BY <3>1, FirstOfList DEF Lists
    <3>3. QED
      BY <1>4, <3>2, NoList DEF RenderRecent
  <2>3. QED
    BY <1>4, <2>2 DEF RenderRecent, ScreenInv
<1>5. CASE Open
  BY <1>0, <1>5 DEF Open, ScreenInv, screen
<1>6. CASE Close
  <2>1. busy' = FALSE /\ lastMint' = NoMint /\ slot' = Hint /\ listed' = <<>> /\ status' = "checking"
    BY <1>6 DEF Close, NewScreen
  <2>2. QED
    BY <1>1, <1>6, <2>1, NoList DEF Close, ScreenInv
<1>7. CASE LoadStatus \/ ResetTag \/ UNCHANGED vars
  BY <1>1, <1>7 DEF LoadStatus, ResetTag, vars, screen, ScreenInv
<1>8. CASE \E i \in DOMAIN gets : ReadRecent(i)
  BY <1>8 DEF ReadRecent, screen, ScreenInv
<1>9. QED
  BY <1>2, <1>3, <1>4, <1>5, <1>6, <1>7, <1>8 DEF Next

LEMMA GetsStep == GetsInv /\ RecentInv /\ [Next]_vars => GetsInv'
<1> SUFFICES ASSUME GetsInv, RecentInv, [Next]_vars PROVE GetsInv'
  OBVIOUS
<1>0. gets \in Seq(Gets) /\ Len(gets) \in Nat /\ DOMAIN gets = 1..Len(gets)
  BY DEF GetsInv
<1>1. CASE Asked
  <2>1. PICK g : g = [read |-> FALSE, list |-> <<>>]
    OBVIOUS
  <2>2. g \in Gets
    BY <2>1, NoList DEF Gets
  <2>3. gets' = Append(gets, g)
    BY <1>1, <2>1 DEF Asked
  <2>4. QED
    BY <1>0, <2>2, <2>3 DEF GetsInv
<1>2. CASE gets' = gets
  BY <1>2 DEF GetsInv
<1>3. CASE gets' = <<>>
  BY <1>3 DEF GetsInv
<1>4. ASSUME NEW i \in DOMAIN gets, ReadRecent(i) PROVE GetsInv'
  <2>1. PICK g : g = [gets[i] EXCEPT !.read = TRUE, !.list = recent]
    OBVIOUS
  <2>2. gets[i] \in Gets
    BY <1>0
  <2>3. g \in Gets
    BY <2>1, <2>2 DEF Gets, RecentInv, Recents
  <2>4. gets' = [gets EXCEPT ![i] = g]
    BY <1>0, <1>4, <2>1 DEF ReadRecent
  <2>5. QED
    BY <1>0, <2>3, <2>4 DEF GetsInv
<1>5. ASSUME NEW i \in DOMAIN gets, NEW lost \in BOOLEAN, RenderRecent(i, lost) PROVE GetsInv'
  <2>1. PICK a, b : a = SubSeq(gets, 1, i - 1) /\ b = SubSeq(gets, i + 1, Len(gets))
    OBVIOUS
  <2>2. a \in Seq(Gets)
    BY <1>0, <2>1
  <2>3. b \in Seq(Gets)
    BY <1>0, <2>1
  <2>4. gets' = a \o b
    BY <1>5, <2>1 DEF RenderRecent, Drop
  <2>5. QED
    BY <2>2, <2>3, <2>4 DEF GetsInv
<1>6. CASE \E c \in Calls : Work(c) \/ LoseCall(c)
  BY <1>1, <1>2, <1>6
  DEF Work, LoseCall, FetchRelic, ReadForPush, StorePush, SentInVain, Replied
<1>7. CASE \E mint \in Mints : Lookup(mint)
  BY <1>2, <1>7 DEF Lookup
<1>8. CASE Open \/ Close \/ LoadStatus \/ ResetTag \/ UNCHANGED vars
  BY <1>1, <1>2, <1>3, <1>8 DEF Open, Close, LoadStatus, ResetTag, vars
<1>9. QED
  BY <1>4, <1>5, <1>6, <1>7, <1>8 DEF Next

LEMMA RecentStep == ScreenInv /\ CallsInv /\ RecentInv /\ [Next]_vars => RecentInv'
<1> SUFFICES ASSUME ScreenInv, CallsInv, RecentInv, [Next]_vars PROVE RecentInv'
  OBVIOUS
<1>1. ASSUME NEW c \in Calls, StorePush(c) PROVE RecentInv'
  BY <1>1 DEF StorePush, CallsInv, RecentInv
<1>2. ASSUME recent' = recent, found \subseteq found' PROVE RecentInv'
  BY <1>2, StillRecents DEF RecentInv
<1>3. QED
  BY <1>1, <1>2
  DEF Next, Work, Open, Close, LoadStatus, ResetTag, Lookup, FetchRelic, ReadForPush, LoseCall,
      ReadRecent, RenderRecent, vars

LEMMA BusyStep == ScreenInv /\ CallsInv /\ RecentInv /\ BusyInv /\ [Next]_vars => BusyInv'
<1> SUFFICES ASSUME ScreenInv, CallsInv, RecentInv, BusyInv, [Next]_vars PROVE BusyInv'
  OBVIOUS
<1>0. /\ session \in Nat /\ lookups \in Nat /\ calls \in [Calls -> LookupCalls]
      /\ Calls \subseteq Nat /\ \A c \in Calls : calls[c].session \in Nat
  BY PopupAssumption DEF ScreenInv, CallsInv, Calls, LookupCalls
<1>1. ASSUME NEW c \in Calls, Work(c) \/ LoseCall(c) PROVE BusyInv'
  <2>1. PICK r : CallBecomes(c, r) /\ Shows(c, r)
    BY <1>1, WorkBecomes
  <2>2. /\ calls[c].step \notin {"idle", "done"}
        /\ UNCHANGED <<session, open, lookups>>
    BY <1>1, WorkBecomes
  <2>3. /\ \A d \in Calls : calls'[d].session = calls[d].session /\ calls'[d].mint = calls[d].mint
        /\ \A d \in Calls : d # c => calls'[d].step = calls[d].step
        /\ calls'[c].step = r.step /\ r.step # "idle"
    BY <1>0, <2>1 DEF CallBecomes
  <2>4. SUFFICES ASSUME open PROVE BusyInv'
    BY <2>2 DEF BusyInv
  <2>5. CASE r.step # "done" /\ UNCHANGED <<busy, lastMint, slot>>
    <3>1. \A d \in Calls : Awaited(d)' <=> Awaited(d)
      BY <2>2, <2>3, <2>5 DEF Awaited
    <3>2. QED
      BY <2>2, <2>3, <2>4, <2>5, <3>1 DEF BusyInv
  <2>6. CASE /\ r.step = "done" /\ calls[c].session # session
             /\ UNCHANGED <<busy, lastMint, slot>>
    <3>1. \A d \in Calls : Awaited(d)' <=> Awaited(d)
      BY <2>2, <2>3, <2>6 DEF Awaited
    <3>2. QED
      BY <2>2, <2>3, <2>4, <2>6, <3>1 DEF BusyInv
  <2>7. ASSUME r.step = "done", calls[c].session = session,
               NEW show \in {"tag", "error"}, Replied(c, show)
        PROVE  BusyInv'
    <3>1. /\ busy' = FALSE /\ lastMint' = calls[c].mint
          /\ slot'.show = show /\ slot'.mint = calls[c].mint
      BY <2>4, <2>7 DEF Replied
    <3>2. c = lookups /\ \A d \in Calls : d # c => ~Awaited(d)
      BY <2>2, <2>4, <2>7 DEF BusyInv, Awaited
    <3>3. \A d \in Calls : ~Awaited(d)'
      BY <2>2, <2>3, <2>7, <3>2 DEF Awaited
    <3>4. QED
      BY <2>2, <2>3, <2>4, <3>1, <3>2, <3>3 DEF BusyInv
  <2>8. QED
    BY <2>1, <2>4, <2>5, <2>6, <2>7 DEF Shows, Replied
<1>2. ASSUME NEW mint \in Mints, Lookup(mint) PROVE BusyInv'
  <2>1. PICK r : r = NewCall(mint)
    OBVIOUS
  <2>2. lookups + 1 \in Calls /\ calls' = [calls EXCEPT ![lookups + 1] = r]
    BY <1>2, <2>1, LookupBecomes
  <2>3. r.step = "asking" /\ r.mint = mint /\ r.session = session
    BY <2>1 DEF NewCall
  <2>4. /\ session' = session /\ open /\ lookups' = lookups + 1 /\ ~busy /\ busy' = TRUE
        /\ slot'.show = "loading" /\ slot'.mint = mint
    BY <1>2 DEF Lookup, Ready
  <2>5. \A d \in Calls : calls'[d] = IF d = lookups + 1 THEN r ELSE calls[d]
    BY <1>0, <2>2
  <2>6. \A d \in Calls : ~Awaited(d)
    BY <2>4 DEF BusyInv
  <2>7. \A d \in Calls : Awaited(d)' <=> d = lookups + 1
    BY <2>3, <2>4, <2>5, <2>6 DEF Awaited
  <2>8. session >= 1
    BY <2>4 DEF BusyInv
  <2>9. QED
    BY <2>2, <2>3, <2>4, <2>5, <2>7, <2>8 DEF BusyInv
<1>3. CASE Open
  <2>1. session' = session + 1 /\ calls' = calls /\ ~busy /\ slot = Hint /\ busy' = busy /\ slot' = slot
    BY <1>3 DEF Open, screen, ScreenInv
  <2>2. \A d \in Calls : calls'[d].session # session'
    BY <1>0, <2>1 DEF CallsInv
  <2>3. slot'.show = "hint" /\ session' >= 1
    BY <1>0, <2>1 DEF Hint
  <2>4. QED
    BY <2>1, <2>2, <2>3 DEF BusyInv, Awaited
<1>4. CASE Close
  BY <1>4 DEF Close, BusyInv
<1>5. CASE ResetTag
  <2>1. slot'.show = "hint" /\ open
    BY <1>5 DEF ResetTag, Hint
  <2>2. QED
    BY <1>5, <2>1 DEF ResetTag, BusyInv, Awaited
<1>6. ASSUME UNCHANGED <<session, open, busy, lastMint, slot, calls, lookups>> PROVE BusyInv'
  BY <1>6 DEF BusyInv, Awaited
<1>7. CASE LoadStatus \/ UNCHANGED vars
  BY <1>6, <1>7 DEF LoadStatus, vars, screen
<1>8. CASE \E i \in DOMAIN gets : ReadRecent(i) \/ \E lost \in BOOLEAN : RenderRecent(i, lost)
  BY <1>6, <1>8 DEF ReadRecent, RenderRecent, screen
<1>9. QED
  BY <1>1, <1>2, <1>3, <1>4, <1>5, <1>7, <1>8 DEF Next

-----------------------------------------------------------------------------
(* The theorem *)

LEMMA PopupInvInit == Init => PopupInv
<1> SUFFICES ASSUME Init PROVE PopupInv
  OBVIOUS
<1>1. /\ session = 0 /\ open = FALSE /\ busy = FALSE /\ lastMint = NoMint /\ slot = Hint
      /\ listed = <<>> /\ status = "checking" /\ recent = <<>> /\ gets = <<>>
      /\ calls = [c \in Calls |-> Idle] /\ lookups = 0 /\ found = {}
  BY DEF Init, NewScreen
<1>2. Idle \in LookupCalls /\ Hint \in Slots
  BY NoList, PopupAssumption DEF Idle, LookupCalls, Hint, Slots
<1>3. ScreenInv
  <2>1. 0 \in 0..MaxSessions /\ 0 \in 0..MaxLookups
    BY PopupAssumption
  <2>2. <<>> \in Lists
    BY NoList
  <2>3. QED
    BY <1>1, <1>2, <2>1, <2>2 DEF ScreenInv
<1>4. CallsInv
  <2>1. Calls \subseteq Nat /\ \A c \in Calls : c > 0
    BY PopupAssumption DEF Calls
  <2>2. calls \in [Calls -> LookupCalls] /\ \A c \in Calls : calls[c] = Idle
    BY <1>1, <1>2
  <2>3. Idle.step = "idle" /\ Idle.session = 0
    BY DEF Idle
  <2>4. QED
    BY <1>1, <2>1, <2>2, <2>3 DEF CallsInv
<1>5. GetsInv /\ RecentInv /\ BusyInv
  BY <1>1, NoList DEF GetsInv, RecentInv, BusyInv
<1>6. QED
  BY <1>3, <1>4, <1>5 DEF PopupInv

\* The lookups of an open popup that are under way: one when it is busy, none when it is not.
LEMMA BusyCounts ==
  ASSUME BusyInv, ScreenInv, open
  PROVE  Cardinality({c \in Calls : /\ calls[c].session = session
                                   /\ calls[c].step \notin {"idle", "done"}})
           = IF busy THEN 1 ELSE 0
<1>1. PICK A : A = {c \in Calls : /\ calls[c].session = session
                                  /\ calls[c].step \notin {"idle", "done"}}
  OBVIOUS
<1>2. CASE busy
  <2>1. A = {lookups}
    BY <1>1, <1>2 DEF BusyInv, Awaited
  <2>2. QED
    BY <1>1, <1>2, <2>1, FS_Singleton
<1>3. CASE ~busy
  <2>1. A = {}
    BY <1>1, <1>3 DEF BusyInv, Awaited
  <2>2. QED
    BY <1>1, <1>3, <2>1, FS_EmptySet
<1>4. QED
  BY <1>2, <1>3

LEMMA PopupInvSound == PopupInv => PopupSound
<1> SUFFICES ASSUME PopupInv PROVE PopupSound
  OBVIOUS
<1>0. ScreenInv /\ CallsInv /\ GetsInv /\ RecentInv /\ BusyInv
  BY DEF PopupInv
<1>1. PopupTypeOK
  <2>1. slot.show \in {"hint", "loading", "tag", "error"} /\ slot.mint \in Mints \cup {NoMint}
    BY <1>0 DEF ScreenInv, Slots
  <2>2. \A c \in Calls : calls[c].list \in Lists /\ calls[c].session \in 0..session
    <3>1. ASSUME NEW c \in Calls
          PROVE  calls[c].list \in Lists /\ calls[c].session \in 0..session
      <4>1. calls[c] \in LookupCalls /\ calls[c].session <= session
        BY <1>0 DEF CallsInv
      <4>2. session \in Nat /\ MaxSessions \in Nat
        BY <1>0, PopupAssumption DEF ScreenInv
      <4>3. QED
        BY <4>1, <4>2 DEF LookupCalls
    <3>2. QED
      BY <3>1
  <2>3. \A i \in DOMAIN gets : gets[i].list \in Lists
    <3>1. \A i \in DOMAIN gets : gets[i] \in Gets
      BY <1>0 DEF GetsInv
    <3>2. QED
      BY <3>1 DEF Gets
  <2>4. recent \in Lists
    BY <1>0 DEF RecentInv, Recents
  <2>5. /\ session \in 0..MaxSessions /\ {open, busy} \subseteq BOOLEAN
        /\ lastMint \in Mints \cup {NoMint} /\ status \in {"checking", "told"}
        /\ listed \in Lists
    BY <1>0 DEF ScreenInv
  <2>6. QED
    BY <1>0, <2>1, <2>2, <2>3, <2>4, <2>5, BusyCounts DEF PopupTypeOK
<1>2. TagOfLastLookup
  <2>1. SUFFICES ASSUME open PROVE TagOfLastLookup
    BY DEF TagOfLastLookup
  <2>2. ASSUME slot.show \in {"tag", "error"}
        PROVE  ~busy /\ slot.mint = lastMint /\ \A c \in LastLookup : calls[c].mint = slot.mint
    BY <1>0, <2>1, <2>2 DEF BusyInv, LastLookup
  <2>3. ASSUME slot.show = "loading"
        PROVE  busy /\ \E c \in LastLookup : calls[c].mint = slot.mint /\ calls[c].step # "done"
    <3>1. busy /\ lookups \in Calls /\ calls[lookups].mint = slot.mint
      BY <1>0, <2>1, <2>3 DEF BusyInv
    <3>2. Awaited(lookups)
      BY <1>0, <2>1, <3>1 DEF BusyInv
    <3>3. lookups \in LastLookup /\ calls[lookups].step # "done"
      BY <3>1, <3>2 DEF Awaited, LastLookup
    <3>4. QED
      BY <3>1, <3>3
  <2>4. QED
    BY <2>2, <2>3 DEF TagOfLastLookup
<1>3. RecentAreFound
  BY <1>0 DEF RecentInv, Recents, NoTwice, Among, RecentAreFound
<1>4. QED
  BY <1>1, <1>2, <1>3 DEF PopupSound

\* However the lookups of this popup and of the popups before it overlap, end or are lost in
\* the worker: an open popup is busy with its last lookup or with none, shows the tag or the
\* error of the mint that was asked for last, and never says "loading" when nothing is under
\* way; and the stored list of recent lookups names mints that were found, each once and no
\* more than RECENT_LIMIT (lookup, remember and pushRecent of popup.js and index.js).
THEOREM PopupStaysSound == Spec => []PopupSound
<1>1. Init => PopupInv
  BY PopupInvInit
<1>2. PopupInv /\ [Next]_vars => PopupInv'
  <2>1. SUFFICES ASSUME PopupInv, [Next]_vars PROVE PopupInv'
    OBVIOUS
  <2>2. ScreenInv /\ CallsInv /\ GetsInv /\ RecentInv /\ BusyInv
    BY <2>1 DEF PopupInv
  <2>3. ScreenInv' /\ CallsInv' /\ GetsInv' /\ RecentInv' /\ BusyInv'
    BY <2>1, <2>2, ScreenStep, CallsStep, GetsStep, RecentStep, BusyStep
  <2>4. QED
    BY <2>3 DEF PopupInv
<1>3. PopupInv => PopupSound
  BY PopupInvSound
<1>4. QED
  BY <1>1, <1>2, <1>3, PTL DEF Spec

-----------------------------------------------------------------------------
(* Functions that go on from one value to the next: f[i] is made of f[i - 1] *)

Iterates(f, n, S, first, h) ==
  /\ f \in [0..n -> S] /\ f[0] = first
  /\ \A i \in 1..n : f[i] = h[<<i, f[i - 1]>>]

\* A step h that stays in S, started in S, can be taken m times.
LEMMA IterationExists ==
  ASSUME NEW m \in Nat, NEW S, NEW first \in S, NEW h \in [(1..m) \X S -> S]
  PROVE  \E f : Iterates(f, m, S, first, h)
<1> DEFINE Reached == {n \in Nat : n <= m => \E f : Iterates(f, n, S, first, h)}
<1>1. 0 \in Reached
  <2>1. Iterates([i \in 0..0 |-> first], 0, S, first, h)
    BY DEF Iterates
  <2>2. QED
    BY <2>1
<1>2. ASSUME NEW n \in Reached PROVE n + 1 \in Reached
  <2> SUFFICES ASSUME n + 1 <= m PROVE \E f : Iterates(f, n + 1, S, first, h)
    OBVIOUS
  <2>1. PICK f : Iterates(f, n, S, first, h)
    OBVIOUS
  <2>2. PICK x \in S : x = h[<<n + 1, f[n]>>]
    <3>1. f[n] \in S /\ n + 1 \in 1..m
      BY <2>1 DEF Iterates
    <3>2. QED
      BY <3>1
  <2>3. PICK g : g = [i \in 0..(n + 1) |-> IF i = n + 1 THEN x ELSE f[i]]
    OBVIOUS
  <2>4. g \in [0..(n + 1) -> S] /\ g[0] = first /\ g[n + 1] = x /\ g[n] = f[n]
    BY <2>1, <2>2, <2>3 DEF Iterates
  <2>5. ASSUME NEW i \in 1..(n + 1) PROVE g[i] = h[<<i, g[i - 1]>>]
    <3>1. CASE i = n + 1
      BY <3>1, <2>2, <2>4
    <3>2. CASE i # n + 1
      <4>1. i \in 1..n /\ i - 1 \in 0..n /\ i \in 0..n /\ i # n + 1 /\ i - 1 # n + 1
        BY <3>2
      <4>2. g[i] = f[i] /\ g[i - 1] = f[i - 1]
        BY <4>1, <2>3
      <4>3. QED
        BY <4>1, <4>2, <2>1 DEF Iterates
    <3>3. QED
      BY <3>1, <3>2
  <2>6. Iterates(g, n + 1, S, first, h)
    BY <2>4, <2>5 DEF Iterates
  <2>7. QED
    BY <2>6
<1>3. Reached = Nat
  <2>1. Reached \in SUBSET Nat
    OBVIOUS
  <2> HIDE DEF Reached
  <2>2. QED
    BY <1>1, <1>2, <2>1, NatSetInduction
<1>4. m \in Reached
  BY <1>3
<1>5. QED
  BY <1>4

-----------------------------------------------------------------------------
(* Numbers in a base *)

\* What the assumption says of the numbers.
LEMMA TextNumbers ==
  /\ {RADIX, BYTE, KEY_BYTES, MIN_TEXT, MAX_TEXT, MaxText} \subseteq Nat \ {0}
  /\ RADIX \in Nat /\ BYTE \in Nat /\ KEY_BYTES \in Nat /\ MIN_TEXT \in Nat /\ MAX_TEXT \in Nat
  /\ MaxText \in Nat
  /\ RADIX >= 2 /\ BYTE >= RADIX /\ KEY_BYTES >= 1 /\ MIN_TEXT = KEY_BYTES
BY Base58Assumption

\* A text of up to n characters is a list of them.
LEMMA TextIsList ==
  ASSUME NEW chars, NEW n \in Nat, NEW text \in TextsOf(chars, n)
  PROVE  text \in Seq(chars) /\ Len(text) \in 0..n
BY DEF TextsOf

\* A text of digits is a list of numbers.
LEMMA DigitsAreNumbers ==
  ASSUME NEW text \in Seq(Digits)
  PROVE  text \in Seq(Nat)
<1>1. PICK n \in Nat : n = Len(text)
  OBVIOUS
<1>2. \A d \in Digits : d \in Nat
  BY TextNumbers DEF Digits
<1>3. text \in [1..n -> Digits]
  BY <1>1
<1>4. text \in [1..n -> Nat]
  BY <1>2, <1>3
<1>5. QED
  BY <1>4

\* Division with a rest.
LEMMA Division ==
  ASSUME NEW base \in Nat, base >= 2, NEW x \in Nat
  PROVE  /\ x \div base \in Nat /\ x % base \in 0..(base - 1)
         /\ x = base * (x \div base) + (x % base)
<1>1. base \in Int /\ x \in Int
  OBVIOUS
<1>2. x % base = x - (x \div base) * base
  BY <1>1
<1>3. x \div base \in Nat
  OBVIOUS
<1>4. x % base >= 0 /\ x % base < base /\ x % base \in Int
  OBVIOUS
<1>5. PICK q \in Nat, r \in Int : q = x \div base /\ r = x % base
  BY <1>3, <1>4
<1>6. r = x - q * base /\ base * q = q * base /\ q * base \in Int
  BY <1>2, <1>5
<1>7. x = base * q + r
  BY <1>6
<1>8. QED
  BY <1>3, <1>4, <1>5, <1>7

\* There is one quotient and one rest.
LEMMA DivisionUnique ==
  ASSUME NEW base \in Nat, NEW q \in Nat, NEW p \in Nat,
         NEW r \in 0..(base - 1), NEW s \in 0..(base - 1), base * q + r = base * p + s
  PROVE  q = p /\ r = s
<1>1. ASSUME NEW a \in Nat, NEW b \in Nat, a < b PROVE base * a + base <= base * b
  <2>1. PICK d \in Nat : b = a + 1 + d
    <3>1. b - a - 1 \in Nat /\ b = a + 1 + (b - a - 1)
      BY <1>1
    <3>2. QED
      BY <3>1
  <2>2. base * b = base * a + base + base * d
    BY <2>1
  <2>3. base * d \in Nat /\ base * a \in Nat
    OBVIOUS
  <2>4. QED
    BY <2>2, <2>3
<1>2. base * q \in Nat /\ base * p \in Nat
  OBVIOUS
<1>3. ~(q < p)
  <2>1. q < p => base * q + base <= base * p
    BY <1>1
  <2>2. QED
    BY <1>2, <2>1
<1>4. ~(p < q)
  <2>1. p < q => base * p + base <= base * q
    BY <1>1
  <2>2. QED
    BY <1>2, <2>1
<1>5. q = p
  BY <1>3, <1>4
<1>6. QED
  BY <1>2, <1>5

\* The digits b of v in a base, the lowest first; q[i] is what is left of v above the first i.
Expands(b, v, base, q) ==
  /\ q \in [0..Len(b) -> Nat] /\ q[0] = v /\ q[Len(b)] = 0
  /\ \A i \in 1..Len(b) : b[i] \in 0..(base - 1) /\ q[i - 1] = base * q[i] + b[i]

\* No digit stands above what is left of v.
Full(b, q) == \A i \in 0..(Len(b) - 1) : q[i] # 0

\* Two expansions agree as far as both go.
LEMMA ExpansionsAgree ==
  ASSUME NEW base \in Nat, base >= 2, NEW b \in Seq(Nat), NEW c \in Seq(Nat),
         NEW v, NEW q, NEW p, Expands(b, v, base, q), Expands(c, v, base, p),
         Len(b) <= Len(c)
  PROVE  /\ \A i \in 0..Len(b) : q[i] = p[i]
         /\ \A i \in 1..Len(b) : b[i] = c[i]
<1>0. PICK m \in Nat, n \in Nat : m = Len(b) /\ n = Len(c) /\ m <= n
  OBVIOUS
<1>1. /\ \A i \in 0..m : q[i] \in Nat
      /\ \A i \in 0..n : p[i] \in Nat
      /\ \A i \in 1..m : b[i] \in 0..(base - 1) /\ q[i - 1] = base * q[i] + b[i]
      /\ \A i \in 1..n : c[i] \in 0..(base - 1) /\ p[i - 1] = base * p[i] + c[i]
      /\ q[0] = p[0]
  BY <1>0 DEF Expands
<1>2. ASSUME NEW i \in 1..m, q[i - 1] = p[i - 1] PROVE q[i] = p[i] /\ b[i] = c[i]
  <2>1. q[i] \in Nat /\ p[i] \in Nat /\ b[i] \in 0..(base - 1) /\ c[i] \in 0..(base - 1)
        /\ base * q[i] + b[i] = base * p[i] + c[i]
    BY <1>0, <1>1, <1>2
  <2>2. PICK x \in Nat, y \in Nat, d \in 0..(base - 1), e \in 0..(base - 1) :
          x = q[i] /\ y = p[i] /\ d = b[i] /\ e = c[i]
    BY <2>1
  <2>3. base * x + d = base * y + e
    BY <2>1, <2>2
  <2>4. x = y /\ d = e
    BY <2>3, DivisionUnique
  <2>5. QED
    BY <2>2, <2>4
<1>3. PICK Same : Same = {i \in Nat : i <= m => q[i] = p[i]}
  OBVIOUS
<1>4. Same = Nat
  <2>1. 0 \in Same /\ Same \in SUBSET Nat
    BY <1>1, <1>3
  <2>2. ASSUME NEW i \in Same PROVE i + 1 \in Same
    <3>1. i \in Nat /\ (i + 1) - 1 = i
      BY <1>3
    <3>2. CASE i + 1 <= m
      <4>1. i + 1 \in 1..m /\ q[i] = p[i]
        BY <1>3, <3>1, <3>2
      <4>2. QED
        BY <1>2, <1>3, <3>1, <4>1
    <3>3. CASE ~(i + 1 <= m)
      BY <1>3, <3>1, <3>3
    <3>4. QED
      BY <3>2, <3>3
  <2>3. QED
    BY <2>1, <2>2, NatSetInduction
<1>5. \A i \in 0..m : q[i] = p[i]
  BY <1>3, <1>4
<1>6. \A i \in 1..m : b[i] = c[i]
  <2> SUFFICES ASSUME NEW i \in 1..m PROVE b[i] = c[i]
    OBVIOUS
  <2>1. i - 1 \in 0..m
    OBVIOUS
  <2>2. QED
    BY <1>2, <1>5, <2>1
<1>7. QED
  BY <1>0, <1>5, <1>6

\* A number has one full expansion.
LEMMA OneExpansion ==
  ASSUME NEW base \in Nat, base >= 2, NEW b \in Seq(Nat), NEW c \in Seq(Nat),
         NEW v, NEW q, NEW p, Expands(b, v, base, q), Expands(c, v, base, p),
         Full(b, q), Full(c, p)
  PROVE  b = c
<1>1. ASSUME NEW d \in Seq(Nat), NEW e \in Seq(Nat), NEW r, NEW s,
             Expands(d, v, base, r), Expands(e, v, base, s), Full(e, s), Len(d) <= Len(e)
      PROVE  Len(d) = Len(e)
  <2>1. Len(d) \in Nat /\ Len(e) \in Nat /\ Len(d) \in 0..Len(d)
    OBVIOUS
  <2>2. s[Len(d)] = 0
    <3>1. r[Len(d)] = s[Len(d)]
      BY <1>1, <2>1, ExpansionsAgree
    <3>2. QED
      BY <1>1, <3>1 DEF Expands
  <2>3. ~(Len(d) < Len(e))
    BY <1>1, <2>1, <2>2 DEF Full
  <2>4. QED
    BY <1>1, <2>1, <2>3
<1>2. Len(b) = Len(c)
  <2>1. Len(b) \in Nat /\ Len(c) \in Nat
    OBVIOUS
  <2>2. Len(b) <= Len(c) \/ Len(c) <= Len(b)
    BY <2>1
  <2>3. QED
    BY <1>1, <2>2
<1>3. \A i \in 1..Len(b) : b[i] = c[i]
  <2>1. Len(b) \in Nat /\ Len(b) <= Len(c)
    BY <1>2
  <2>2. QED
    BY <2>1, ExpansionsAgree
<1>4. QED
  BY <1>2, <1>3, SeqEqual

\* What divisions by the base leave of v, turn by turn.
Divides(f, n, v, base) ==
  /\ f \in [0..n -> Nat] /\ f[0] = v
  /\ \A i \in 1..n : f[i] = f[i - 1] \div base

\* After k divisions, and not before, nothing is left.
Turns(f, n, k) == k \in 0..n /\ f[k] = 0 /\ \A i \in 0..(k - 1) : f[i] # 0

\* n divisions leave nothing of n, and there is a first turn after which nothing is left.
LEMMA TurnsEnd ==
  ASSUME NEW base \in Nat, base >= 2, NEW v \in Nat, NEW f, Divides(f, v, v, base)
  PROVE  \E k : Turns(f, v, k) /\ \A l \in 0..v : Turns(f, v, l) => l = k
<1>1. \A i \in 0..v : f[i] \in Nat
  BY DEF Divides
<1>2. \A x \in Nat : x # 0 => x \div base < x
  <2> SUFFICES ASSUME NEW x \in Nat, x # 0 PROVE x \div base < x
    OBVIOUS
  <2>1. PICK q \in Nat, r \in 0..(base - 1) : q = x \div base /\ x = base * q + r
    BY Division
  <2>2. base * q >= q + q
    <3>1. PICK d \in Nat : base = 2 + d
      <4>1. base - 2 \in Nat /\ base = 2 + (base - 2)
        OBVIOUS
      <4>2. QED
        BY <4>1
    <3>2. base * q = q + q + d * q /\ d * q \in Nat
      BY <3>1
    <3>3. QED
      BY <3>2
  <2>3. base * q \in Nat
    OBVIOUS
  <2>4. QED
    BY <2>1, <2>2, <2>3
<1>3. PICK S : S = {i \in Nat : i <= v => f[i] <= v - i \/ f[i] = 0}
  OBVIOUS
<1>4. S = Nat
  <2>1. 0 \in S /\ S \in SUBSET Nat
    BY <1>3 DEF Divides
  <2>2. ASSUME NEW i \in S PROVE i + 1 \in S
    <3>0. i \in Nat /\ (i + 1) - 1 = i
      BY <1>3
    <3>1. CASE ~(i + 1 <= v)
      BY <1>3, <3>0, <3>1
    <3>2. CASE i + 1 <= v
      <4>1. PICK x \in Nat : x = f[i] /\ (x <= v - i \/ x = 0)
        BY <1>1, <1>3, <3>0, <3>2
      <4>2. f[i + 1] = x \div base
        BY <3>0, <3>2, <4>1 DEF Divides
      <4>3. PICK y \in Nat : y = x \div base /\ (x # 0 => y < x)
        BY <1>2, Division
      <4>4. x = 0 => y = 0
        <5>1. PICK r \in 0..(base - 1) : x = base * y + r
          BY <4>3, Division
        <5>2. base * y \in Nat /\ (y >= 1 => base * y >= 1)
          OBVIOUS
        <5>3. QED
          BY <5>1, <5>2
      <4>5. y <= v - (i + 1) \/ y = 0
        BY <3>0, <3>2, <4>1, <4>3, <4>4
      <4>6. QED
        BY <1>3, <3>0, <4>2, <4>3, <4>5
    <3>3. QED
      BY <3>1, <3>2
  <2>3. QED
    BY <2>1, <2>2, NatSetInduction
<1>5. f[v] = 0
  <2>1. v \in S /\ v \in 0..v
    BY <1>4
  <2>2. f[v] <= v - v \/ f[v] = 0
    BY <1>3, <2>1
  <2>3. f[v] \in Nat
    BY <1>1, <2>1
  <2>4. QED
    BY <2>2, <2>3
<1>6. PICK E : E = {i \in 0..v : f[i] = 0}
  OBVIOUS
<1>7. E # {} /\ E \in SUBSET Nat
  BY <1>5, <1>6
<1>8. PICK k \in E : \A l \in E : k <= l
  BY <1>7, LeastOf
<1>9. Turns(f, v, k)
  <2>1. k \in 0..v /\ f[k] = 0
    BY <1>6
  <2>2. ASSUME NEW i \in 0..(k - 1) PROVE f[i] # 0
    <3>1. i \in 0..v /\ i < k
      BY <2>1
    <3>2. i \notin E
      BY <1>8, <2>1, <3>1
    <3>3. QED
      BY <1>6, <3>1, <3>2
  <2>3. QED
    BY <2>1, <2>2 DEF Turns
<1>10. ASSUME NEW l \in 0..v, Turns(f, v, l) PROVE l = k
  <2>1. l \in E /\ k <= l /\ k \in 0..v /\ f[k] = 0
    BY <1>6, <1>8, <1>10 DEF Turns
  <2>2. ~(k < l)
    BY <1>10, <2>1 DEF Turns
  <2>3. QED
    BY <2>1, <2>2
<1>11. QED
  BY <1>9, <1>10

\* The digits that the turns give are the full expansion.
DigitsOf(f, k, base) == [i \in 1..k |-> f[i - 1] % base]

\* The rests of the divisions up to that turn are the digits.
LEMMA TurnsExpand ==
  ASSUME NEW base \in Nat, base >= 2, NEW v \in Nat, NEW f, Divides(f, v, v, base),
         NEW k, Turns(f, v, k), NEW b, b = DigitsOf(f, k, base)
  PROVE  /\ b \in Seq(Nat) /\ Len(b) = k /\ \A i \in 1..k : b[i] \in 0..(base - 1)
         /\ \E q : Expands(b, v, base, q) /\ Full(b, q)
<1>0. k \in Nat /\ k <= v /\ \A i \in 0..v : f[i] \in Nat
  BY DEF Turns, Divides
<1>1. \A i \in 1..k : i - 1 \in 0..v /\ i \in 0..v /\ f[i - 1] \in Nat /\ f[i] = f[i - 1] \div base
  BY <1>0 DEF Divides
<1>2. \A i \in 1..k : b[i] = f[i - 1] % base
  BY DEF DigitsOf
<1>3. \A i \in 1..k : b[i] \in 0..(base - 1) /\ f[i - 1] = base * f[i] + b[i]
  <2> SUFFICES ASSUME NEW i \in 1..k PROVE b[i] \in 0..(base - 1) /\ f[i - 1] = base * f[i] + b[i]
    OBVIOUS
  <2>1. PICK x \in Nat : x = f[i - 1] /\ f[i] = x \div base /\ b[i] = x % base
    BY <1>1, <1>2
  <2>2. x % base \in 0..(base - 1) /\ x = base * (x \div base) + (x % base)
    BY Division
  <2>3. QED
    BY <2>1, <2>2
<1>4. b \in [1..k -> Nat]
  BY <1>2, <1>3 DEF DigitsOf
<1>5. b \in Seq(Nat) /\ Len(b) = k
  BY <1>0, <1>4
<1>6. PICK q : q = [i \in 0..k |-> f[i]]
  OBVIOUS
<1>7. q \in [0..k -> Nat] /\ \A i \in 0..k : q[i] = f[i]
  BY <1>0, <1>6
<1>8. Expands(b, v, base, q)
  <2>1. q[0] = v /\ q[k] = 0
    BY <1>0, <1>7 DEF Turns, Divides
  <2>2. \A i \in 1..k : q[i - 1] = base * q[i] + b[i]
    <3> SUFFICES ASSUME NEW i \in 1..k PROVE q[i - 1] = base * q[i] + b[i]
      OBVIOUS
    <3>1. i - 1 \in 0..k /\ i \in 0..k
      BY <1>0
    <3>2. q[i - 1] = f[i - 1] /\ q[i] = f[i]
      BY <1>7, <3>1
    <3>3. QED
      BY <1>3, <3>2
  <2>3. QED
    BY <1>3, <1>5, <1>7, <2>1, <2>2 DEF Expands
<1>9. Full(b, q)
  BY <1>0, <1>5, <1>7 DEF Full, Turns
<1>10. QED
  BY <1>3, <1>5, <1>8, <1>9

\* Every number has such divisions, in every base.
LEMMA DividesExists ==
  ASSUME NEW base \in Nat, base >= 2, NEW v \in Nat
  PROVE  \E f : Divides(f, v, v, base)
<1>1. PICK h : h = [p \in (1..v) \X Nat |-> p[2] \div base]
  OBVIOUS
<1>2. h \in [(1..v) \X Nat -> Nat]
  BY <1>1, Division
<1>3. PICK f : Iterates(f, v, Nat, v, h)
  BY <1>2, IterationExists
<1>4. ASSUME NEW i \in 1..v PROVE f[i] = f[i - 1] \div base
  <2>1. f[i] = h[<<i, f[i - 1]>>] /\ f[i - 1] \in Nat
    BY <1>3 DEF Iterates
  <2>2. <<i, f[i - 1]>> \in (1..v) \X Nat
    BY <2>1
  <2>3. QED
    BY <1>1, <2>1, <2>2
<1>5. Divides(f, v, v, base)
  BY <1>3, <1>4 DEF Divides, Iterates
<1>6. QED
  BY <1>5

\* Every number has a full expansion, in every base.
LEMMA ExpansionExists ==
  ASSUME NEW base \in Nat, base >= 2, NEW v \in Nat
  PROVE  \E b \in Seq(Nat) : /\ \A i \in 1..Len(b) : b[i] \in 0..(base - 1)
                             /\ \E q : Expands(b, v, base, q) /\ Full(b, q)
<1>1. PICK f : Divides(f, v, v, base)
  BY DividesExists
<1>2. PICK k : Turns(f, v, k)
  BY <1>1, TurnsEnd
<1>3. QED
  BY <1>1, <1>2, TurnsExpand

-----------------------------------------------------------------------------
(* The decoder *)

\* The while loop is such a sequence of divisions.
LEMMA LeftDivides == ASSUME NEW n \in Nat PROVE Divides(Left(n), n, n, BYTE)
<1> DEFINE left == CHOOSE left : left = [i \in 0..n |-> IF i = 0 THEN n ELSE left[i - 1] \div BYTE]
<1>1. PICK f : Divides(f, n, n, BYTE)
  BY TextNumbers, DividesExists
<1>2. f = [i \in 0..n |-> IF i = 0 THEN n ELSE f[i - 1] \div BYTE]
  BY <1>1 DEF Divides
<1>3. left = [i \in 0..n |-> IF i = 0 THEN n ELSE left[i - 1] \div BYTE]
  BY <1>2
<1>4. Left(n) = left
  BY Zenon DEF Left
<1>5. PICK g : g = Left(n) /\ g = [i \in 0..n |-> IF i = 0 THEN n ELSE g[i - 1] \div BYTE]
  <2> HIDE DEF left
  <2>1. QED
    BY <1>3, <1>4
<1>51. g[0] = n /\ \A i \in 0..n : i # 0 => g[i] = g[i - 1] \div BYTE
  <2>1. 0 \in 0..n
    OBVIOUS
  <2>2. \A i \in 0..n : g[i] = IF i = 0 THEN n ELSE g[i - 1] \div BYTE
    BY <1>5
  <2>3. QED
    BY <2>1, <2>2
<1>6. PICK S : S = {i \in Nat : i <= n => g[i] \in Nat}
  OBVIOUS
<1>7. S = Nat
  <2>1. 0 \in S /\ S \in SUBSET Nat
    BY <1>51, <1>6
  <2>2. ASSUME NEW i \in S PROVE i + 1 \in S
    <3>1. i \in Nat /\ (i + 1) - 1 = i
      BY <1>6
    <3>2. i + 1 <= n => g[i + 1] = g[i] \div BYTE /\ g[i] \in Nat
      <4> SUFFICES ASSUME i + 1 <= n PROVE g[i + 1] = g[i] \div BYTE /\ g[i] \in Nat
        OBVIOUS
      <4>1. i + 1 \in 0..n /\ i + 1 # 0 /\ i <= n
        BY <3>1
      <4>2. QED
        BY <1>51, <1>6, <3>1, <4>1
    <3>3. \A x \in Nat : x \div BYTE \in Nat
      BY TextNumbers, Division
    <3>4. QED
      BY <1>6, <3>1, <3>2, <3>3
  <2>3. QED
    BY <2>1, <2>2, NatSetInduction
<1>8. \A i \in 0..n : g[i] \in Nat
  BY <1>6, <1>7
<1>9. g \in [0..n -> Nat]
  BY <1>5, <1>8
<1>10. g[0] = n /\ \A i \in 1..n : g[i] = g[i - 1] \div BYTE
  <2>1. \A i \in 1..n : i \in 0..n /\ i # 0
    OBVIOUS
  <2>2. QED
    BY <1>51, <2>1
<1>11. QED
  BY <1>5, <1>9, <1>10 DEF Divides

ByteSeq == Seq(0..(BYTE - 1))

\* BytesOf() gives the full expansion of its number in bytes.
LEMMA BytesOfIs ==
  ASSUME NEW n \in Nat
  PROVE  /\ BytesOf(n) \in Seq(Nat) /\ BytesOf(n) \in ByteSeq
         /\ \E q : Expands(BytesOf(n), n, BYTE, q) /\ Full(BytesOf(n), q)
<1>1. PICK f : f = Left(n)
  OBVIOUS
<1>2. Divides(f, n, n, BYTE)
  BY <1>1, LeftDivides
<1>3. PICK k : Turns(f, n, k) /\ \A l \in 0..n : Turns(f, n, l) => l = k
  BY <1>2, TurnsEnd, TextNumbers
<1>4. (CHOOSE l \in 0..n : f[l] = 0 /\ \A i \in 0..(l - 1) : f[i] # 0) = k
  BY <1>3 DEF Turns
<1>5. BytesOf(n) = DigitsOf(f, k, BYTE)
  BY <1>1, <1>4 DEF BytesOf, DigitsOf
<1>6. PICK b : b = BytesOf(n)
  OBVIOUS
<1>7. /\ b \in Seq(Nat) /\ Len(b) = k /\ \A i \in 1..k : b[i] \in 0..(BYTE - 1)
      /\ \E q : Expands(b, n, BYTE, q) /\ Full(b, q)
  BY <1>2, <1>3, <1>5, <1>6, TurnsExpand, TextNumbers
<1>8. b \in ByteSeq
  <2>1. b = [i \in 1..k |-> b[i]]
    BY <1>5, <1>6 DEF DigitsOf
  <2>2. k \in Nat
    BY <1>3 DEF Turns
  <2>3. PICK B : B = 0..(BYTE - 1)
    OBVIOUS
  <2>4. b \in [1..k -> B]
    BY <1>7, <2>1, <2>3
  <2>5. b \in Seq(B)
    BY <2>2, <2>4
  <2>6. QED
    BY <2>3, <2>5 DEF ByteSeq
<1>9. QED
  BY <1>6, <1>7, <1>8

\* Bytes with nothing but zero above what is left of v, and one of them at least.
Tight(b, q) == Len(b) >= 1 /\ \A i \in 1..(Len(b) - 1) : q[i] # 0
Stands(b, v, q) == Expands(b, v, BYTE, q) /\ Tight(b, q)
StandsFor(b, v) == b \in Seq(Nat) /\ \E q : Stands(b, v, q)

\* The bytes that stand for a number: what the accumulator may be.
ByteNumbers == {b \in Seq(Nat) : \E v \in Nat : StandsFor(b, v)}

\* Two sequences of numbers, one after the other.
Joins(c, a, b, m, n) ==
  /\ Len(c) = m + n
  /\ \A i \in 1..m : c[i] = a[i]
  /\ \A i \in 1..(m + n) : i > m => c[i] = b[i - m]

\* What stands where after two lists are joined.
LEMMA JoinedSeqs ==
  ASSUME NEW a \in Seq(Nat), NEW b \in Seq(Nat), NEW c, c = a \o b
  PROVE  c \in Seq(Nat) /\ Joins(c, a, b, Len(a), Len(b))
<1>1. c \in Seq(Nat) /\ Len(c) = Len(a) + Len(b)
  BY ConcatProperties
<1>2. \A i \in 1..(Len(a) + Len(b)) : c[i] = IF i <= Len(a) THEN a[i] ELSE b[i - Len(a)]
  BY ConcatProperties
<1>3. Len(a) \in Nat /\ Len(b) \in Nat
  OBVIOUS
<1>4. \A i \in 1..Len(a) : i \in 1..(Len(a) + Len(b)) /\ i <= Len(a)
  BY <1>3
<1>5. \A i \in 1..(Len(a) + Len(b)) : i > Len(a) => ~(i <= Len(a))
  BY <1>3
<1>6. QED
  BY <1>1, <1>2, <1>4, <1>5 DEF Joins

\* The accumulator at first: one byte, for the number 0.
LEMMA ZeroStands == StandsFor(<<0>>, 0)
<1>1. PICK b : b = <<0>>
  OBVIOUS
<1>2. b \in Seq(Nat) /\ Len(b) = 1 /\ b[1] = 0
  BY <1>1
<1>3. PICK q : q = [i \in 0..1 |-> 0]
  OBVIOUS
<1>4. q \in [0..1 -> Nat] /\ q[0] = 0 /\ q[1] = 0
  BY <1>3
<1>5. Expands(b, 0, BYTE, q)
  <2>1. 0 \in 0..(BYTE - 1) /\ BYTE * 0 + 0 = 0
    BY TextNumbers
  <2>2. ASSUME NEW i \in 1..1 PROVE b[i] \in 0..(BYTE - 1) /\ q[i - 1] = BYTE * q[i] + b[i]
    <3>1. i = 1 /\ i - 1 = 0
      OBVIOUS
    <3>2. QED
      BY <1>2, <1>4, <2>1, <3>1
  <2>3. QED
    BY <1>2, <1>4, <2>2 DEF Expands
<1>6. Tight(b, q)
  BY <1>2 DEF Tight
<1>7. QED
  BY <1>1, <1>2, <1>5, <1>6 DEF StandsFor, Stands

\* The carries of one digit.
Carries(c, b, digit) ==
  /\ c \in [0..Len(b) -> Nat] /\ c[0] = digit
  /\ \A i \in 1..Len(b) : c[i] = (c[i - 1] + b[i] * RADIX) \div BYTE

\* The recursion of Carry has a solution, with a number at every byte.
LEMMA CarryIs ==
  ASSUME NEW bytes \in Seq(Nat), NEW digit \in Nat
  PROVE  Carries(Carry(bytes, digit), bytes, digit)
<1> DEFINE carry == CHOOSE carry : carry = [i \in 0..Len(bytes) |->
                      IF i = 0 THEN digit ELSE (carry[i - 1] + bytes[i] * RADIX) \div BYTE]
<1>0. PICK n \in Nat : n = Len(bytes)
  OBVIOUS
<1>1. \A x \in Nat, y \in Nat : (x + y * RADIX) \in Nat /\ (x + y * RADIX) \div BYTE \in Nat
  BY TextNumbers, Division
<1>2. \A i \in 1..n : bytes[i] \in Nat
  BY <1>0
<1>3. PICK h : h = [p \in (1..n) \X Nat |-> (p[2] + bytes[p[1]] * RADIX) \div BYTE]
  OBVIOUS
<1>4. h \in [(1..n) \X Nat -> Nat]
  BY <1>1, <1>2, <1>3
<1>5. PICK f : Iterates(f, n, Nat, digit, h)
  BY <1>4, IterationExists
<1>6. ASSUME NEW i \in 1..n PROVE f[i] = (f[i - 1] + bytes[i] * RADIX) \div BYTE
  <2>1. f[i] = h[<<i, f[i - 1]>>] /\ f[i - 1] \in Nat
    BY <1>5 DEF Iterates
  <2>2. <<i, f[i - 1]>> \in (1..n) \X Nat
    BY <2>1
  <2>3. QED
    BY <1>3, <2>1, <2>2
<1>7. f = [i \in 0..n |-> IF i = 0 THEN digit ELSE (f[i - 1] + bytes[i] * RADIX) \div BYTE]
  <2>1. f \in [0..n -> Nat] /\ f[0] = digit
    BY <1>5 DEF Iterates
  <2>2. \A i \in 0..n : i # 0 => f[i] = (f[i - 1] + bytes[i] * RADIX) \div BYTE
    <3>1. \A i \in 0..n : i # 0 => i \in 1..n
      OBVIOUS
    <3>2. QED
      BY <1>6, <3>1
  <2>3. QED
    BY <2>1, <2>2
<1>8. carry = [i \in 0..Len(bytes) |->
                 IF i = 0 THEN digit ELSE (carry[i - 1] + bytes[i] * RADIX) \div BYTE]
  BY <1>0, <1>7
<1>9. Carry(bytes, digit) = carry
  BY Zenon DEF Carry
<1>10. PICK g : g = Carry(bytes, digit)
                /\ g = [i \in 0..n |-> IF i = 0 THEN digit ELSE (g[i - 1] + bytes[i] * RADIX) \div BYTE]
  <2> HIDE DEF carry
  <2>1. QED
    BY <1>0, <1>8, <1>9
<1>11. g[0] = digit /\ \A i \in 1..n : g[i] = (g[i - 1] + bytes[i] * RADIX) \div BYTE
  <2>1. 0 \in 0..n /\ \A i \in 1..n : i \in 0..n /\ i # 0
    OBVIOUS
  <2>2. \A i \in 0..n : g[i] = IF i = 0 THEN digit ELSE (g[i - 1] + bytes[i] * RADIX) \div BYTE
    BY <1>10
  <2>3. QED
    BY <2>1, <2>2
<1>12. PICK S : S = {i \in Nat : i <= n => g[i] \in Nat}
  OBVIOUS
<1>13. S = Nat
  <2>1. 0 \in S /\ S \in SUBSET Nat
    BY <1>11, <1>12
  <2>2. ASSUME NEW i \in S PROVE i + 1 \in S
    <3>1. i \in Nat /\ (i + 1) - 1 = i
      BY <1>12
    <3>2. ASSUME i + 1 <= n PROVE g[i + 1] \in Nat
      <4>1. i + 1 \in 1..n /\ g[i] \in Nat
        BY <1>12, <3>1, <3>2
      <4>2. bytes[i + 1] \in Nat /\ g[i + 1] = (g[i] + bytes[i + 1] * RADIX) \div BYTE
        BY <1>2, <1>11, <3>1, <4>1
      <4>3. QED
        BY <1>1, <4>1, <4>2
    <3>3. QED
      BY <1>12, <3>1, <3>2
  <2>3. QED
    BY <2>1, <2>2, NatSetInduction
<1>14. g \in [0..n -> Nat]
  <2>1. \A i \in 0..n : g[i] \in Nat
    BY <1>12, <1>13
  <2>2. QED
    BY <1>10, <2>1
<1>15. QED
  BY <1>0, <1>10, <1>11, <1>14 DEF Carries

\* One digit more: the number times RADIX and the digit.
LEMMA AddDigitIs ==
  ASSUME NEW bytes \in Seq(Nat), NEW v \in Nat, NEW q, Stands(bytes, v, q), NEW digit \in Nat
  PROVE  StandsFor(AddDigit(bytes, digit), v * RADIX + digit)
<1>0. PICK n \in Nat : n = Len(bytes) /\ n >= 1
  BY DEF Stands, Tight
<1>1. PICK c : c = Carry(bytes, digit) /\ Carries(c, bytes, digit)
  BY CarryIs
<1>2. /\ \A i \in 0..n : c[i] \in Nat /\ q[i] \in Nat
      /\ c[0] = digit /\ q[0] = v /\ q[n] = 0
      /\ \A i \in 1..n : c[i] = (c[i - 1] + bytes[i] * RADIX) \div BYTE
      /\ \A i \in 1..n : bytes[i] \in 0..(BYTE - 1) /\ q[i - 1] = BYTE * q[i] + bytes[i]
      /\ \A i \in 1..(n - 1) : q[i] # 0
  BY <1>0, <1>1 DEF Carries, Stands, Expands, Tight
<1>3. PICK low : low = [i \in 1..n |-> (c[i - 1] + bytes[i] * RADIX) % BYTE]
  OBVIOUS
<1>4. PICK p : p = [i \in 0..n |-> RADIX * q[i] + c[i]]
  OBVIOUS
<1>5. ASSUME NEW i \in 1..n PROVE low[i] \in 0..(BYTE - 1) /\ p[i - 1] = BYTE * p[i] + low[i]
  <2>0. i \in 0..n /\ i - 1 \in 0..n
    OBVIOUS
  <2>1. PICK x \in Nat, y \in Nat, d \in Nat, e \in Nat, r \in Nat, w \in Nat :
          /\ x = q[i - 1] /\ y = q[i] /\ d = bytes[i] /\ e = c[i - 1] /\ r = c[i]
          /\ w = e + d * RADIX
    <3>0. bytes[i] \in Nat
      <4>1. bytes[i] \in 0..(BYTE - 1) /\ BYTE - 1 \in Int
        BY <1>2, TextNumbers
      <4>2. QED
        BY <4>1
    <3>1. bytes[i] \in Nat /\ q[i - 1] \in Nat /\ q[i] \in Nat /\ c[i - 1] \in Nat /\ c[i] \in Nat
      BY <1>2, <2>0, <3>0
    <3>2. PICK d \in Nat, e \in Nat : d = bytes[i] /\ e = c[i - 1]
      BY <3>1
    <3>3. PICK w \in Nat : w = e + d * RADIX
      <4>1. e + d * RADIX \in Nat
        BY TextNumbers
      <4>2. QED
        BY <4>1
    <3>4. QED
      BY <3>1, <3>2, <3>3
  <2>2. x = BYTE * y + d /\ r = w \div BYTE /\ low[i] = w % BYTE
    BY <1>2, <1>3, <2>1
  <2>3. low[i] \in 0..(BYTE - 1) /\ w = BYTE * r + low[i]
    BY <2>2, Division, TextNumbers
  <2>4. p[i - 1] = RADIX * x + e /\ p[i] = RADIX * y + r
    BY <1>4, <2>0, <2>1
  <2>5. RADIX * x + e = BYTE * (RADIX * y + r) + low[i]
    <3>1. PICK t \in Nat : t = low[i]
      BY <2>3, TextNumbers
    <3>2. RADIX * x = RADIX * (BYTE * y) + RADIX * d
      BY <2>2, TextNumbers
    <3>3. RADIX * (BYTE * y) = BYTE * (RADIX * y) /\ RADIX * d = d * RADIX
      BY TextNumbers
    <3>4. BYTE * (RADIX * y + r) = BYTE * (RADIX * y) + BYTE * r
      BY TextNumbers
    <3>5. e + d * RADIX = BYTE * r + t
      BY <2>1, <2>3, <3>1
    <3>6. PICK a \in Nat, b \in Nat, g \in Nat : a = BYTE * (RADIX * y) /\ b = d * RADIX /\ g = BYTE * r
      <4>1. BYTE * (RADIX * y) \in Nat /\ d * RADIX \in Nat /\ BYTE * r \in Nat
        BY TextNumbers
      <4>2. QED
        BY <4>1
    <3>7. RADIX * x = a + b /\ BYTE * (RADIX * y + r) = a + g /\ e + b = g + t
      BY <3>2, <3>3, <3>4, <3>5, <3>6
    <3>8. a + b + e = a + g + t
      BY <3>7
    <3>9. QED
      BY <3>1, <3>7, <3>8
  <2>6. QED
    BY <2>3, <2>4, <2>5
<1>6. PICK left \in Nat : left = c[n]
  BY <1>2
<1>7. PICK high : high = BytesOf(left)
  OBVIOUS
<1>8. high \in Seq(Nat) /\ \E s : Expands(high, left, BYTE, s) /\ Full(high, s)
  BY <1>7, BytesOfIs
<1>9. PICK s : Expands(high, left, BYTE, s) /\ Full(high, s)
  BY <1>8
<1>10. PICK m \in Nat : m = Len(high)
  BY <1>8
<1>11. low \in Seq(Nat) /\ Len(low) = n
  <2>1. \A i \in 1..n : low[i] \in Nat
    BY <1>5, TextNumbers
  <2>2. low \in [1..n -> Nat]
    BY <1>3, <2>1
  <2>3. QED
    BY <2>2
<1>12. PICK b : b = low \o high
  OBVIOUS
<1>13. /\ b \in Seq(Nat) /\ Len(b) = n + m
       /\ \A i \in 1..n : b[i] = low[i]
       /\ \A i \in 1..(n + m) : i > n => b[i] = high[i - n]
  <2>0. Len(low) = n /\ Len(high) = m
    BY <1>10, <1>11
  <2>1. low \in Seq(Nat) /\ high \in Seq(Nat) /\ b = low \o high
    BY <1>8, <1>11, <1>12
  <2>2. b \in Seq(Nat) /\ Joins(b, low, high, Len(low), Len(high))
    BY <2>1, JoinedSeqs
  <2>3. QED
    BY <2>0, <2>2 DEF Joins
<1>14. PICK t : t = [i \in 0..(n + m) |-> IF i <= n THEN p[i] ELSE s[i - n]]
  OBVIOUS
<1>15. /\ \A i \in 0..n : p[i] \in Nat
       /\ p[0] = v * RADIX + digit /\ p[n] = left
       /\ \A i \in 1..(n - 1) : p[i] # 0
  <2>1. \A i \in 0..n : p[i] \in Nat /\ p[i] = RADIX * q[i] + c[i]
    <3> SUFFICES ASSUME NEW i \in 0..n PROVE p[i] \in Nat /\ p[i] = RADIX * q[i] + c[i]
      OBVIOUS
    <3>1. PICK x \in Nat, e \in Nat : x = q[i] /\ e = c[i]
      BY <1>2
    <3>2. p[i] = RADIX * x + e
      BY <1>4, <3>1
    <3>3. RADIX * x + e \in Nat
      BY TextNumbers
    <3>4. QED
      BY <3>1, <3>2, <3>3
  <2>2. 0 \in 0..n /\ n \in 0..n
    OBVIOUS
  <2>3. p[0] = RADIX * v + digit /\ p[n] = RADIX * 0 + left
    BY <1>2, <1>6, <2>1, <2>2
  <2>4. RADIX * v = v * RADIX /\ RADIX * 0 = 0 /\ left \in Nat
    BY TextNumbers
  <2>5. ASSUME NEW i \in 1..(n - 1) PROVE p[i] # 0
    <3>1. i \in 0..n /\ q[i] # 0
      BY <1>2
    <3>2. PICK x \in Nat, e \in Nat : x = q[i] /\ e = c[i] /\ x >= 1
      <4>1. q[i] \in Nat /\ c[i] \in Nat /\ q[i] # 0
        BY <1>2, <3>1
      <4>2. QED
        BY <4>1
    <3>3. RADIX * x >= 1
      BY <3>2, TextNumbers
    <3>4. RADIX * x \in Nat
      BY TextNumbers
    <3>5. QED
      BY <2>1, <3>1, <3>2, <3>3, <3>4
  <2>6. QED
    BY <2>1, <2>3, <2>4, <2>5
<1>16. /\ \A i \in 0..m : s[i] \in Nat
       /\ s[0] = left /\ s[m] = 0
       /\ \A i \in 1..m : high[i] \in 0..(BYTE - 1) /\ s[i - 1] = BYTE * s[i] + high[i]
       /\ \A i \in 0..(m - 1) : s[i] # 0
  BY <1>9, <1>10 DEF Expands, Full
<1>17. /\ \A i \in 0..n : t[i] = p[i]
       /\ \A i \in 0..(n + m) : i >= n => t[i] = s[i - n]
  <2>1. \A i \in 0..n : i \in 0..(n + m)
    OBVIOUS
  <2>2. s[n - n] = p[n]
    BY <1>15, <1>16
  <2>3. QED
    BY <1>14, <2>1, <2>2
<1>18. t \in [0..(n + m) -> Nat]
  <2>1. \A i \in 0..(n + m) : t[i] \in Nat
    <3> SUFFICES ASSUME NEW i \in 0..(n + m) PROVE t[i] \in Nat
      OBVIOUS
    <3>1. CASE i <= n
      BY <1>15, <1>17, <3>1
    <3>2. CASE ~(i <= n)
      <4>1. i - n \in 0..m /\ i >= n
        BY <3>2
      <4>2. QED
        BY <1>16, <1>17, <4>1
    <3>3. QED
      BY <3>1, <3>2
  <2>2. QED
    BY <1>14, <2>1
<1>19. ASSUME NEW i \in 1..(n + m) PROVE b[i] \in 0..(BYTE - 1) /\ t[i - 1] = BYTE * t[i] + b[i]
  <2>1. CASE i <= n
    <3>1. i \in 1..n /\ i \in 0..n /\ i - 1 \in 0..n
      BY <2>1
    <3>2. t[i] = p[i] /\ t[i - 1] = p[i - 1] /\ b[i] = low[i]
      BY <1>13, <1>17, <3>1
    <3>3. QED
      BY <1>5, <3>1, <3>2
  <2>2. CASE i > n
    <3>1. i - n \in 1..m /\ i - 1 >= n /\ i >= n /\ i \in 0..(n + m) /\ i - 1 \in 0..(n + m)
          /\ (i - 1) - n = (i - n) - 1
      BY <2>2
    <3>2. t[i] = s[i - n] /\ t[i - 1] = s[(i - n) - 1] /\ b[i] = high[i - n]
      BY <1>13, <1>17, <2>2, <3>1
    <3>3. QED
      BY <1>16, <3>1, <3>2
  <2>3. QED
    BY <2>1, <2>2
<1>20. Expands(b, v * RADIX + digit, BYTE, t)
  <2>1. t[0] = v * RADIX + digit
    BY <1>15, <1>17
  <2>2. t[n + m] = 0
    <3>1. n + m \in 0..(n + m) /\ n + m >= n /\ (n + m) - n = m
      OBVIOUS
    <3>2. QED
      BY <1>16, <1>17, <3>1
  <2>3. QED
    BY <1>13, <1>18, <1>19, <2>1, <2>2 DEF Expands
<1>21. Tight(b, t)
  <2>1. ASSUME NEW i \in 1..(n + m - 1) PROVE t[i] # 0
    <3>1. CASE i <= n - 1
      <4>1. i \in 0..n /\ i \in 1..(n - 1)
        BY <3>1
      <4>2. QED
        BY <1>15, <1>17, <4>1
    <3>2. CASE ~(i <= n - 1)
      <4>1. i - n \in 0..(m - 1) /\ i >= n /\ i \in 0..(n + m)
        BY <3>2
      <4>2. QED
        BY <1>16, <1>17, <4>1
    <3>3. QED
      BY <3>1, <3>2
  <2>2. QED
    BY <1>0, <1>13, <2>1 DEF Tight
<1>22. AddDigit(bytes, digit) = b
  BY <1>0, <1>1, <1>3, <1>6, <1>7, <1>12 DEF AddDigit
<1>23. QED
  BY <1>13, <1>20, <1>21, <1>22 DEF StandsFor, Stands

\* The numbers that the first digits of a text are, as a relation.
Worths(v, text) ==
  /\ v \in [0..Len(text) -> Nat] /\ v[0] = 0
  /\ \A i \in 1..Len(text) : v[i] = v[i - 1] * RADIX + text[i]

\* So has that of Values.
LEMMA ValuesIs == ASSUME NEW text \in Seq(Nat) PROVE Worths(Values(text), text)
<1> DEFINE value == CHOOSE value : value = [i \in 0..Len(text) |->
                      IF i = 0 THEN 0 ELSE value[i - 1] * RADIX + text[i]]
<1>0. PICK n \in Nat : n = Len(text)
  OBVIOUS
<1>1. \A x \in Nat, y \in Nat : x * RADIX + y \in Nat
  BY TextNumbers
<1>2. \A i \in 1..n : text[i] \in Nat
  BY <1>0
<1>3. PICK h : h = [p \in (1..n) \X Nat |-> p[2] * RADIX + text[p[1]]]
  OBVIOUS
<1>4. h \in [(1..n) \X Nat -> Nat]
  BY <1>1, <1>2, <1>3
<1>5. PICK f : Iterates(f, n, Nat, 0, h)
  BY <1>4, IterationExists
<1>6. ASSUME NEW i \in 1..n PROVE f[i] = f[i - 1] * RADIX + text[i]
  <2>1. f[i] = h[<<i, f[i - 1]>>] /\ f[i - 1] \in Nat
    BY <1>5 DEF Iterates
  <2>2. <<i, f[i - 1]>> \in (1..n) \X Nat
    BY <2>1
  <2>3. QED
    BY <1>3, <2>1, <2>2
<1>7. f = [i \in 0..n |-> IF i = 0 THEN 0 ELSE f[i - 1] * RADIX + text[i]]
  <2>1. f \in [0..n -> Nat] /\ f[0] = 0
    BY <1>5 DEF Iterates
  <2>2. \A i \in 0..n : i # 0 => f[i] = f[i - 1] * RADIX + text[i]
    <3>1. \A i \in 0..n : i # 0 => i \in 1..n
      OBVIOUS
    <3>2. QED
      BY <1>6, <3>1
  <2>3. QED
    BY <2>1, <2>2
<1>8. value = [i \in 0..Len(text) |-> IF i = 0 THEN 0 ELSE value[i - 1] * RADIX + text[i]]
  BY <1>0, <1>7
<1>9. Values(text) = value
  BY Zenon DEF Values
<1>10. PICK g : g = Values(text)
                /\ g = [i \in 0..n |-> IF i = 0 THEN 0 ELSE g[i - 1] * RADIX + text[i]]
  <2> HIDE DEF value
  <2>1. QED
    BY <1>0, <1>8, <1>9
<1>11. g[0] = 0 /\ \A i \in 1..n : g[i] = g[i - 1] * RADIX + text[i]
  <2>1. 0 \in 0..n /\ \A i \in 1..n : i \in 0..n /\ i # 0
    OBVIOUS
  <2>2. \A i \in 0..n : g[i] = IF i = 0 THEN 0 ELSE g[i - 1] * RADIX + text[i]
    BY <1>10
  <2>3. QED
    BY <2>1, <2>2
<1>12. PICK S : S = {i \in Nat : i <= n => g[i] \in Nat}
  OBVIOUS
<1>13. S = Nat
  <2>1. 0 \in S /\ S \in SUBSET Nat
    BY <1>11, <1>12
  <2>2. ASSUME NEW i \in S PROVE i + 1 \in S
    <3>1. i \in Nat /\ (i + 1) - 1 = i
      BY <1>12
    <3>2. ASSUME i + 1 <= n PROVE g[i + 1] \in Nat
      <4>1. i + 1 \in 1..n /\ g[i] \in Nat
        BY <1>12, <3>1, <3>2
      <4>2. text[i + 1] \in Nat /\ g[i + 1] = g[i] * RADIX + text[i + 1]
        BY <1>2, <1>11, <3>1, <4>1
      <4>3. QED
        BY <1>1, <4>1, <4>2
    <3>3. QED
      BY <1>12, <3>1, <3>2
  <2>3. QED
    BY <2>1, <2>2, NatSetInduction
<1>14. g \in [0..n -> Nat]
  <2>1. \A i \in 0..n : g[i] \in Nat
    BY <1>12, <1>13
  <2>2. QED
    BY <1>10, <2>1
<1>15. QED
  BY <1>0, <1>10, <1>11, <1>14 DEF Worths

\* The accumulator starts as a byte 0 and takes one digit after the other.
LEMMA AccumulatedIs ==
  ASSUME NEW text \in Seq(Nat)
  PROVE  /\ Accumulated(text)[0] = <<0>>
         /\ \A i \in 1..Len(text) :
              Accumulated(text)[i] = AddDigit(Accumulated(text)[i - 1], text[i])
<1> DEFINE bytes == CHOOSE bytes : bytes = [i \in 0..Len(text) |->
                      IF i = 0 THEN <<0>> ELSE AddDigit(bytes[i - 1], text[i])]
<1>0. PICK n \in Nat : n = Len(text)
  OBVIOUS
<1>1. PICK S : S = ByteNumbers
  OBVIOUS
<1>2. \A i \in 1..n : text[i] \in Nat
  BY <1>0
<1>3. ASSUME NEW b \in S, NEW d \in Nat PROVE AddDigit(b, d) \in S
  <2>1. PICK v \in Nat : b \in Seq(Nat) /\ StandsFor(b, v)
    BY <1>1 DEF ByteNumbers
  <2>2. PICK q : Stands(b, v, q)
    BY <2>1 DEF StandsFor
  <2>3. StandsFor(AddDigit(b, d), v * RADIX + d)
    BY <2>1, <2>2, AddDigitIs
  <2>4. v * RADIX + d \in Nat
    BY TextNumbers
  <2>5. QED
    BY <1>1, <2>3, <2>4 DEF ByteNumbers, StandsFor
<1>4. <<0>> \in S
  BY <1>1, ZeroStands DEF ByteNumbers, StandsFor
<1>5. PICK h : h = [p \in (1..n) \X S |-> AddDigit(p[2], text[p[1]])]
  OBVIOUS
<1>6. h \in [(1..n) \X S -> S]
  BY <1>2, <1>3, <1>5
<1>7. PICK f : Iterates(f, n, S, <<0>>, h)
  BY <1>4, <1>6, IterationExists
<1>8. ASSUME NEW i \in 1..n PROVE f[i] = AddDigit(f[i - 1], text[i])
  <2>1. f[i] = h[<<i, f[i - 1]>>] /\ f[i - 1] \in S
    BY <1>7 DEF Iterates
  <2>2. <<i, f[i - 1]>> \in (1..n) \X S
    BY <2>1
  <2>3. QED
    BY <1>5, <2>1, <2>2
<1>9. f = [i \in 0..n |-> IF i = 0 THEN <<0>> ELSE AddDigit(f[i - 1], text[i])]
  <2>1. f \in [0..n -> S] /\ f[0] = <<0>>
    BY <1>7 DEF Iterates
  <2>2. \A i \in 0..n : i # 0 => f[i] = AddDigit(f[i - 1], text[i])
    <3>1. \A i \in 0..n : i # 0 => i \in 1..n
      OBVIOUS
    <3>2. QED
      BY <1>8, <3>1
  <2>3. QED
    BY <2>1, <2>2
<1>10. bytes = [i \in 0..Len(text) |-> IF i = 0 THEN <<0>> ELSE AddDigit(bytes[i - 1], text[i])]
  BY <1>0, <1>9
<1>11. Accumulated(text) = bytes
  BY Zenon DEF Accumulated
<1>12. PICK g : g = Accumulated(text)
                /\ g = [i \in 0..n |-> IF i = 0 THEN <<0>> ELSE AddDigit(g[i - 1], text[i])]
  <2> HIDE DEF bytes
  <2>1. QED
    BY <1>0, <1>10, <1>11
<1>13. g[0] = <<0>> /\ \A i \in 1..n : g[i] = AddDigit(g[i - 1], text[i])
  <2>1. 0 \in 0..n /\ \A i \in 1..n : i \in 0..n /\ i # 0
    OBVIOUS
  <2>2. \A i \in 0..n : g[i] = IF i = 0 THEN <<0>> ELSE AddDigit(g[i - 1], text[i])
    BY <1>12
  <2>3. QED
    BY <2>1, <2>2
<1>14. QED
  BY <1>0, <1>12, <1>13

\* What is accumulated stands for the number that the digits are.
LEMMA AccumulatedStands ==
  ASSUME NEW text \in Seq(Nat)
  PROVE  Value(text) \in Nat /\ StandsFor(Accumulated(text)[Len(text)], Value(text))
<1>0. PICK n \in Nat : n = Len(text)
  OBVIOUS
<1>1. PICK v, a : v = Values(text) /\ a = Accumulated(text)
  OBVIOUS
<1>2. /\ \A i \in 0..n : v[i] \in Nat
      /\ v[0] = 0
      /\ \A i \in 1..n : v[i] = v[i - 1] * RADIX + text[i]
  BY <1>0, <1>1, ValuesIs DEF Worths
<1>3. a[0] = <<0>> /\ \A i \in 1..n : a[i] = AddDigit(a[i - 1], text[i])
  BY <1>0, <1>1, AccumulatedIs
<1>4. PICK S : S = {i \in Nat : i <= n => StandsFor(a[i], v[i])}
  OBVIOUS
<1>5. S = Nat
  <2>1. 0 \in S /\ S \in SUBSET Nat
    BY <1>2, <1>3, <1>4, ZeroStands
  <2>2. ASSUME NEW i \in S PROVE i + 1 \in S
    <3>1. i \in Nat /\ (i + 1) - 1 = i
      BY <1>4
    <3>2. ASSUME i + 1 <= n PROVE StandsFor(a[i + 1], v[i + 1])
      <4>1. i + 1 \in 1..n /\ StandsFor(a[i], v[i]) /\ i \in 0..n
        BY <1>4, <3>1, <3>2
      <4>2. PICK b : b = a[i]
        OBVIOUS
      <4>3. PICK x \in Nat, d \in Nat : x = v[i] /\ d = text[i + 1]
        BY <1>0, <1>2, <4>1
      <4>4. PICK q : b \in Seq(Nat) /\ Stands(b, x, q)
        BY <4>1, <4>2, <4>3 DEF StandsFor
      <4>5. StandsFor(AddDigit(b, d), x * RADIX + d)
        BY <4>4, AddDigitIs
      <4>6. a[i + 1] = AddDigit(b, d) /\ v[i + 1] = x * RADIX + d
        BY <1>2, <1>3, <3>1, <4>1, <4>2, <4>3
      <4>7. QED
        BY <4>5, <4>6
    <3>3. QED
      BY <1>4, <3>1, <3>2
  <2>3. QED
    BY <2>1, <2>2, NatSetInduction
<1>6. n \in S /\ n \in 0..n
  BY <1>5
<1>7. v[n] \in Nat /\ StandsFor(a[n], v[n])
  BY <1>2, <1>4, <1>6
<1>8. QED
  BY <1>0, <1>1, <1>7 DEF Value

\* No second byte is pushed for 0.
LEMMA StandsForZero ==
  ASSUME NEW b \in Seq(Nat), NEW q, Stands(b, 0, q)
  PROVE  b = <<0>>
<1>0. PICK n \in Nat : n = Len(b) /\ n >= 1
  BY DEF Stands, Tight
<1>1. /\ q[0] = 0 /\ q[1] \in Nat /\ b[1] \in Nat /\ q[0] = BYTE * q[1] + b[1]
      /\ \A i \in 1..(n - 1) : q[i] # 0
  <2>1. 1 \in 1..n /\ 1 \in 0..n /\ 1 - 1 = 0
    BY <1>0
  <2>2. q[1] \in Nat /\ b[1] \in 0..(BYTE - 1) /\ q[0] = BYTE * q[1] + b[1] /\ q[0] = 0
    BY <1>0, <2>1 DEF Stands, Expands
  <2>3. BYTE - 1 \in Int
    BY TextNumbers
  <2>4. \A i \in 1..(n - 1) : q[i] # 0
    BY <1>0 DEF Stands, Tight
  <2>5. QED
    BY <2>2, <2>3, <2>4
<1>2. q[1] = 0 /\ b[1] = 0
  <2>1. PICK x \in Nat, d \in Nat : x = q[1] /\ d = b[1] /\ BYTE * x + d = 0
    BY <1>1
  <2>2. BYTE * x \in Nat /\ (x >= 1 => BYTE * x >= 1)
    BY TextNumbers
  <2>3. PICK y \in Nat : y = BYTE * x /\ y + d = 0 /\ (x >= 1 => y >= 1)
    BY <2>1, <2>2
  <2>4. y = 0 /\ d = 0
    BY <2>3
  <2>5. x = 0
    BY <2>3, <2>4
  <2>6. QED
    BY <2>1, <2>4, <2>5
<1>3. n = 1
  <2>1. ~(n >= 2)
    <3>1. n >= 2 => 1 \in 1..(n - 1)
      OBVIOUS
    <3>2. QED
      BY <1>1, <1>2, <3>1
  <2>2. QED
    BY <1>0, <2>1
<1>4. PICK c : c = <<0>>
  OBVIOUS
<1>5. c \in Seq(Nat) /\ Len(c) = Len(b) /\ c[1] = 0 /\ Len(b) = 1
  BY <1>0, <1>3, <1>4
<1>6. \A i \in 1..Len(b) : b[i] = c[i]
  BY <1>2, <1>5
<1>7. b = c
  BY <1>5, <1>6, SeqEqual
<1>8. QED
  BY <1>4, <1>7

\* Above 0 the accumulator is the full expansion.
LEMMA StandsForBytes ==
  ASSUME NEW b \in Seq(Nat), NEW v \in Nat, v # 0, NEW q, Stands(b, v, q)
  PROVE  b = BytesOf(v)
<1>0. PICK n \in Nat : n = Len(b) /\ n >= 1
  BY DEF Stands, Tight
<1>1. Full(b, q)
  <2>1. q[0] = v /\ \A i \in 1..(n - 1) : q[i] # 0
    BY <1>0 DEF Stands, Expands, Tight
  <2>2. \A i \in 0..(n - 1) : i = 0 \/ i \in 1..(n - 1)
    OBVIOUS
  <2>3. QED
    BY <1>0, <2>1, <2>2 DEF Full
<1>2. PICK c, p : c \in Seq(Nat) /\ c = BytesOf(v) /\ Expands(c, v, BYTE, p) /\ Full(c, p)
  BY BytesOfIs
<1>3. Expands(b, v, BYTE, q)
  BY DEF Stands
<1>4. b = c
  BY <1>1, <1>2, <1>3, OneExpansion, TextNumbers
<1>5. QED
  BY <1>2, <1>4

\* The n-th from the front was the n-th from the end.
LEMMA BackwardsIs ==
  ASSUME NEW a \in Seq(Nat), NEW b, b = Backwards(a)
  PROVE  b \in Seq(Nat) /\ Len(b) = Len(a) /\ \A i \in 1..Len(a) : b[i] = a[Len(a) + 1 - i]
<1>0. PICK n \in Nat : n = Len(a)
  OBVIOUS
<1>1. b = [i \in 1..n |-> a[n + 1 - i]]
  BY <1>0 DEF Backwards
<1>2. \A i \in 1..n : n + 1 - i \in 1..n
  OBVIOUS
<1>3. \A i \in 1..n : a[n + 1 - i] \in Nat
  BY <1>0, <1>2
<1>4. b \in [1..n -> Nat]
  BY <1>1, <1>3
<1>5. b \in Seq(Nat) /\ Len(b) = n
  BY <1>4
<1>6. QED
  BY <1>0, <1>1, <1>5

\* A list of zeros, place by place.
LEMMA ZerosAre ==
  ASSUME NEW m \in Nat, NEW z, z = Zeros(m)
  PROVE  z \in Seq(Nat) /\ Len(z) = m /\ \A i \in 1..m : z[i] = 0
<1>1. z \in [1..m -> Nat]
  BY DEF Zeros
<1>2. QED
  BY <1>1 DEF Zeros

\* Backwards, what came last comes first.
LEMMA BackwardsJoined ==
  ASSUME NEW a \in Seq(Nat), NEW m \in Nat
  PROVE  Backwards(a \o Zeros(m)) = Zeros(m) \o Backwards(a)
<1>0. PICK n \in Nat : n = Len(a)
  OBVIOUS
<1>1. PICK z : z = Zeros(m)
  OBVIOUS
<1>2. z \in Seq(Nat) /\ Len(z) = m /\ \A i \in 1..m : z[i] = 0
  BY <1>1, ZerosAre
<1>3. PICK r : r = Backwards(a)
  OBVIOUS
<1>4. r \in Seq(Nat) /\ Len(r) = n /\ \A i \in 1..n : r[i] = a[n + 1 - i]
  BY <1>0, <1>3, BackwardsIs
<1>5. PICK b : b = a \o z
  OBVIOUS
<1>6. b \in Seq(Nat) /\ Joins(b, a, z, n, m)
  BY <1>0, <1>2, <1>5, JoinedSeqs
<1>7. PICK c : c = z \o r
  OBVIOUS
<1>8. c \in Seq(Nat) /\ Joins(c, z, r, m, n)
  BY <1>2, <1>4, <1>7, JoinedSeqs
<1>9. PICK d : d = Backwards(b)
  OBVIOUS
<1>10. d \in Seq(Nat) /\ Len(d) = Len(b) /\ \A i \in 1..Len(b) : d[i] = b[Len(b) + 1 - i]
  BY <1>6, <1>9, BackwardsIs
<1>11. Len(b) = n + m /\ Len(c) = m + n
  BY <1>6, <1>8 DEF Joins
<1>12. ASSUME NEW i \in 1..(n + m) PROVE d[i] = c[i]
  <2>0. d[i] = b[n + m + 1 - i]
    BY <1>10, <1>11
  <2>1. PICK j \in 1..(n + m) : j = n + m + 1 - i
    OBVIOUS
  <2>2. CASE i <= m
    <3>1. j > n /\ j - n \in 1..m /\ i \in 1..m
      BY <2>1, <2>2
    <3>2. b[j] = z[j - n] /\ c[i] = z[i]
      BY <1>6, <1>8, <3>1 DEF Joins
    <3>3. QED
      BY <1>2, <2>0, <2>1, <3>1, <3>2
  <2>3. CASE i > m
    <3>1. j \in 1..n /\ i - m \in 1..n /\ n + 1 - (i - m) = j /\ i \in 1..(m + n)
      BY <2>1, <2>3
    <3>2. b[j] = a[j] /\ c[i] = r[i - m]
      BY <1>6, <1>8, <2>3, <3>1 DEF Joins
    <3>3. r[i - m] = a[j]
      BY <1>4, <3>1
    <3>4. QED
      BY <2>0, <2>1, <3>2, <3>3
  <2>4. QED
    BY <2>2, <2>3
<1>13. d = c
  BY <1>8, <1>10, <1>11, <1>12, SeqEqual
<1>14. QED
  BY <1>1, <1>3, <1>5, <1>7, <1>9, <1>13

\* The leading characters '1' can be counted.
LEMMA LeadingOnesIs ==
  ASSUME NEW text \in Seq(Nat)
  PROVE  LeadingOnes(text) \in Nat
<1>1. PICK n \in Nat : n = Len(text)
  OBVIOUS
<1>2. PICK K : K = {k \in DOMAIN text : \A i \in 1..k : text[i] = 0}
  OBVIOUS
<1>3. K \in SUBSET (1..n)
  BY <1>1, <1>2
<1>4. 1 \in Int /\ n \in Int
  OBVIOUS
<1>5. IsFiniteSet(K)
  BY <1>3, <1>4, FS_Interval, FS_Subset
<1>6. QED
  BY <1>2, <1>5, FS_CardinalityType DEF LeadingOnes

\* The decoding, for every text of digits.
LEMMA DecodeIs ==
  ASSUME NEW text \in Seq(Digits), text # <<>>
  PROVE  /\ text \in Seq(Nat) /\ Value(text) \in Nat /\ LeadingOnes(text) \in Nat
         /\ DecodeBase58(text) =
              Zeros(LeadingOnes(text)) \o
              (IF Value(text) = 0 THEN <<0>> ELSE Backwards(BytesOf(Value(text))))
<1>0. text \in Seq(Nat)
  BY DigitsAreNumbers
<1>1. PICK ones \in Nat : ones = LeadingOnes(text)
  BY <1>0, LeadingOnesIs
<1>2. PICK v \in Nat : v = Value(text)
  BY <1>0, AccumulatedStands
<1>3. PICK b : b = Accumulated(text)[Len(text)]
  OBVIOUS
<1>4. PICK q : b \in Seq(Nat) /\ Stands(b, v, q)
  BY <1>0, <1>2, <1>3, AccumulatedStands DEF StandsFor
<1>5. DecodeBase58(text) = Backwards(b \o Zeros(ones))
  <2>1. ~(\E i \in DOMAIN text : text[i] \notin Digits)
    OBVIOUS
  <2>2. QED
    BY <1>1, <1>3, <2>1 DEF DecodeBase58, Zeros
<1>6. DecodeBase58(text) = Zeros(ones) \o Backwards(b)
  BY <1>4, <1>5, BackwardsJoined
<1>7. Backwards(b) = IF v = 0 THEN <<0>> ELSE Backwards(BytesOf(v))
  <2>1. CASE v = 0
    <3>1. b = <<0>>
      BY <1>4, <2>1, StandsForZero
    <3>2. PICK r : r = Backwards(b)
      OBVIOUS
    <3>3. Len(b) = 1 /\ b[1] = 0 /\ 1 \in 1..1
      BY <3>1
    <3>4. r \in Seq(Nat) /\ Len(r) = 1 /\ r[1] = b[1]
      BY <1>4, <3>2, <3>3, BackwardsIs
    <3>5. r = <<0>>
      BY <3>3, <3>4
    <3>6. QED
      BY <2>1, <3>2, <3>5
  <2>2. CASE v # 0
    BY <1>4, <2>2, StandsForBytes
  <2>3. QED
    BY <2>1, <2>2
<1>8. QED
  BY <1>0, <1>1, <1>2, <1>6, <1>7

\* In particular for the short ones that a run goes through.
LEMMA NumberDecoded == DecodesTheNumber
<1> SUFFICES ASSUME NEW text \in TextsOf(Digits, MAX_TEXT + 1) \ {<<>>}
             PROVE  DecodeBase58(text) =
                      Zeros(LeadingOnes(text)) \o
                      (IF Value(text) = 0 THEN <<0>> ELSE Backwards(BytesOf(Value(text))))
  BY DEF DecodesTheNumber
<1>1. text \in Seq(Digits) /\ text # <<>>
  BY TextNumbers, TextIsList
<1>2. QED
  BY <1>1, DecodeIs

-----------------------------------------------------------------------------
(* How long the expansion of a number is *)

Powers(f, n, base) ==
  f \in [0..n -> Nat] /\ f[0] = 1 /\ \A i \in 1..n : f[i] = base * f[i - 1]

\* The recursion of Power has a solution.
LEMMA PowerIs ==
  ASSUME NEW base \in Nat, NEW n \in Nat
  PROVE  \E f : Powers(f, n, base) /\ Power(base, n) = f[n]
<1> DEFINE power == CHOOSE power : power = [i \in 0..n |-> IF i = 0 THEN 1 ELSE base * power[i - 1]]
<1>1. PICK h : h = [p \in (1..n) \X Nat |-> base * p[2]]
  OBVIOUS
<1>2. h \in [(1..n) \X Nat -> Nat]
  BY <1>1
<1>3. PICK f : Iterates(f, n, Nat, 1, h)
  BY <1>2, IterationExists
<1>4. ASSUME NEW i \in 1..n PROVE f[i] = base * f[i - 1]
  <2>1. f[i] = h[<<i, f[i - 1]>>] /\ f[i - 1] \in Nat
    BY <1>3 DEF Iterates
  <2>2. <<i, f[i - 1]>> \in (1..n) \X Nat
    BY <2>1
  <2>3. QED
    BY <1>1, <2>1, <2>2
<1>5. f = [i \in 0..n |-> IF i = 0 THEN 1 ELSE base * f[i - 1]]
  <2>1. f \in [0..n -> Nat] /\ f[0] = 1
    BY <1>3 DEF Iterates
  <2>2. \A i \in 0..n : i # 0 => f[i] = base * f[i - 1]
    <3>1. \A i \in 0..n : i # 0 => i \in 1..n
      OBVIOUS
    <3>2. QED
      BY <1>4, <3>1
  <2>3. QED
    BY <2>1, <2>2
<1>6. power = [i \in 0..n |-> IF i = 0 THEN 1 ELSE base * power[i - 1]]
  BY <1>5
<1>7. Power(base, n) = power[n]
  BY Zenon DEF Power
<1>8. PICK g : Power(base, n) = g[n] /\ g = [i \in 0..n |-> IF i = 0 THEN 1 ELSE base * g[i - 1]]
  <2> HIDE DEF power
  <2>1. QED
    BY <1>6, <1>7
<1>9. g[0] = 1 /\ \A i \in 1..n : g[i] = base * g[i - 1]
  <2>1. 0 \in 0..n /\ \A i \in 1..n : i \in 0..n /\ i # 0
    OBVIOUS
  <2>2. \A i \in 0..n : g[i] = IF i = 0 THEN 1 ELSE base * g[i - 1]
    BY <1>8
  <2>3. QED
    BY <2>1, <2>2
<1>10. PICK S : S = {i \in Nat : i <= n => g[i] \in Nat}
  OBVIOUS
<1>11. S = Nat
  <2>1. 0 \in S /\ S \in SUBSET Nat
    BY <1>9, <1>10
  <2>2. ASSUME NEW i \in S PROVE i + 1 \in S
    <3>1. i \in Nat /\ (i + 1) - 1 = i
      BY <1>10
    <3>2. ASSUME i + 1 <= n PROVE g[i + 1] \in Nat
      <4>1. i + 1 \in 1..n /\ g[i] \in Nat
        BY <1>10, <3>1, <3>2
      <4>2. g[i + 1] = base * g[i]
        BY <1>9, <3>1, <4>1
      <4>3. QED
        BY <4>1, <4>2
    <3>3. QED
      BY <1>10, <3>1, <3>2
  <2>3. QED
    BY <2>1, <2>2, NatSetInduction
<1>12. g \in [0..n -> Nat]
  <2>1. \A i \in 0..n : g[i] \in Nat
    BY <1>10, <1>11
  <2>2. QED
    BY <1>8, <2>1
<1>13. QED
  BY <1>8, <1>9, <1>12 DEF Powers

\* One factor more, whatever the exponent.
LEMMA PowerStep ==
  ASSUME NEW base \in Nat, NEW n \in Nat
  PROVE  /\ Power(base, n) \in Nat /\ Power(base, 0) = 1
         /\ Power(base, n + 1) = base * Power(base, n)
<1>0. n + 1 \in Nat /\ 0 \in Nat
  OBVIOUS
<1>1. PICK f : Powers(f, n, base) /\ Power(base, n) = f[n]
  BY PowerIs
<1>2. PICK g : Powers(g, n + 1, base) /\ Power(base, n + 1) = g[n + 1]
  BY <1>0, PowerIs
<1>3. PICK e : Powers(e, 0, base) /\ Power(base, 0) = e[0]
  BY <1>0, PowerIs
<1>4. PICK S : S = {i \in Nat : i <= n => f[i] = g[i]}
  OBVIOUS
<1>5. S = Nat
  <2>1. 0 \in S /\ S \in SUBSET Nat
    BY <1>1, <1>2, <1>4 DEF Powers
  <2>2. ASSUME NEW i \in S PROVE i + 1 \in S
    <3>1. i \in Nat /\ (i + 1) - 1 = i
      BY <1>4
    <3>2. ASSUME i + 1 <= n PROVE f[i + 1] = g[i + 1]
      <4>1. i + 1 \in 1..n /\ i + 1 \in 1..(n + 1) /\ f[i] = g[i]
        BY <1>4, <3>1, <3>2
      <4>2. f[i + 1] = base * f[i] /\ g[i + 1] = base * g[i]
        BY <1>1, <1>2, <3>1, <4>1 DEF Powers
      <4>3. QED
        BY <4>1, <4>2
    <3>3. QED
      BY <1>4, <3>1, <3>2
  <2>3. QED
    BY <2>1, <2>2, NatSetInduction
<1>6. f[n] = g[n]
  BY <1>4, <1>5
<1>7. g[n + 1] = base * g[n]
  <2>1. n + 1 \in 1..(n + 1) /\ (n + 1) - 1 = n
    OBVIOUS
  <2>2. QED
    BY <1>2, <2>1 DEF Powers
<1>8. f[n] \in Nat /\ e[0] = 1
  BY <1>1, <1>3 DEF Powers
<1>9. QED
  BY <1>1, <1>2, <1>3, <1>6, <1>7, <1>8

\* Products grow with their factors.
LEMMA ProductGrows ==
  ASSUME NEW a \in Nat, NEW b \in Nat, NEW x \in Nat, NEW y \in Nat, a <= b, x <= y
  PROVE  a * x \in Nat /\ b * y \in Nat /\ a * x <= b * y
<1>1. PICK c \in Nat, z \in Nat : b = a + c /\ y = x + z
  <2>1. b - a \in Nat /\ b = a + (b - a) /\ y - x \in Nat /\ y = x + (y - x)
    OBVIOUS
  <2>2. QED
    BY <2>1
<1>2. b * y = a * x + a * z + c * x + c * z
  BY <1>1
<1>3. a * x \in Nat /\ a * z \in Nat /\ c * x \in Nat /\ c * z \in Nat
  OBVIOUS
<1>4. QED
  BY <1>2, <1>3

\* Powers grow with the exponent.
LEMMA PowersGrow ==
  ASSUME NEW base \in Nat, base >= 1, NEW m \in Nat, NEW n \in Nat, m <= n
  PROVE  Power(base, m) >= 1 /\ Power(base, m) <= Power(base, n)
<1>0. \A k \in Nat : Power(base, k) \in Nat /\ Power(base, 0) = 1
                     /\ Power(base, k + 1) = base * Power(base, k)
  BY PowerStep
<1>1. ASSUME NEW k \in Nat PROVE Power(base, k) <= Power(base, k + 1)
  <2>1. PICK x \in Nat : x = Power(base, k)
    BY <1>0
  <2>2. 1 * x <= base * x /\ 1 * x = x
    BY ProductGrows
  <2>3. QED
    BY <1>0, <2>1, <2>2
<1>2. PICK S : S = {k \in Nat : Power(base, k) >= 1}
  OBVIOUS
<1>3. S = Nat
  <2>1. 0 \in S /\ S \in SUBSET Nat
    BY <1>0, <1>2
  <2>2. ASSUME NEW k \in S PROVE k + 1 \in S
    <3>1. k \in Nat /\ k + 1 \in Nat /\ Power(base, k) >= 1
      BY <1>2
    <3>2. Power(base, k) \in Nat /\ Power(base, k + 1) \in Nat /\ Power(base, k) <= Power(base, k + 1)
      BY <1>0, <1>1, <3>1
    <3>3. QED
      BY <1>2, <3>1, <3>2
  <2>3. QED
    BY <2>1, <2>2, NatSetInduction
<1>4. PICK T : T = {d \in Nat : Power(base, m) <= Power(base, m + d)}
  OBVIOUS
<1>5. T = Nat
  <2>1. 0 \in T /\ T \in SUBSET Nat
    <3>1. m + 0 = m /\ Power(base, m) <= Power(base, m)
      BY <1>0
    <3>2. QED
      BY <1>4, <3>1
  <2>2. ASSUME NEW d \in T PROVE d + 1 \in T
    <3>1. d \in Nat /\ m + d \in Nat /\ m + (d + 1) = (m + d) + 1 /\ (m + d) + 1 \in Nat
          /\ Power(base, m) <= Power(base, m + d)
      BY <1>4
    <3>2. Power(base, m) \in Nat /\ Power(base, m + d) \in Nat /\ Power(base, (m + d) + 1) \in Nat
          /\ Power(base, m + d) <= Power(base, (m + d) + 1)
      BY <1>0, <1>1, <3>1
    <3>3. QED
      BY <1>4, <3>1, <3>2
  <2>3. QED
    BY <2>1, <2>2, NatSetInduction
<1>6. m \in S /\ n - m \in T /\ m + (n - m) = n
  BY <1>3, <1>5
<1>7. QED
  BY <1>2, <1>4, <1>6

\* Powers grow with the base.
LEMMA LargerBase ==
  ASSUME NEW a \in Nat, NEW b \in Nat, a <= b, NEW n \in Nat
  PROVE  Power(a, n) <= Power(b, n)
<1>0. \A k \in Nat : /\ Power(a, k) \in Nat /\ Power(b, k) \in Nat
                     /\ Power(a, k + 1) = a * Power(a, k) /\ Power(b, k + 1) = b * Power(b, k)
  BY PowerStep
<1>1. Power(a, 0) = 1 /\ Power(b, 0) = 1
  BY PowerStep
<1>2. PICK S : S = {k \in Nat : Power(a, k) <= Power(b, k)}
  OBVIOUS
<1>3. S = Nat
  <2>1. 0 \in S /\ S \in SUBSET Nat
    BY <1>1, <1>2
  <2>2. ASSUME NEW k \in S PROVE k + 1 \in S
    <3>1. k \in Nat /\ k + 1 \in Nat
      BY <1>2
    <3>2. PICK x \in Nat, y \in Nat : x = Power(a, k) /\ y = Power(b, k) /\ x <= y
      BY <1>0, <1>2, <3>1
    <3>3. a * x <= b * y
      BY <3>2, ProductGrows
    <3>4. QED
      BY <1>0, <1>2, <3>1, <3>2, <3>3
  <2>3. QED
    BY <2>1, <2>2, NatSetInduction
<1>4. QED
  BY <1>2, <1>3

\* The number of digits bounds the number from above; a full expansion bounds it from below.
LEMMA ExpansionBounds ==
  ASSUME NEW base \in Nat, base >= 2, NEW b \in Seq(Nat), NEW v, NEW q, Expands(b, v, base, q)
  PROVE  /\ v \in Nat /\ v < Power(base, Len(b))
         /\ Full(b, q) /\ Len(b) >= 1 => v >= Power(base, Len(b) - 1)
<1>0. PICK n \in Nat : n = Len(b)
  OBVIOUS
<1>1. /\ \A i \in 0..n : q[i] \in Nat
      /\ q[0] = v /\ q[n] = 0
      /\ \A i \in 1..n : b[i] \in 0..(base - 1) /\ q[i - 1] = base * q[i] + b[i]
  BY <1>0 DEF Expands
<1>2. /\ Power(base, 0) = 1
      /\ \A k \in Nat : Power(base, k) \in Nat /\ Power(base, k + 1) = base * Power(base, k)
  BY PowerStep
<1>3. PICK S : S = {j \in Nat : j <= n => q[n - j] < Power(base, j)}
  OBVIOUS
<1>4. S = Nat
  <2>1. 0 \in S /\ S \in SUBSET Nat
    <3>1. n - 0 = n
      OBVIOUS
    <3>2. q[n - 0] = 0 /\ 0 < Power(base, 0)
      BY <1>1, <1>2, <3>1
    <3>3. QED
      BY <1>3, <3>2
  <2>2. ASSUME NEW j \in S PROVE j + 1 \in S
    <3>1. j \in Nat /\ j + 1 \in Nat
      BY <1>3
    <3>2. ASSUME j + 1 <= n PROVE q[n - (j + 1)] < Power(base, j + 1)
      <4>1. j <= n /\ n - j \in 1..n /\ n - j \in 0..n /\ n - (j + 1) = (n - j) - 1
        BY <3>1, <3>2
      <4>2. PICK x \in Nat, p \in Nat, d \in 0..(base - 1) :
              x = q[n - j] /\ p = Power(base, j) /\ d = b[n - j] /\ x < p
        BY <1>1, <1>2, <1>3, <3>1, <4>1
      <4>3. q[n - (j + 1)] = base * x + d /\ Power(base, j + 1) = base * p
        BY <1>1, <1>2, <3>1, <4>1, <4>2
      <4>4. base * (x + 1) <= base * p /\ base * (x + 1) = base * x + base
        <5>1. x + 1 \in Nat /\ x + 1 <= p /\ base <= base
          BY <4>2
        <5>2. base * (x + 1) <= base * p
          BY <5>1, ProductGrows
        <5>3. base * (x + 1) = base * x + base
          OBVIOUS
        <5>4. QED
          BY <5>2, <5>3
      <4>5. base * x \in Nat /\ base * p \in Nat
        OBVIOUS
      <4>6. base * x + d < base * p
        BY <4>4, <4>5
      <4>7. QED
        BY <4>3, <4>6
    <3>3. QED
      BY <1>3, <3>1, <3>2
  <2>3. QED
    BY <2>1, <2>2, NatSetInduction
<1>5. v \in Nat /\ v < Power(base, n)
  <2>1. n \in S /\ n - n = 0 /\ 0 \in 0..n
    BY <1>4
  <2>2. QED
    BY <1>1, <1>3, <2>1
<1>6. ASSUME Full(b, q), n >= 1 PROVE v >= Power(base, n - 1)
  <2>1. PICK T : T = {j \in Nat : j <= n - 1 => q[n - 1 - j] >= Power(base, j)}
    OBVIOUS
  <2>2. T = Nat
    <3>1. 0 \in T /\ T \in SUBSET Nat
      <4>1. n - 1 - 0 = n - 1 /\ n - 1 \in 0..(n - 1) /\ n - 1 \in 0..n
        BY <1>6
      <4>2. q[n - 1] # 0 /\ q[n - 1] \in Nat
        BY <1>0, <1>1, <1>6, <4>1 DEF Full
      <4>3. q[n - 1] >= 1
        BY <4>2
      <4>4. QED
        BY <1>2, <2>1, <4>1, <4>3
    <3>2. ASSUME NEW j \in T PROVE j + 1 \in T
      <4>1. j \in Nat /\ j + 1 \in Nat
        BY <2>1
      <4>2. ASSUME j + 1 <= n - 1 PROVE q[n - 1 - (j + 1)] >= Power(base, j + 1)
        <5>1. j <= n - 1 /\ n - 1 - j \in 1..n /\ n - 1 - j \in 0..n
              /\ n - 1 - (j + 1) = (n - 1 - j) - 1
          BY <4>1, <4>2
        <5>2. PICK x \in Nat, p \in Nat, d \in 0..(base - 1) :
                x = q[n - 1 - j] /\ p = Power(base, j) /\ d = b[n - 1 - j] /\ p <= x
          BY <1>1, <1>2, <2>1, <4>1, <5>1
        <5>3. q[n - 1 - (j + 1)] = base * x + d /\ Power(base, j + 1) = base * p
          BY <1>1, <1>2, <4>1, <5>1, <5>2
        <5>4. base * p <= base * x
          <6>1. base <= base /\ p <= x
            BY <5>2
          <6>2. QED
            BY <6>1, ProductGrows
        <5>5. base * x \in Nat /\ base * p \in Nat
          OBVIOUS
        <5>6. base * x + d >= base * p
          BY <5>4, <5>5
        <5>7. QED
          BY <5>3, <5>6
      <4>3. QED
        BY <2>1, <4>1, <4>2
    <3>3. QED
      BY <3>1, <3>2, NatSetInduction
  <2>3. n - 1 \in T /\ n - 1 - (n - 1) = 0
    BY <1>6, <2>2
  <2>4. QED
    BY <1>1, <2>1, <2>3
<1>7. QED
  BY <1>0, <1>5, <1>6

\* Behind any number of leading zeros the limit on the length leaves room for every key.
LEMMA LimitsFit ==
  ASSUME NEW z \in 0..KEY_BYTES
  PROVE  z <= MAX_TEXT /\ Power(BYTE, KEY_BYTES - z) <= Power(RADIX, MAX_TEXT - z)
<1>1. PICK S : S = {z0 \in Nat : z0 <= KEY_BYTES =>
                      z0 <= MAX_TEXT /\ Power(BYTE, KEY_BYTES - z0) <= Power(RADIX, MAX_TEXT - z0)}
  OBVIOUS
<1>2. \A k \in Nat : /\ Power(RADIX, k) \in Nat /\ Power(BYTE, k) \in Nat
                     /\ Power(RADIX, k + 1) = RADIX * Power(RADIX, k)
                     /\ Power(BYTE, k + 1) = BYTE * Power(BYTE, k)
  BY TextNumbers, PowerStep
<1>3. Power(RADIX, 0) = 1 /\ \A k \in Nat : Power(BYTE, k) >= 1
  <2>1. BYTE >= 1
    BY TextNumbers
  <2>2. \A k \in Nat : Power(BYTE, k) >= 1
    BY <2>1, TextNumbers, PowersGrow
  <2>3. QED
    BY <2>2, TextNumbers, PowerStep
<1>4. S = Nat
  <2>1. 0 \in S /\ S \in SUBSET Nat
    <3>1. KEY_BYTES - 0 = KEY_BYTES /\ MAX_TEXT - 0 = MAX_TEXT /\ 0 <= MAX_TEXT
      BY TextNumbers
    <3>2. Power(BYTE, KEY_BYTES) <= Power(RADIX, MAX_TEXT)
      <4>1. Power(RADIX, MAX_TEXT) >= Power(BYTE, KEY_BYTES)
        BY Base58Assumption
      <4>2. QED
        BY <1>2, <4>1, TextNumbers
    <3>3. QED
      BY <1>1, <3>1, <3>2
  <2>2. ASSUME NEW i \in S PROVE i + 1 \in S
    <3>1. i \in Nat /\ i + 1 \in Nat
      BY <1>1
    <3>2. ASSUME i + 1 <= KEY_BYTES
          PROVE  i + 1 <= MAX_TEXT /\ Power(BYTE, KEY_BYTES - (i + 1)) <= Power(RADIX, MAX_TEXT - (i + 1))
      <4>1. PICK k \in Nat : k = KEY_BYTES - (i + 1) /\ KEY_BYTES - i = k + 1
        <5>1. KEY_BYTES - (i + 1) \in Nat /\ KEY_BYTES - i = (KEY_BYTES - (i + 1)) + 1
          BY <3>1, <3>2, TextNumbers
        <5>2. QED
          BY <5>1
      <4>2. i <= MAX_TEXT /\ Power(BYTE, k + 1) <= Power(RADIX, MAX_TEXT - i)
        BY <1>1, <3>1, <3>2, <4>1, TextNumbers
      <4>3. PICK x \in Nat : x = Power(BYTE, k) /\ x >= 1 /\ Power(BYTE, k + 1) = BYTE * x
        BY <1>2, <1>3
      <4>4. 2 * 1 <= BYTE * x /\ RADIX * x <= BYTE * x /\ BYTE * x \in Nat
        <5>1. 2 <= BYTE /\ RADIX <= BYTE /\ x <= x
          BY TextNumbers
        <5>2. QED
          BY <4>3, <5>1, ProductGrows, TextNumbers
      <4>5. i + 1 <= MAX_TEXT
        <5>1. i # MAX_TEXT
          <6> SUFFICES ASSUME i = MAX_TEXT PROVE FALSE
            OBVIOUS
          <6>1. MAX_TEXT - i = 0
            BY <3>1
          <6>2. BYTE * x <= 1
            BY <1>3, <4>2, <4>3, <6>1
          <6>3. QED
            BY <4>4, <6>2
        <5>2. QED
          BY <3>1, <4>2, <5>1, TextNumbers
      <4>6. PICK l \in Nat : l = MAX_TEXT - (i + 1) /\ MAX_TEXT - i = l + 1
        <5>1. MAX_TEXT - (i + 1) \in Nat /\ MAX_TEXT - i = (MAX_TEXT - (i + 1)) + 1
          BY <3>1, <4>5, TextNumbers
        <5>2. QED
          BY <5>1
      <4>7. PICK y \in Nat : y = Power(RADIX, l) /\ Power(RADIX, l + 1) = RADIX * y
        BY <1>2
      <4>8. RADIX * x <= RADIX * y
        <5>1. BYTE * x <= RADIX * y /\ RADIX * x \in Nat /\ RADIX * y \in Nat
          BY <4>2, <4>3, <4>6, <4>7, TextNumbers
        <5>2. QED
          BY <4>4, <5>1
      <4>9. x <= y
        <5> SUFFICES ASSUME y < x PROVE FALSE
          OBVIOUS
        <5>1. RADIX * (y + 1) <= RADIX * x /\ RADIX * (y + 1) = RADIX * y + RADIX
          <6>1. y + 1 \in Nat /\ y + 1 <= x /\ RADIX <= RADIX
            BY TextNumbers
          <6>2. RADIX * (y + 1) <= RADIX * x
            BY <6>1, ProductGrows, TextNumbers
          <6>3. RADIX * (y + 1) = RADIX * y + RADIX
            BY TextNumbers
          <6>4. QED
            BY <6>2, <6>3
        <5>2. RADIX * y \in Nat /\ RADIX * x \in Nat
          BY TextNumbers
        <5>3. QED
          BY <4>8, <5>1, <5>2, TextNumbers
      <4>10. QED
        BY <4>1, <4>3, <4>5, <4>6, <4>7, <4>9
    <3>3. QED
      BY <1>1, <3>1, <3>2
  <2>3. QED
    BY <2>1, <2>2, NatSetInduction
<1>5. z \in S /\ z <= KEY_BYTES
  BY <1>4, TextNumbers
<1>6. QED
  BY <1>1, <1>5

-----------------------------------------------------------------------------
(* Leading zeros and a number: what a text and a key both are *)

\* s is p zeros and then the digits of v, the highest first; d are these, the lowest first.
Splits(s, p, d, v, base) ==
  /\ p \in Nat /\ d \in Seq(Nat) /\ v \in Nat /\ v # 0
  /\ s = Zeros(p) \o Backwards(d)
  /\ \E q : Expands(d, v, base, q) /\ Full(d, q)

\* What such a sequence is, place by place.
SplitAt(s, p, d, n) ==
  /\ Len(s) = p + n
  /\ \A i \in 1..p : s[i] = 0
  /\ \A i \in 1..n : s[p + i] = d[n + 1 - i]
  /\ n >= 1 /\ d[n] # 0

\* What stands where in such a sequence.
LEMMA SplitIs ==
  ASSUME NEW base \in Nat, base >= 2, NEW s, NEW p, NEW d, NEW v, Splits(s, p, d, v, base)
  PROVE  s \in Seq(Nat) /\ SplitAt(s, p, d, Len(d))
<1>0. /\ p \in Nat /\ d \in Seq(Nat) /\ v \in Nat /\ v # 0
      /\ s = Zeros(p) \o Backwards(d)
  BY DEF Splits
<1>1. PICK n \in Nat : n = Len(d)
  BY <1>0
<1>2. PICK q : Expands(d, v, base, q) /\ Full(d, q)
  BY DEF Splits
<1>3. PICK z, r : z = Zeros(p) /\ r = Backwards(d)
  OBVIOUS
<1>4. z \in Seq(Nat) /\ Len(z) = p /\ \A i \in 1..p : z[i] = 0
  BY <1>0, <1>3, ZerosAre
<1>5. r \in Seq(Nat) /\ Len(r) = n /\ \A i \in 1..n : r[i] = d[n + 1 - i]
  BY <1>0, <1>1, <1>3, BackwardsIs
<1>6. s = z \o r
  BY <1>0, <1>3
<1>7. s \in Seq(Nat) /\ Joins(s, z, r, p, n)
  BY <1>4, <1>5, <1>6, JoinedSeqs
<1>8. ASSUME NEW i \in 1..n PROVE s[p + i] = d[n + 1 - i]
  <2>1. p + i \in 1..(p + n) /\ p + i > p /\ (p + i) - p = i
    BY <1>0
  <2>2. s[p + i] = r[(p + i) - p]
    BY <1>7, <2>1 DEF Joins
  <2>3. QED
    BY <1>5, <2>1, <2>2
<1>9. n >= 1 /\ d[n] # 0
  <2>1. /\ \A i \in 0..n : q[i] \in Nat
        /\ q[0] = v /\ q[n] = 0
        /\ \A i \in 1..n : d[i] \in 0..(base - 1) /\ q[i - 1] = base * q[i] + d[i]
        /\ \A i \in 0..(n - 1) : q[i] # 0
    BY <1>1, <1>2 DEF Expands, Full
  <2>2. n # 0
    BY <1>0, <2>1
  <2>3. n \in 1..n /\ n - 1 \in 0..(n - 1)
    BY <2>2
  <2>4. q[n - 1] = base * 0 + d[n] /\ q[n - 1] # 0 /\ d[n] \in 0..(base - 1)
    BY <2>1, <2>3
  <2>5. base * 0 = 0
    OBVIOUS
  <2>6. QED
    BY <2>2, <2>4, <2>5
<1>10. QED
  BY <1>1, <1>4, <1>7, <1>8, <1>9 DEF Joins, SplitAt

\* A sequence splits in one way only.
LEMMA SplitsOnce ==
  ASSUME NEW b1 \in Nat, b1 >= 2, NEW b2 \in Nat, b2 >= 2, NEW s,
         NEW p, NEW d, NEW v, NEW o, NEW e, NEW w,
         Splits(s, p, d, v, b1), Splits(s, o, e, w, b2)
  PROVE  p = o /\ d = e
<1>1. p \in Nat /\ d \in Seq(Nat) /\ o \in Nat /\ e \in Seq(Nat)
  BY DEF Splits
<1>2. PICK n \in Nat, m \in Nat : n = Len(d) /\ m = Len(e)
  BY <1>1
<1>3. SplitAt(s, p, d, n) /\ SplitAt(s, o, e, m)
  BY <1>2, SplitIs
<1>4. ASSUME NEW a \in Nat, NEW b \in Nat, NEW x, NEW y, NEW k \in Nat, NEW l \in Nat,
             SplitAt(s, a, x, k), SplitAt(s, b, y, l)
      PROVE  ~(a < b)
  <2>1. 1 \in 1..k /\ k + 1 - 1 = k
    BY <1>4 DEF SplitAt
  <2>2. s[a + 1] # 0
    BY <1>4, <2>1 DEF SplitAt
  <2>3. a < b => a + 1 \in 1..b
    OBVIOUS
  <2>4. QED
    BY <1>4, <2>2, <2>3 DEF SplitAt
<1>5. ~(p < o) /\ ~(o < p)
  BY <1>1, <1>3, <1>4
<1>6. p = o
  BY <1>1, <1>5
<1>7. n = m
  <2>1. Len(s) = p + n /\ Len(s) = o + m
    BY <1>3 DEF SplitAt
  <2>2. QED
    BY <1>1, <1>6, <2>1
<1>8. ASSUME NEW i \in 1..n PROVE d[i] = e[i]
  <2>1. n + 1 - i \in 1..n /\ n + 1 - (n + 1 - i) = i
    OBVIOUS
  <2>2. s[p + (n + 1 - i)] = d[n + 1 - (n + 1 - i)] /\ s[o + (m + 1 - i)] = e[m + 1 - (m + 1 - i)]
    BY <1>3, <1>7, <2>1 DEF SplitAt
  <2>3. QED
    BY <1>6, <1>7, <2>1, <2>2
<1>9. d = e
  BY <1>1, <1>2, <1>7, <1>8, SeqEqual
<1>10. QED
  BY <1>6, <1>9

\* The digits say the number.
LEMMA OneNumber ==
  ASSUME NEW base \in Nat, base >= 2, NEW b \in Seq(Nat), NEW v, NEW q, NEW w, NEW p,
         Expands(b, v, base, q), Expands(b, w, base, p)
  PROVE  v = w
<1>0. PICK n \in Nat : n = Len(b)
  OBVIOUS
<1>1. /\ q[0] = v /\ q[n] = 0 /\ p[0] = w /\ p[n] = 0
      /\ \A i \in 1..n : q[i - 1] = base * q[i] + b[i]
      /\ \A i \in 1..n : p[i - 1] = base * p[i] + b[i]
  BY <1>0 DEF Expands
<1>2. PICK S : S = {j \in Nat : j <= n => q[n - j] = p[n - j]}
  OBVIOUS
<1>3. S = Nat
  <2>1. 0 \in S /\ S \in SUBSET Nat
    <3>1. n - 0 = n
      OBVIOUS
    <3>2. QED
      BY <1>1, <1>2, <3>1
  <2>2. ASSUME NEW j \in S PROVE j + 1 \in S
    <3>1. j \in Nat /\ j + 1 \in Nat
      BY <1>2
    <3>2. ASSUME j + 1 <= n PROVE q[n - (j + 1)] = p[n - (j + 1)]
      <4>1. j <= n /\ n - j \in 1..n /\ n - (j + 1) = (n - j) - 1
        BY <3>1, <3>2
      <4>2. q[n - j] = p[n - j]
        BY <1>2, <3>1, <4>1
      <4>3. QED
        BY <1>1, <4>1, <4>2
    <3>3. QED
      BY <1>2, <3>1, <3>2
  <2>3. QED
    BY <2>1, <2>2, NatSetInduction
<1>4. n \in S /\ n - n = 0
  BY <1>3
<1>5. QED
  BY <1>1, <1>2, <1>4

\* Every sequence of digits with one that is not 0 splits.
LEMMA SplitExists ==
  ASSUME NEW base \in Nat, base >= 2, NEW s \in Seq(Nat),
         \A i \in 1..Len(s) : s[i] \in 0..(base - 1),
         \E i \in 1..Len(s) : s[i] # 0
  PROVE  \E p, d, v : Splits(s, p, d, v, base)
<1>0. PICK n \in Nat : n = Len(s)
  OBVIOUS
<1>1. PICK E : E = {i \in 1..n : s[i] # 0}
  OBVIOUS
<1>2. E # {} /\ E \in SUBSET Nat
  BY <1>0, <1>1
<1>3. PICK k \in E : \A l \in E : k <= l
  BY <1>2, LeastOf
<1>4. k \in 1..n /\ s[k] # 0
  BY <1>1
<1>5. PICK p \in Nat, m \in Nat : k = p + 1 /\ n = p + m /\ m >= 1
  <2>1. k - 1 \in Nat /\ n - (k - 1) \in Nat /\ k = (k - 1) + 1 /\ n = (k - 1) + (n - (k - 1))
        /\ n - (k - 1) >= 1
    BY <1>4
  <2>2. QED
    BY <2>1
<1>6. ASSUME NEW i \in 1..p PROVE s[i] = 0
  <2>1. i \in 1..n /\ i < k
    BY <1>5
  <2>2. i \notin E
    BY <1>3, <1>4, <2>1
  <2>3. QED
    BY <1>1, <2>1, <2>2
<1>7. ASSUME NEW i \in 1..m PROVE s[p + i] \in 0..(base - 1) /\ s[p + i] \in Nat
  <2>1. p + i \in 1..n
    BY <1>5
  <2>2. QED
    BY <1>0, <2>1
<1>8. PICK h : h = [x \in (1..m) \X Nat |-> base * x[2] + s[p + x[1]]]
  OBVIOUS
<1>9. h \in [(1..m) \X Nat -> Nat]
  <2>1. PICK c : c = [i \in 1..m |-> s[p + i]]
    OBVIOUS
  <2>2. \A i \in 1..m : c[i] \in Nat /\ c[i] = s[p + i]
    BY <1>7, <2>1
  <2>3. \A x \in Nat, y \in Nat : base * x + y \in Nat
    OBVIOUS
  <2>4. h = [x \in (1..m) \X Nat |-> base * x[2] + c[x[1]]]
    BY <1>8, <2>2
  <2>5. QED
    BY <2>2, <2>3, <2>4
<1>10. PICK f : Iterates(f, m, Nat, 0, h)
  BY <1>9, IterationExists
<1>11. f \in [0..m -> Nat] /\ f[0] = 0
  BY <1>10 DEF Iterates
<1>12. ASSUME NEW i \in 1..m PROVE f[i] = base * f[i - 1] + s[p + i]
  <2>1. f[i] = h[<<i, f[i - 1]>>] /\ f[i - 1] \in Nat
    BY <1>10 DEF Iterates
  <2>2. <<i, f[i - 1]>> \in (1..m) \X Nat
    BY <2>1
  <2>3. QED
    BY <1>8, <2>1, <2>2
<1>13. PICK S : S = {i \in Nat : i + 1 <= m => f[i + 1] # 0}
  OBVIOUS
<1>14. S = Nat
  <2>1. 0 \in S /\ S \in SUBSET Nat
    <3>1. 0 + 1 = 1 /\ 1 \in 1..m /\ 1 - 1 = 0 /\ p + 1 = k
      BY <1>5
    <3>2. f[1] = base * 0 + s[p + 1]
      BY <1>11, <1>12, <3>1
    <3>3. base * 0 = 0 /\ s[p + 1] \in Nat
      BY <1>7, <3>1
    <3>4. f[0 + 1] # 0
      BY <1>4, <3>1, <3>2, <3>3
    <3>5. QED
      BY <1>13, <3>4
  <2>2. ASSUME NEW i \in S PROVE i + 1 \in S
    <3>1. i \in Nat /\ i + 1 \in Nat
      BY <1>13
    <3>2. ASSUME (i + 1) + 1 <= m PROVE f[(i + 1) + 1] # 0
      <4>1. (i + 1) + 1 \in 1..m /\ ((i + 1) + 1) - 1 = i + 1 /\ i + 1 <= m /\ i + 1 \in 0..m
        BY <3>1, <3>2
      <4>2. PICK x \in Nat, c \in Nat : x = f[i + 1] /\ c = s[p + ((i + 1) + 1)] /\ x # 0
        BY <1>7, <1>11, <1>13, <3>1, <4>1
      <4>3. f[(i + 1) + 1] = base * x + c
        BY <1>12, <4>1, <4>2
      <4>4. base * x >= 1 /\ base * x \in Nat
        <5>1. 1 <= base /\ 1 <= x
          BY <4>2
        <5>2. 1 * 1 <= base * x /\ base * x \in Nat
          BY <5>1, ProductGrows
        <5>3. QED
          BY <5>2
      <4>5. QED
        BY <4>3, <4>4
    <3>3. QED
      BY <1>13, <3>1, <3>2
  <2>3. QED
    BY <2>1, <2>2, NatSetInduction
<1>15. ASSUME NEW i \in 1..m PROVE f[i] # 0
  <2>1. i - 1 \in S /\ (i - 1) + 1 = i
    BY <1>14
  <2>2. QED
    BY <1>13, <2>1
<1>16. PICK d : d = [i \in 1..m |-> s[n + 1 - i]]
  OBVIOUS
<1>17. ASSUME NEW i \in 1..m PROVE d[i] = s[p + (m + 1 - i)] /\ d[i] \in 0..(base - 1) /\ d[i] \in Nat
  <2>1. m + 1 - i \in 1..m /\ p + (m + 1 - i) = n + 1 - i
    BY <1>5
  <2>2. QED
    BY <1>7, <1>16, <2>1
<1>18. d \in Seq(Nat) /\ Len(d) = m
  <2>1. d \in [1..m -> Nat]
    BY <1>16, <1>17
  <2>2. QED
    BY <2>1
<1>19. PICK q : q = [i \in 0..m |-> f[m - i]]
  OBVIOUS
<1>20. ASSUME NEW i \in 0..m PROVE q[i] = f[m - i] /\ q[i] \in Nat
  <2>1. m - i \in 0..m
    OBVIOUS
  <2>2. QED
    BY <1>11, <1>19, <2>1
<1>21. ASSUME NEW i \in 1..m PROVE q[i - 1] = base * q[i] + d[i]
  <2>1. i - 1 \in 0..m /\ i \in 0..m /\ m - (i - 1) = m + 1 - i /\ m + 1 - i \in 1..m
        /\ (m + 1 - i) - 1 = m - i
    OBVIOUS
  <2>2. q[i - 1] = f[m + 1 - i] /\ q[i] = f[m - i]
    BY <1>20, <2>1
  <2>3. f[m + 1 - i] = base * f[m - i] + s[p + (m + 1 - i)]
    BY <1>12, <2>1
  <2>4. QED
    BY <1>17, <2>2, <2>3
<1>22. PICK v \in Nat : v = f[m] /\ v # 0
  <2>1. m \in 1..m /\ m \in 0..m
    BY <1>5
  <2>2. QED
    BY <1>11, <1>15, <2>1
<1>23. Expands(d, v, base, q)
  <2>1. q \in [0..m -> Nat]
    BY <1>19, <1>20
  <2>2. 0 \in 0..m /\ m \in 0..m /\ m - 0 = m /\ m - m = 0
    OBVIOUS
  <2>3. q[0] = v /\ q[m] = 0
    BY <1>11, <1>20, <1>22, <2>2
  <2>4. QED
    BY <1>17, <1>18, <1>21, <2>1, <2>3 DEF Expands
<1>24. Full(d, q)
  <2>1. ASSUME NEW i \in 0..(m - 1) PROVE q[i] # 0
    <3>1. i \in 0..m /\ m - i \in 1..m
      OBVIOUS
    <3>2. QED
      BY <1>15, <1>20, <3>1
  <2>2. QED
    BY <1>18, <2>1 DEF Full
<1>25. s = Zeros(p) \o Backwards(d)
  <2>1. PICK z, r : z = Zeros(p) /\ r = Backwards(d)
    OBVIOUS
  <2>2. z \in Seq(Nat) /\ Len(z) = p /\ \A i \in 1..p : z[i] = 0
    BY <2>1, ZerosAre
  <2>3. r \in Seq(Nat) /\ Len(r) = m /\ \A i \in 1..m : r[i] = d[m + 1 - i]
    BY <1>18, <2>1, BackwardsIs
  <2>4. PICK t : t = z \o r
    OBVIOUS
  <2>5. t \in Seq(Nat) /\ Joins(t, z, r, p, m)
    BY <2>2, <2>3, <2>4, JoinedSeqs
  <2>6. Len(t) = n
    BY <1>5, <2>5 DEF Joins
  <2>7. ASSUME NEW i \in 1..n PROVE s[i] = t[i]
    <3>1. CASE i <= p
      <4>1. i \in 1..p
        BY <3>1
      <4>2. t[i] = z[i]
        BY <2>5, <4>1 DEF Joins
      <4>3. QED
        BY <1>6, <2>2, <4>1, <4>2
    <3>2. CASE i > p
      <4>1. PICK j \in 1..m : j = i - p /\ i = p + j
        <5>1. i - p \in 1..m /\ i = p + (i - p)
          BY <1>5, <3>2
        <5>2. QED
          BY <5>1
      <4>2. m + 1 - j \in 1..m /\ m + 1 - (m + 1 - j) = j /\ i \in 1..(p + m)
        BY <1>5
      <4>3. t[i] = r[j]
        BY <2>5, <3>2, <4>1, <4>2 DEF Joins
      <4>4. r[j] = d[m + 1 - j]
        BY <2>3
      <4>5. d[m + 1 - j] = s[p + j]
        BY <1>17, <4>2
      <4>6. QED
        BY <4>1, <4>3, <4>4, <4>5
    <3>3. QED
      BY <3>1, <3>2
  <2>8. s = t
    BY <1>0, <2>5, <2>6, <2>7, SeqEqual
  <2>9. QED
    BY <2>1, <2>4, <2>8
<1>26. Splits(s, p, d, v, base)
  BY <1>18, <1>22, <1>23, <1>24, <1>25 DEF Splits
<1>27. QED
  BY <1>26

\* A text of zeros is the number 0.
LEMMA ZeroValue ==
  ASSUME NEW text \in Seq(Nat), NEW p \in Nat, p <= Len(text), \A i \in 1..p : text[i] = 0
  PROVE  Values(text)[p] = 0
<1>0. PICK n, w : n \in Nat /\ n = Len(text) /\ w = Values(text)
  OBVIOUS
<1>1. w[0] = 0 /\ \A i \in 1..n : w[i] = w[i - 1] * RADIX + text[i]
  BY <1>0, ValuesIs DEF Worths
<1>2. PICK S : S = {i \in Nat : i <= p => w[i] = 0}
  OBVIOUS
<1>3. S = Nat
  <2>1. 0 \in S /\ S \in SUBSET Nat
    BY <1>1, <1>2
  <2>2. ASSUME NEW i \in S PROVE i + 1 \in S
    <3>1. i \in Nat /\ (i + 1) - 1 = i
      BY <1>2
    <3>2. ASSUME i + 1 <= p PROVE w[i + 1] = 0
      <4>1. i + 1 \in 1..n /\ i + 1 \in 1..p /\ w[i] = 0
        BY <1>0, <1>2, <3>1, <3>2
      <4>2. w[i + 1] = 0 * RADIX + 0
        BY <1>1, <3>1, <4>1
      <4>3. QED
        BY <4>2, TextNumbers
    <3>3. QED
      BY <1>2, <3>1, <3>2
  <2>3. QED
    BY <2>1, <2>2, NatSetInduction
<1>4. QED
  BY <1>0, <1>2, <1>3

\* The text of a number decodes to the bytes of the number.
LEMMA TextDecodes ==
  ASSUME NEW text \in Seq(Digits), NEW p, NEW d, NEW v, Splits(text, p, d, v, RADIX)
  PROVE  text # <<>> /\ Splits(DecodeBase58(text), p, BytesOf(v), v, BYTE)
<1>0. p \in Nat /\ d \in Seq(Nat) /\ v \in Nat /\ v # 0
  BY DEF Splits
<1>1. PICK n \in Nat : n = Len(d)
  BY <1>0
<1>2. PICK q : Expands(d, v, RADIX, q)
  BY DEF Splits
<1>3. /\ text \in Seq(Nat) /\ Len(text) = p + n
      /\ \A i \in 1..p : text[i] = 0
      /\ \A i \in 1..n : text[p + i] = d[n + 1 - i]
      /\ n >= 1 /\ d[n] # 0
  BY <1>1, SplitIs, TextNumbers DEF SplitAt
<1>4. text # <<>>
  BY <1>0, <1>3
<1>5. Value(text) = v
  <2>1. PICK w : w = Values(text)
    OBVIOUS
  <2>2. \A i \in 1..(p + n) : w[i] = w[i - 1] * RADIX + text[i]
    BY <1>3, <2>1, ValuesIs DEF Worths
  <2>3. w[p] = 0
    <3>1. p <= Len(text)
      BY <1>0, <1>3
    <3>2. QED
      BY <1>0, <1>3, <2>1, <3>1, ZeroValue
  <2>4. /\ q[0] = v /\ q[n] = 0
        /\ \A i \in 0..n : q[i] \in Nat
        /\ \A i \in 1..n : q[i - 1] = RADIX * q[i] + d[i]
    BY <1>1, <1>2 DEF Expands
  <2>5. PICK S : S = {j \in Nat : j <= n => w[p + j] = q[n - j]}
    OBVIOUS
  <2>6. S = Nat
    <3>1. 0 \in S /\ S \in SUBSET Nat
      <4>1. p + 0 = p /\ n - 0 = n
        BY <1>0
      <4>2. w[p + 0] = q[n - 0]
        BY <2>3, <2>4, <4>1
      <4>3. QED
        BY <2>5, <4>2
    <3>2. ASSUME NEW j \in S PROVE j + 1 \in S
      <4>1. j \in Nat /\ j + 1 \in Nat
        BY <2>5
      <4>2. ASSUME j + 1 <= n PROVE w[p + (j + 1)] = q[n - (j + 1)]
        <5>1. j <= n /\ n - j \in 1..n /\ n - j \in 0..n /\ n - (j + 1) = (n - j) - 1
              /\ p + (j + 1) \in 1..(p + n) /\ (p + (j + 1)) - 1 = p + j
              /\ j + 1 \in 1..n /\ n + 1 - (j + 1) = n - j
          BY <1>0, <4>1, <4>2
        <5>2. PICK x \in Nat : x = q[n - j] /\ w[p + j] = x
          BY <2>4, <2>5, <4>1, <5>1
        <5>3. q[n - (j + 1)] = RADIX * x + d[n - j]
          BY <2>4, <5>1, <5>2
        <5>4. w[p + (j + 1)] = x * RADIX + text[p + (j + 1)]
          BY <2>2, <5>1, <5>2
        <5>5. text[p + (j + 1)] = d[n - j]
          BY <1>3, <5>1
        <5>6. x * RADIX = RADIX * x
          BY TextNumbers
        <5>7. QED
          BY <5>3, <5>4, <5>5, <5>6
      <4>3. QED
        BY <2>5, <4>1, <4>2
    <3>3. QED
      BY <3>1, <3>2, NatSetInduction
  <2>7. n \in S /\ n - n = 0
    BY <2>6
  <2>8. w[p + n] = v
    BY <2>4, <2>5, <2>7
  <2>9. QED
    BY <1>3, <2>1, <2>8 DEF Value
<1>6. LeadingOnes(text) = p
  <2>1. PICK K : K = {k \in DOMAIN text : \A i \in 1..k : text[i] = 0}
    OBVIOUS
  <2>2. K \subseteq 1..p
    <3> SUFFICES ASSUME NEW k \in K PROVE k \in 1..p
      OBVIOUS
    <3>1. k \in 1..(p + n) /\ \A i \in 1..k : text[i] = 0
      BY <1>3, <2>1
    <3>2. 1 \in 1..n /\ n + 1 - 1 = n
      BY <1>3
    <3>3. text[p + 1] # 0
      BY <1>3, <3>2
    <3>4. ~(k > p)
      <4>1. k > p => p + 1 \in 1..k
        BY <1>0, <3>1
      <4>2. QED
        BY <3>1, <3>3, <4>1
    <3>5. QED
      BY <1>0, <3>1, <3>4
  <2>3. 1..p \subseteq K
    <3> SUFFICES ASSUME NEW k \in 1..p PROVE k \in K
      OBVIOUS
    <3>1. k \in 1..(p + n) /\ \A i \in 1..k : i \in 1..p
      BY <1>0
    <3>2. \A i \in 1..k : text[i] = 0
      BY <1>3, <3>1
    <3>3. k \in DOMAIN text
      BY <1>3, <3>1
    <3>4. QED
      BY <2>1, <3>2, <3>3
  <2>4. K = 1..p
    BY <2>2, <2>3
  <2>5. 1 \in Int /\ p \in Int
    BY <1>0
  <2>6. Cardinality(1..p) = IF 1 > p THEN 0 ELSE p - 1 + 1
    BY <2>5, FS_Interval
  <2>7. Cardinality(1..p) = p
    BY <1>0, <2>6
  <2>8. QED
    BY <2>1, <2>4, <2>7 DEF LeadingOnes
<1>7. DecodeBase58(text) = Zeros(p) \o Backwards(BytesOf(v))
  BY <1>0, <1>4, <1>5, <1>6, DecodeIs
<1>8. BytesOf(v) \in Seq(Nat) /\ \E r : Expands(BytesOf(v), v, BYTE, r) /\ Full(BytesOf(v), r)
  BY <1>0, BytesOfIs
<1>9. QED
  BY <1>0, <1>4, <1>7, <1>8 DEF Splits

\* A text that decodes to more than zeros is the text of a number.
LEMMA TextSplits ==
  ASSUME NEW text \in Seq(Digits), text # <<>>,
         NEW i \in 1..Len(DecodeBase58(text)), DecodeBase58(text)[i] # 0
  PROVE  \E p, d, v : Splits(text, p, d, v, RADIX)
<1>0. PICK n \in Nat : n = Len(text) /\ n >= 1
  OBVIOUS
<1>1. text \in Seq(Nat) /\ \A j \in 1..n : text[j] \in 0..(RADIX - 1)
  <2>1. \A j \in 1..n : text[j] \in Digits
    BY <1>0
  <2>2. QED
    BY <2>1, DigitsAreNumbers DEF Digits
<1>2. \E j \in 1..n : text[j] # 0
  <2> SUFFICES ASSUME \A j \in 1..n : text[j] = 0 PROVE FALSE
    OBVIOUS
  <2>1. Value(text) = 0
    <3>1. n <= Len(text) /\ \A j \in 1..n : text[j] = 0
      BY <1>0
    <3>2. QED
      BY <1>0, <1>1, <3>1, ZeroValue DEF Value
  <2>2. PICK o \in Nat : o = LeadingOnes(text)
    BY DecodeIs
  <2>3. PICK z, b : z = Zeros(o) /\ b = <<0>>
    OBVIOUS
  <2>4. DecodeBase58(text) = z \o b
    BY <2>1, <2>2, <2>3, DecodeIs
  <2>5. z \in Seq(Nat) /\ Len(z) = o /\ \A j \in 1..o : z[j] = 0
    BY <2>3, ZerosAre
  <2>6. b \in Seq(Nat) /\ Len(b) = 1 /\ b[1] = 0
    BY <2>3
  <2>7. PICK c : c = DecodeBase58(text)
    OBVIOUS
  <2>8. Joins(c, z, b, o, 1)
    BY <2>4, <2>5, <2>6, <2>7, JoinedSeqs
  <2>9. i \in 1..(o + 1) /\ c[i] # 0
    BY <2>7, <2>8 DEF Joins
  <2>10. CASE i <= o
    <3>1. i \in 1..o
      BY <2>9, <2>10
    <3>2. c[i] = z[i]
      BY <2>8, <3>1 DEF Joins
    <3>3. QED
      BY <2>5, <2>9, <3>1, <3>2
  <2>11. CASE i > o
    <3>1. i - o = 1
      BY <2>9, <2>11
    <3>2. c[i] = b[1]
      BY <2>8, <2>9, <2>11, <3>1 DEF Joins
    <3>3. QED
      BY <2>6, <2>9, <3>2
  <2>12. QED
    BY <2>9, <2>10, <2>11
<1>3. QED
  BY <1>0, <1>1, <1>2, SplitExists, TextNumbers

\* The text of a key: it is of digits, decodes to the key, and is neither too short nor too
\* long.
LEMMA KeyHasText ==
  ASSUME NEW key, NEW z, NEW b, NEW v, Splits(key, z, b, v, BYTE),
         Len(key) = KEY_BYTES
  PROVE  \E text, d : /\ Splits(text, z, d, v, RADIX)
                      /\ text \in Seq(Digits) /\ Len(text) \in MIN_TEXT..MAX_TEXT
                      /\ DecodeBase58(text) = key
<1>0. z \in Nat /\ b \in Seq(Nat) /\ v \in Nat /\ v # 0 /\ key = Zeros(z) \o Backwards(b)
  BY DEF Splits
<1>1. PICK n \in Nat : n = Len(b) /\ KEY_BYTES = z + n /\ n >= 1
  <2>1. PICK n \in Nat : n = Len(b)
    BY <1>0
  <2>2. BYTE \in Nat /\ BYTE >= 2
    BY TextNumbers
  <2>3. SplitAt(key, z, b, n)
    BY <2>1, <2>2, SplitIs
  <2>4. QED
    BY <2>1, <2>3 DEF SplitAt
<1>2. PICK r : Expands(b, v, BYTE, r) /\ Full(b, r)
  BY DEF Splits
<1>3. PICK d \in Seq(Nat) : /\ \A i \in 1..Len(d) : d[i] \in 0..(RADIX - 1)
                            /\ \E q : Expands(d, v, RADIX, q) /\ Full(d, q)
  BY <1>0, TextNumbers, ExpansionExists
<1>4. PICK q : Expands(d, v, RADIX, q) /\ Full(d, q)
  BY <1>3
<1>5. PICK m \in Nat : m = Len(d)
  OBVIOUS
<1>6. PICK text : text = Zeros(z) \o Backwards(d)
  OBVIOUS
<1>7. Splits(text, z, d, v, RADIX)
  BY <1>0, <1>3, <1>6 DEF Splits
<1>8. /\ text \in Seq(Nat) /\ Len(text) = z + m
      /\ \A i \in 1..z : text[i] = 0
      /\ \A i \in 1..m : text[z + i] = d[m + 1 - i]
      /\ m >= 1
  BY <1>5, <1>7, SplitIs, TextNumbers DEF SplitAt
<1>9. text \in Seq(Digits)
  <2>1. ASSUME NEW i \in 1..(z + m) PROVE text[i] \in Digits
    <3>1. CASE i <= z
      <4>1. i \in 1..z /\ 0 \in 0..(RADIX - 1)
        BY <3>1, <1>0, TextNumbers
      <4>2. QED
        BY <1>8, <4>1 DEF Digits
    <3>2. CASE i > z
      <4>1. PICK j \in 1..m : i = z + j
        <5>1. i - z \in 1..m /\ i = z + (i - z)
          BY <1>0, <3>2
        <5>2. QED
          BY <5>1
      <4>2. m + 1 - j \in 1..m
        OBVIOUS
      <4>3. d[m + 1 - j] \in 0..(RADIX - 1)
        BY <1>3, <1>5, <4>2
      <4>4. QED
        BY <1>8, <4>1, <4>3 DEF Digits
    <3>3. QED
      BY <1>0, <3>1, <3>2
  <2>2. PICK l \in Nat : l = z + m
    BY <1>0
  <2>3. text \in [1..l -> Digits]
    BY <1>8, <2>1, <2>2
  <2>4. QED
    BY <2>3
<1>10. DecodeBase58(text) = key
  <2>1. Splits(DecodeBase58(text), z, BytesOf(v), v, BYTE)
    BY <1>7, <1>9, TextDecodes
  <2>2. PICK c, p : c = BytesOf(v) /\ c \in Seq(Nat) /\ Expands(c, v, BYTE, p) /\ Full(c, p)
    BY <1>0, BytesOfIs
  <2>3. c = b
    BY <1>0, <1>2, <2>2, OneExpansion, TextNumbers
  <2>4. DecodeBase58(text) = Zeros(z) \o Backwards(BytesOf(v))
    BY <2>1 DEF Splits
  <2>5. QED
    BY <1>0, <2>2, <2>3, <2>4
<1>11. z <= MAX_TEXT /\ Power(BYTE, n) <= Power(RADIX, MAX_TEXT - z)
  <2>1. z \in 0..KEY_BYTES /\ KEY_BYTES - z = n
    BY <1>0, <1>1
  <2>2. QED
    BY <2>1, LimitsFit
<1>12. PICK k \in Nat : k = MAX_TEXT - z /\ MAX_TEXT = z + k
  <2>1. MAX_TEXT - z \in Nat /\ MAX_TEXT = z + (MAX_TEXT - z)
    BY <1>0, <1>11, TextNumbers
  <2>2. QED
    BY <2>1
<1>13. v < Power(BYTE, n) /\ v >= Power(BYTE, n - 1)
  BY <1>0, <1>1, <1>2, ExpansionBounds, TextNumbers
<1>14. v < Power(RADIX, m) /\ v >= Power(RADIX, m - 1)
  BY <1>3, <1>4, <1>5, <1>8, ExpansionBounds, TextNumbers
<1>15. n - 1 \in Nat /\ m - 1 \in Nat
  BY <1>1, <1>8
<1>16. /\ Power(BYTE, n) \in Nat /\ Power(BYTE, n - 1) \in Nat
       /\ Power(RADIX, m) \in Nat /\ Power(RADIX, m - 1) \in Nat
       /\ Power(RADIX, k) \in Nat /\ Power(RADIX, n - 1) \in Nat
  BY <1>15, PowerStep, TextNumbers
<1>17. m <= k
  <2> SUFFICES ASSUME k <= m - 1 PROVE FALSE
    BY <1>15
  <2>1. RADIX >= 1
    BY TextNumbers
  <2>2. Power(RADIX, k) <= Power(RADIX, m - 1)
    BY <1>15, <2>1, PowersGrow, TextNumbers
  <2>3. QED
    BY <1>0, <1>11, <1>12, <1>13, <1>14, <1>16, <2>2
<1>18. n <= m
  <2> SUFFICES ASSUME m <= n - 1 PROVE FALSE
    BY <1>15
  <2>1. RADIX >= 1
    BY TextNumbers
  <2>2. Power(RADIX, m) <= Power(RADIX, n - 1)
    BY <1>15, <2>1, PowersGrow, TextNumbers
  <2>3. Power(RADIX, n - 1) <= Power(BYTE, n - 1)
    BY <1>15, LargerBase, TextNumbers
  <2>4. QED
    BY <1>0, <1>13, <1>14, <1>16, <2>2, <2>3
<1>19. Len(text) \in MIN_TEXT..MAX_TEXT
  <2>1. z + n <= z + m /\ z + m <= z + k /\ z + m \in Nat
    BY <1>0, <1>17, <1>18
  <2>2. QED
    BY <1>1, <1>8, <1>12, <2>1, TextNumbers
<1>20. QED
  BY <1>7, <1>9, <1>10, <1>19

\* The texts that are accepted for a key.
TextsFor(key) ==
  {text \in TextsOf(Digits, MAX_TEXT + 1) : IsPubkeyShaped(text) /\ DecodeBase58(text) = key}

\* A text accepted for the key splits as the key does, so there is no second one.
LEMMA KeyHasOneText ==
  ASSUME NEW key \in [1..KEY_BYTES -> 0..(BYTE - 1)], key # Zeros(KEY_BYTES)
  PROVE  Cardinality(TextsFor(key)) = 1
<1>1. PICK i \in 1..KEY_BYTES : key[i] # 0
  BY DEF Zeros
<1>2. key \in Seq(Nat) /\ Len(key) = KEY_BYTES
  <2>1. \A x \in 0..(BYTE - 1) : x \in Nat
    BY TextNumbers
  <2>2. key \in [1..KEY_BYTES -> Nat]
    BY <2>1
  <2>3. QED
    BY <2>2, TextNumbers
<1>3. PICK z, b, v : Splits(key, z, b, v, BYTE)
  <2>1. \A j \in 1..Len(key) : key[j] \in 0..(BYTE - 1)
    BY <1>2
  <2>2. \E j \in 1..Len(key) : key[j] # 0
    BY <1>1, <1>2
  <2>3. BYTE \in Nat /\ BYTE >= 2
    BY TextNumbers
  <2>4. QED
    BY <1>2, <2>1, <2>2, <2>3, SplitExists
<1>4. PICK text, d : /\ Splits(text, z, d, v, RADIX)
                     /\ text \in Seq(Digits) /\ Len(text) \in MIN_TEXT..MAX_TEXT
                     /\ DecodeBase58(text) = key
  BY <1>2, <1>3, KeyHasText
<1>5. text \in TextsFor(key)
  <2>1. PICK n \in Nat : n = Len(text) /\ n \in 0..(MAX_TEXT + 1)
    BY <1>4, TextNumbers
  <2>2. text \in TextsOf(Digits, MAX_TEXT + 1)
    <3>1. text \in [1..n -> Digits]
      BY <1>4, <2>1
    <3>2. QED
      BY <2>1, <3>1 DEF TextsOf
  <2>3. IsPubkeyShaped(text)
    BY <1>1, <1>2, <1>4 DEF IsPubkeyShaped
  <2>4. QED
    BY <1>4, <2>2, <2>3 DEF TextsFor
<1>6. ASSUME NEW t \in TextsFor(key) PROVE t = text
  <2>1. t \in TextsOf(Digits, MAX_TEXT + 1) /\ IsPubkeyShaped(t) /\ DecodeBase58(t) = key
    BY DEF TextsFor
  <2>2. t \in Seq(Digits)
    <3>1. MAX_TEXT + 1 \in Nat
      BY TextNumbers
    <3>2. QED
      BY <2>1, <3>1, TextIsList
  <2>3. t # <<>>
    <3>1. Len(t) \in MIN_TEXT..MAX_TEXT
      BY <2>1 DEF IsPubkeyShaped
    <3>2. Len(t) >= 1
      BY <3>1, TextNumbers
    <3>3. QED
      BY <3>2
  <2>4. PICK p, e, w : Splits(t, p, e, w, RADIX)
    <3>1. i \in 1..Len(DecodeBase58(t)) /\ DecodeBase58(t)[i] # 0
      BY <1>1, <1>2, <2>1
    <3>2. QED
      BY <2>2, <2>3, <3>1, TextSplits
  <2>5. PICK c : c = BytesOf(w) /\ Splits(key, p, c, w, BYTE)
    BY <2>1, <2>2, <2>4, TextDecodes
  <2>6. p = z /\ c = b
    BY <1>3, <2>5, SplitsOnce, TextNumbers
  <2>7. w = v
    <3>1. PICK q : Expands(b, v, BYTE, q)
      BY <1>3 DEF Splits
    <3>2. PICK r : Expands(b, w, BYTE, r)
      BY <2>5, <2>6 DEF Splits
    <3>3. b \in Seq(Nat)
      BY <1>3 DEF Splits
    <3>4. QED
      BY <3>1, <3>2, <3>3, OneNumber, TextNumbers
  <2>8. e = d
    <3>1. e \in Seq(Nat) /\ d \in Seq(Nat)
      BY <1>4, <2>4 DEF Splits
    <3>2. PICK q : Expands(d, v, RADIX, q) /\ Full(d, q)
      BY <1>4 DEF Splits
    <3>3. PICK r : Expands(e, v, RADIX, r) /\ Full(e, r)
      BY <2>4, <2>7 DEF Splits
    <3>4. QED
      BY <3>1, <3>2, <3>3, OneExpansion, TextNumbers
  <2>9. QED
    BY <1>4, <2>4, <2>6, <2>8 DEF Splits
<1>7. TextsFor(key) = {text}
  BY <1>5, <1>6
<1>8. QED
  BY <1>7, FS_Singleton

\* For the key of only zeros no text is accepted, for each other key one.
LEMMA KeysHaveOneText == OneTextPerKey
<1> SUFFICES ASSUME NEW key \in [1..KEY_BYTES -> 0..(BYTE - 1)]
             PROVE  Cardinality(TextsFor(key)) = IF key = Zeros(KEY_BYTES) THEN 0 ELSE 1
  BY DEF OneTextPerKey, TextsFor
<1>1. CASE key = Zeros(KEY_BYTES)
  <2>1. ASSUME NEW t \in TextsFor(key) PROVE FALSE
    <3>1. \E i \in 1..KEY_BYTES : key[i] # 0
      BY DEF TextsFor, IsPubkeyShaped
    <3>2. QED
      BY <1>1, <3>1 DEF Zeros
  <2>2. TextsFor(key) = {}
    BY <2>1
  <2>3. QED
    BY <1>1, <2>2, FS_EmptySet
<1>2. CASE key # Zeros(KEY_BYTES)
  BY <1>2, KeyHasOneText
<1>3. QED
  BY <1>1, <1>2

-----------------------------------------------------------------------------
(* The search in a text *)

\* What is a candidate has the length of one and digits only.
LEMMA CandidateIsWord ==
  ASSUME NEW word \in Seq(Chars), IsMintCandidate(word)
  PROVE  Len(word) \in MIN_TEXT..MAX_TEXT /\ \A i \in 1..Len(word) : word[i] \in Digits
<1>1. Len(word) \in MIN_TEXT..MAX_TEXT /\ Len(DecodeBase58(word)) = KEY_BYTES
  BY DEF IsMintCandidate, IsPubkeyShaped
<1>2. ASSUME NEW i \in 1..Len(word), word[i] \notin Digits PROVE FALSE
  <2>1. i \in DOMAIN word
    OBVIOUS
  <2>2. DecodeBase58(word) = NoBytes
    BY <1>2, <2>1 DEF DecodeBase58
  <2>3. Len(DecodeBase58(word)) = 0
    BY <2>2 DEF NoBytes
  <2>4. QED
    BY <1>1, <2>3, TextNumbers
<1>3. QED
  BY <1>1, <1>2

\* At most one match begins at a place, and none inside of it.
LEMMA MatchesApart ==
  ASSUME NEW text \in Seq(Chars), NEW i \in 1..Len(text), NEW n \in MIN_TEXT..MAX_TEXT,
         MatchAt(text, i, n),
         NEW j \in i..(i + n - 1), NEW m \in MIN_TEXT..MAX_TEXT, MatchAt(text, j, m)
  PROVE  i = j /\ n = m
<1>0. n \in Nat /\ n >= 1 /\ m \in Nat /\ m >= 1 /\ i \in Nat /\ j \in Nat /\ Len(text) \in Nat
      /\ \A k \in 1..Len(text) : text[k] \in Digits => text[k] \in Alnum
  BY TextNumbers DEF Alnum
<1>1. i = j
  <2>1. CASE i < j
    <3>1. j - 1 \in i..(i + n - 1) /\ j # 1
      BY <1>0, <2>1
    <3>2. text[j - 1] \in Alnum
      BY <3>1 DEF MatchAt, Alnum
    <3>3. QED
      BY <3>1, <3>2 DEF MatchAt
  <2>2. QED
    BY <1>0, <2>1
<1>2. ASSUME NEW a \in Nat, NEW b \in Nat, a < b, MatchAt(text, i, a), MatchAt(text, i, b) PROVE FALSE
  <2>1. i + a \in i..(i + b - 1) /\ i + b - 1 <= Len(text)
    BY <1>2 DEF MatchAt
  <2>2. text[i + a] \in Alnum /\ i + a <= Len(text)
    BY <1>0, <1>2, <2>1 DEF MatchAt, Alnum
  <2>3. QED
    BY <1>0, <1>2, <2>2 DEF MatchAt
<1>3. QED
  BY <1>0, <1>1, <1>2

\* One length at most matches at a place; LongestMatch is that one, or 0.
LEMMA LongestIs ==
  ASSUME NEW text \in Seq(Chars), NEW i \in 1..Len(text)
  PROVE  /\ LongestMatch(text, i) = 0 \/ LongestMatch(text, i) \in MIN_TEXT..MAX_TEXT
         /\ LongestMatch(text, i) # 0 => MatchAt(text, i, LongestMatch(text, i))
         /\ \A n \in MIN_TEXT..MAX_TEXT : MatchAt(text, i, n) => LongestMatch(text, i) = n
<1>1. PICK fits : fits = {n \in MIN_TEXT..MAX_TEXT : MatchAt(text, i, n)}
  OBVIOUS
<1>2. CASE fits = {}
  BY <1>1, <1>2 DEF LongestMatch
<1>3. CASE fits # {}
  <2>1. PICK n \in MIN_TEXT..MAX_TEXT : MatchAt(text, i, n)
    BY <1>1, <1>3
  <2>2. n \in Nat /\ n >= 1 /\ i \in i..(i + n - 1)
    BY TextNumbers
  <2>3. \A m \in MIN_TEXT..MAX_TEXT : MatchAt(text, i, m) => m = n
    BY <2>1, <2>2, MatchesApart
  <2>4. fits = {n}
    BY <1>1, <2>1, <2>3
  <2>5. LongestMatch(text, i) = CHOOSE m \in fits : \A k \in fits : k <= m
    BY <1>1, <1>3 DEF LongestMatch
  <2>6. LongestMatch(text, i) = n
    BY <2>2, <2>4, <2>5
  <2>7. QED
    BY <2>1, <2>3, <2>6
<1>4. QED
  BY <1>2, <1>3

\* The matches that begin at i or later.
Begins(text, i) == {j \in i..Len(text) : LongestMatch(text, j) # 0}
MatchFrom(text, j) == SubSeq(text, j, j + LongestMatch(text, j) - 1)
MatchStep(text, i, g) ==
  IF i > Len(text) THEN {}
  ELSE IF LongestMatch(text, i) = 0 THEN g[i + 1]
       ELSE {MatchFrom(text, i)} \cup g[i + LongestMatch(text, i)]

\* Where matches begin: here, or behind the match that begins here.
LEMMA BeginsStep ==
  ASSUME NEW text \in Seq(Chars), NEW i \in 1..Len(text), NEW n, n = LongestMatch(text, i)
  PROVE  IF n = 0 THEN Begins(text, i) = Begins(text, i + 1)
         ELSE i + n \in 1..(Len(text) + 1) /\ i + n > i /\ Begins(text, i) = {i} \cup Begins(text, i + n)
<1>0. i \in Nat /\ Len(text) \in Nat
  OBVIOUS
<1>1. CASE n = 0
  <2>1. ASSUME NEW j \in Begins(text, i) PROVE j \in Begins(text, i + 1)
    <3>1. j \in i..Len(text) /\ LongestMatch(text, j) # 0 /\ j # i
      BY <1>1 DEF Begins
    <3>2. j \in (i + 1)..Len(text)
      BY <1>0, <3>1
    <3>3. QED
      BY <3>1, <3>2 DEF Begins
  <2>2. ASSUME NEW j \in Begins(text, i + 1) PROVE j \in Begins(text, i)
    <3>1. j \in (i + 1)..Len(text) /\ LongestMatch(text, j) # 0
      BY DEF Begins
    <3>2. j \in i..Len(text)
      BY <1>0, <3>1
    <3>3. QED
      BY <3>1, <3>2 DEF Begins
  <2>3. Begins(text, i) = Begins(text, i + 1)
    BY <2>1, <2>2
  <2>4. QED
    BY <1>1, <2>3
<1>2. CASE n # 0
  <2>1. n \in MIN_TEXT..MAX_TEXT /\ MatchAt(text, i, n)
    BY <1>2, LongestIs
  <2>2. n \in Nat /\ n >= 1
    BY <2>1, TextNumbers
  <2>3. i + n - 1 <= Len(text)
    BY <2>1 DEF MatchAt
  <2>4. ASSUME NEW j \in Begins(text, i) PROVE j = i \/ j \in Begins(text, i + n)
    <3>1. j \in 1..Len(text) /\ j \in i..Len(text) /\ LongestMatch(text, j) # 0
      BY <1>0 DEF Begins
    <3>2. LongestMatch(text, j) \in MIN_TEXT..MAX_TEXT /\ MatchAt(text, j, LongestMatch(text, j))
      BY <3>1, LongestIs
    <3>3. j \in i..(i + n - 1) => i = j
      BY <2>1, <3>2, MatchesApart
    <3>4. QED
      BY <1>0, <2>2, <3>1, <3>3 DEF Begins
  <2>5. i \in Begins(text, i) /\ Begins(text, i + n) \subseteq Begins(text, i)
    BY <1>0, <1>2, <2>2 DEF Begins
  <2>6. QED
    BY <1>0, <1>2, <2>2, <2>3, <2>4, <2>5
<1>3. QED
  BY <1>1, <1>2

\* exec() finds every match.
LEMMA MatchesAre ==
  ASSUME NEW text \in Seq(Chars)
  PROVE  Matches(text)[1] = {MatchFrom(text, j) : j \in Begins(text, 1)}
<1> DEFINE matched == CHOOSE matched : matched = [i \in 1..(Len(text) + 1) |->
                      IF i > Len(text) THEN {}
                      ELSE IF LongestMatch(text, i) = 0 THEN matched[i + 1]
                           ELSE {SubSeq(text, i, i + LongestMatch(text, i) - 1)}
                                  \cup matched[i + LongestMatch(text, i)]]
<1>0. PICK n \in Nat : n = Len(text)
  OBVIOUS
<1>1. PICK w : w = [i \in 1..(n + 1) |-> {MatchFrom(text, j) : j \in Begins(text, i)}]
  OBVIOUS
<1>2. \A i \in 1..(n + 1) : w[i] = MatchStep(text, i, w)
  <2> SUFFICES ASSUME NEW i \in 1..(n + 1) PROVE w[i] = MatchStep(text, i, w)
    OBVIOUS
  <2>1. CASE i > n
    BY <1>0, <1>1, <2>1 DEF MatchStep, Begins
  <2>2. CASE i <= n
    <3>1. i \in 1..Len(text) /\ i + 1 \in 1..(n + 1)
      BY <1>0, <2>2
    <3>2. PICK m : m = LongestMatch(text, i)
      OBVIOUS
    <3>3. CASE m = 0
      <4>1. Begins(text, i) = Begins(text, i + 1)
        BY <3>1, <3>2, <3>3, BeginsStep
      <4>2. w[i] = w[i + 1]
        BY <1>1, <3>1, <4>1
      <4>3. QED
        BY <1>0, <2>2, <3>2, <3>3, <4>2 DEF MatchStep
    <3>4. CASE m # 0
      <4>1. i + m \in 1..(n + 1) /\ Begins(text, i) = {i} \cup Begins(text, i + m)
        BY <1>0, <3>1, <3>2, <3>4, BeginsStep
      <4>2. w[i] = {MatchFrom(text, i)} \cup w[i + m]
        BY <1>1, <4>1
      <4>3. QED
        BY <1>0, <2>2, <3>2, <3>4, <4>2 DEF MatchStep
    <3>5. QED
      BY <3>3, <3>4
  <2>3. QED
    BY <1>0, <2>1, <2>2
<1>3. w = [i \in 1..(Len(text) + 1) |->
             IF i > Len(text) THEN {}
             ELSE IF LongestMatch(text, i) = 0 THEN w[i + 1]
                  ELSE {SubSeq(text, i, i + LongestMatch(text, i) - 1)}
                         \cup w[i + LongestMatch(text, i)]]
  BY <1>0, <1>1, <1>2 DEF MatchStep, MatchFrom
<1>4. matched = [i \in 1..(Len(text) + 1) |->
                 IF i > Len(text) THEN {}
                 ELSE IF LongestMatch(text, i) = 0 THEN matched[i + 1]
                      ELSE {SubSeq(text, i, i + LongestMatch(text, i) - 1)}
                             \cup matched[i + LongestMatch(text, i)]]
  BY <1>3
<1>5. Matches(text) = matched
  BY Zenon DEF Matches
<1>6. PICK f : f = Matches(text) /\ \A i \in 1..(n + 1) : f[i] = MatchStep(text, i, f)
  <2> HIDE DEF matched
  <2>1. QED
    BY <1>0, <1>4, <1>5 DEF MatchStep, MatchFrom
<1>7. PICK Bad : Bad = {k \in 0..n : f[n + 1 - k] # w[n + 1 - k]}
  OBVIOUS
<1>8. Bad = {}
  <2> SUFFICES ASSUME Bad # {} PROVE FALSE
    OBVIOUS
  <2>1. Bad \in SUBSET Nat
    BY <1>7
  <2>2. PICK k \in Bad : \A l \in Bad : k <= l
    BY <2>1, LeastOf
  <2>3. PICK i \in 1..(n + 1) : i = n + 1 - k /\ f[i] # w[i]
    BY <1>7
  <2>4. ASSUME NEW j \in 1..(n + 1), j > i PROVE f[j] = w[j]
    <3>1. n + 1 - j \in 0..n /\ n + 1 - j < k /\ n + 1 - (n + 1 - j) = j
      BY <1>7, <2>3, <2>4
    <3>2. n + 1 - j \notin Bad
      BY <2>1, <2>2, <3>1
    <3>3. QED
      BY <1>7, <3>1, <3>2
  <2>5. MatchStep(text, i, f) = MatchStep(text, i, w)
    <3>1. CASE i > n
      BY <1>0, <3>1 DEF MatchStep
    <3>2. CASE i <= n
      <4>1. i \in 1..Len(text) /\ i + 1 \in 1..(n + 1) /\ i + 1 > i
        BY <1>0, <3>2
      <4>2. PICK m : m = LongestMatch(text, i)
        OBVIOUS
      <4>3. m # 0 => i + m \in 1..(n + 1) /\ i + m > i
        BY <1>0, <4>1, <4>2, BeginsStep
      <4>4. f[i + 1] = w[i + 1] /\ (m # 0 => f[i + m] = w[i + m])
        BY <2>4, <4>1, <4>3
      <4>5. QED
        BY <4>2, <4>4 DEF MatchStep
    <3>3. QED
      BY <3>1, <3>2
  <2>6. QED
    BY <1>2, <1>6, <2>3, <2>5
<1>9. f[1] = w[1]
  <2>1. n \in 0..n /\ n + 1 - n = 1
    OBVIOUS
  <2>2. QED
    BY <1>7, <1>8, <2>1
<1>10. QED
  BY <1>1, <1>6, <1>9

\* The parts between separators, by where they begin and end.
PartAt(text, separators, i, j) ==
  /\ i <= j /\ \A k \in i..j : text[k] \notin separators
  /\ i = 1 \/ text[i - 1] \in separators
  /\ j = Len(text) \/ text[j + 1] \in separators

\* A part stands between two separators or ends of the text.
LEMMA PartsAre ==
  ASSUME NEW text, NEW separators
  PROVE  \A word : word \in Parts(text, separators) <=>
           \E i, j \in 1..Len(text) : PartAt(text, separators, i, j) /\ word = SubSeq(text, i, j)
<1> SUFFICES ASSUME NEW word
             PROVE  word \in Parts(text, separators) <=>
                      \E i, j \in 1..Len(text) :
                        PartAt(text, separators, i, j) /\ word = SubSeq(text, i, j)
  OBVIOUS
<1>1. ASSUME NEW p \in (1..Len(text)) \X (1..Len(text)), PartAt(text, separators, p[1], p[2]),
             word = SubSeq(text, p[1], p[2])
      PROVE  \E i, j \in 1..Len(text) : PartAt(text, separators, i, j) /\ word = SubSeq(text, i, j)
  <2>1. p[1] \in 1..Len(text) /\ p[2] \in 1..Len(text)
    OBVIOUS
  <2>2. QED
    BY <1>1, <2>1
<1>2. ASSUME NEW i \in 1..Len(text), NEW j \in 1..Len(text), PartAt(text, separators, i, j),
             word = SubSeq(text, i, j)
      PROVE  \E p \in (1..Len(text)) \X (1..Len(text)) :
               PartAt(text, separators, p[1], p[2]) /\ word = SubSeq(text, p[1], p[2])
  <2>1. PICK p \in (1..Len(text)) \X (1..Len(text)) : p[1] = i /\ p[2] = j
    <3>1. <<i, j>> \in (1..Len(text)) \X (1..Len(text)) /\ <<i, j>>[1] = i /\ <<i, j>>[2] = j
      OBVIOUS
    <3>2. QED
      BY <3>1
  <2>2. QED
    BY <1>2, <2>1
<1>3. word \in Parts(text, separators) <=>
        \E p \in (1..Len(text)) \X (1..Len(text)) :
          PartAt(text, separators, p[1], p[2]) /\ word = SubSeq(text, p[1], p[2])
  BY DEF Parts, PartAt
<1>4. QED
  BY <1>1, <1>2, <1>3

\* A part of a text.
LEMMA PartHas ==
  ASSUME NEW text \in Seq(Chars), NEW i \in 1..Len(text), NEW j \in i..Len(text),
         NEW word, word = SubSeq(text, i, j)
  PROVE  /\ word \in Seq(Chars) /\ Len(word) = j - i + 1
         /\ \A k \in i..j : k - i + 1 \in 1..Len(word) /\ word[k - i + 1] = text[k]
<1>1. i \in 1..(j + 1) /\ j \in i - 1..Len(text)
  OBVIOUS
<1>2. /\ word \in Seq(Chars)
      /\ Len(word) = (IF i <= j THEN j - i + 1 ELSE 0)
      /\ \A k \in 1..(j - i + 1) : word[k] = text[i + k - 1]
  BY <1>1, SubSeqProperties
<1>3. Len(word) = j - i + 1
  BY <1>2
<1>4. ASSUME NEW k \in i..j PROVE k - i + 1 \in 1..Len(word) /\ word[k - i + 1] = text[k]
  <2>1. k - i + 1 \in 1..(j - i + 1) /\ i + (k - i + 1) - 1 = k
    OBVIOUS
  <2>2. QED
    BY <1>2, <1>3, <2>1
<1>5. QED
  BY <1>2, <1>3, <1>4

Marks == {UrlMark, Mark}

\* A character that is neither a letter nor a digit is one of the two marks.
LEMMA CharKinds ==
  /\ Digits \cap Marks = {} /\ UrlMark \notin Digits
  /\ \A c \in Chars : c \in Marks <=> c \notin Alnum
BY TextNumbers DEF Digits, Marks, Chars, Alnum, Foreign, UrlMark, Mark

\* A candidate among the words is a match, and a match is a word.
LEMMA WordsAreMatches ==
  ASSUME NEW text \in Seq(Chars), NEW word, IsMintCandidate(word)
  PROVE  word \in Parts(text, Marks) <=> word \in Matches(text)[1]
<1>1. ASSUME NEW i \in 1..Len(text), NEW j \in 1..Len(text), PartAt(text, Marks, i, j),
             word = SubSeq(text, i, j)
      PROVE  word \in Matches(text)[1]
  <2>1. PICK n \in Nat : n = j - i + 1 /\ j \in i..Len(text) /\ i + n - 1 = j /\ i + n = j + 1
    BY <1>1 DEF PartAt
  <2>2. /\ word \in Seq(Chars) /\ Len(word) = n
        /\ \A k \in i..j : k - i + 1 \in 1..Len(word) /\ word[k - i + 1] = text[k]
    BY <1>1, <2>1, PartHas
  <2>3. n \in MIN_TEXT..MAX_TEXT /\ \A k \in i..j : text[k] \in Digits
    BY <2>2, CandidateIsWord
  <2>4. i = 1 \/ text[i - 1] \notin Alnum
    <3>1. i # 1 => text[i - 1] \in Chars
      OBVIOUS
    <3>2. QED
      BY <1>1, <3>1, CharKinds DEF PartAt
  <2>5. j = Len(text) \/ text[j + 1] \notin Alnum
    <3>1. j # Len(text) => text[j + 1] \in Chars
      OBVIOUS
    <3>2. QED
      BY <1>1, <3>1, CharKinds DEF PartAt
  <2>6. MatchAt(text, i, n)
    BY <2>1, <2>3, <2>4, <2>5 DEF MatchAt
  <2>7. LongestMatch(text, i) = n
    BY <2>3, <2>6, LongestIs
  <2>8. i \in Begins(text, 1) /\ word = MatchFrom(text, i)
    <3>1. n # 0 /\ i \in 1..Len(text)
      BY <2>3, TextNumbers
    <3>2. QED
      BY <1>1, <2>1, <2>7, <3>1 DEF Begins, MatchFrom
  <2>9. QED
    BY <2>8, MatchesAre
<1>2. ASSUME NEW i \in Begins(text, 1), word = MatchFrom(text, i)
      PROVE  \E j, k \in 1..Len(text) : PartAt(text, Marks, j, k) /\ word = SubSeq(text, j, k)
  <2>1. i \in 1..Len(text) /\ LongestMatch(text, i) # 0
    BY DEF Begins
  <2>2. PICK n \in MIN_TEXT..MAX_TEXT : n = LongestMatch(text, i) /\ MatchAt(text, i, n)
    BY <2>1, LongestIs
  <2>3. PICK j \in 1..Len(text) : j = i + n - 1 /\ i <= j /\ i + n = j + 1
    <3>1. n \in Nat /\ n >= 1 /\ i + n - 1 <= Len(text)
      BY <2>2, TextNumbers DEF MatchAt
    <3>2. QED
      BY <2>1, <3>1
  <2>4. \A k \in i..j : text[k] \notin Marks
    BY <2>2, <2>3, CharKinds DEF MatchAt
  <2>5. i = 1 \/ text[i - 1] \in Marks
    <3>1. i # 1 => text[i - 1] \in Chars
      BY <2>1
    <3>2. QED
      BY <2>2, <3>1, CharKinds DEF MatchAt
  <2>6. j = Len(text) \/ text[j + 1] \in Marks
    <3>1. j # Len(text) => text[j + 1] \in Chars /\ ~(j + 1 > Len(text))
      BY <2>3
    <3>2. QED
      BY <2>2, <2>3, <3>1, CharKinds DEF MatchAt
  <2>7. PartAt(text, Marks, i, j) /\ word = SubSeq(text, i, j)
    BY <1>2, <2>2, <2>3, <2>4, <2>5, <2>6 DEF PartAt, MatchFrom
  <2>8. QED
    BY <2>1, <2>7
<1>3. word \in Matches(text)[1] <=> \E i \in Begins(text, 1) : word = MatchFrom(text, i)
  BY MatchesAre
<1>4. word \in Parts(text, Marks) <=>
        \E i, j \in 1..Len(text) : PartAt(text, Marks, i, j) /\ word = SubSeq(text, i, j)
  BY PartsAre
<1>5. QED
  BY <1>1, <1>2, <1>3, <1>4

\* The search finds the whole words that are candidates, and those of a URL are among them.
LEMMA WordsAreWhole == WholeWordsOnly
<1> SUFFICES ASSUME NEW text \in TextsOf(Chars, MaxText)
             PROVE  /\ ExtractMintCandidates(text) = {word \in Parts(text, Marks) : IsMintCandidate(word)}
                    /\ ExtractMintCandidatesFromUrl(text) \subseteq ExtractMintCandidates(text)
  BY DEF WholeWordsOnly, Marks
<1>1. text \in Seq(Chars)
  BY TextNumbers, TextIsList
<1>2. ExtractMintCandidates(text) = {word \in Parts(text, Marks) : IsMintCandidate(word)}
  BY <1>1, WordsAreMatches DEF ExtractMintCandidates
<1>3. ASSUME NEW word, word \in Parts(text, {UrlMark}), IsMintCandidate(word)
      PROVE  word \in Parts(text, Marks)
  <2>1. PICK i \in 1..Len(text), j \in 1..Len(text) :
          PartAt(text, {UrlMark}, i, j) /\ word = SubSeq(text, i, j)
    BY <1>3, PartsAre
  <2>2. j \in i..Len(text)
    BY <2>1 DEF PartAt
  <2>3. /\ word \in Seq(Chars)
        /\ \A k \in i..j : k - i + 1 \in 1..Len(word) /\ word[k - i + 1] = text[k]
    BY <1>1, <2>1, <2>2, PartHas
  <2>4. \A k \in i..j : text[k] \in Digits
    BY <1>3, <2>3, CandidateIsWord
  <2>5. PartAt(text, Marks, i, j)
    BY <2>1, <2>4, CharKinds DEF PartAt, Marks
  <2>6. QED
    BY <2>1, <2>5, PartsAre
<1>4. ExtractMintCandidatesFromUrl(text) = {word \in Parts(text, {UrlMark}) : IsMintCandidate(word)}
  BY DEF ExtractMintCandidatesFromUrl
<1>5. ExtractMintCandidatesFromUrl(text) \subseteq ExtractMintCandidates(text)
  BY <1>2, <1>3, <1>4
<1>6. QED
  BY <1>2, <1>5

-----------------------------------------------------------------------------
(* The candidates *)

\* For every radix, width of a byte and of a key, every limit on the length that leaves room
\* for all keys, and texts of any length: decodeBase58() gives the bytes of the number, every
\* key but that of only zeros has exactly one text that isPubkeyShaped() accepts, and the
\* search takes whole words that are such texts and nothing cut out of a longer one.
THEOREM CandidatesAlwaysKeys == Spec => []CandidatesAreKeys
<1>1. CandidatesAreKeys
  BY NumberDecoded, KeysHaveOneText, WordsAreWhole DEF CandidatesAreKeys
<1>2. QED
  BY <1>1, PTL
=============================================================================
