---------------------------- MODULE StallLedger ----------------------------
(***************************************************************************)
(* What the market program promises about track records, without tokens,   *)
(* clocks or counters: a ledger of calls that is only ever appended to.    *)
(*                                                                         *)
(* A call is committed once, under the owner and the mint it is about, and *)
(* settled at most once.  A stall opens once, and is then open, closed or  *)
(* slashed; its bond is escrowed exactly while it is open.  The published  *)
(* record of a stall is at every moment the tally of its calls, so nothing *)
(* the owner does can make it forget a loss.                               *)
(***************************************************************************)
EXTENDS Integers, FiniteSets

CONSTANTS Wallets, Mints, Commitments, ReputationStep

VARIABLES
  standing,   \* owner -> "open", "closed" or "slashed", for stalls ever opened
  bonded,     \* owners whose bond is in escrow
  calls,      \* <<owner, mint>> -> what was committed to and how it ended
  record      \* owner -> the published tally

ledger == <<standing, bonded, calls, record>>

Settlements == {"Survived", "Faded", "Withdrawn"}

\* The calls of `owner` in the ledger c, and those of them that ended as `end`.
CallsBy(c, owner) == {k \in DOMAIN c : k[1] = owner}
EndedAs(c, owner, end) == {k \in CallsBy(c, owner) : c[k].end = end}

Tally(c, owner) ==
  LET won == Cardinality(EndedAs(c, owner, "Survived"))
      lost == Cardinality(EndedAs(c, owner, "Faded"))
  IN [made |-> Cardinality(CallsBy(c, owner)),
      standing |-> Cardinality(EndedAs(c, owner, "Pending")),
      won |-> won, lost |-> lost, reputation |-> ReputationStep * (won - lost)]

\* The record and the escrow follow the ledger and the standings.
Follows ==
  /\ bonded' = {o \in DOMAIN standing' : standing'[o] = "open"}
  /\ record' = [o \in DOMAIN standing' |-> Tally(calls', o)]

Open(owner) ==
  /\ owner \notin DOMAIN standing
  /\ standing' = [o \in DOMAIN standing \cup {owner} |->
                    IF o = owner THEN "open" ELSE standing[o]]
  /\ UNCHANGED calls

Commit(owner, mint, commitment) ==
  /\ owner \in DOMAIN standing /\ standing[owner] = "open"
  /\ <<owner, mint>> \notin DOMAIN calls
  /\ calls' = [k \in DOMAIN calls \cup {<<owner, mint>>} |->
                 IF k = <<owner, mint>>
                 THEN [commitment |-> commitment, end |-> "Pending"]
                 ELSE calls[k]]
  /\ UNCHANGED standing

Settle(call, end) ==
  /\ call \in DOMAIN calls /\ calls[call].end = "Pending"
  /\ calls' = [calls EXCEPT ![call].end = end]
  /\ UNCHANGED standing

Close(owner) ==
  /\ owner \in DOMAIN standing /\ standing[owner] = "open"
  /\ EndedAs(calls, owner, "Pending") = {}
  /\ standing' = [standing EXCEPT ![owner] = "closed"]
  /\ UNCHANGED calls

Slash(owner) ==
  /\ owner \in DOMAIN standing /\ standing[owner] = "open"
  /\ standing' = [standing EXCEPT ![owner] = "slashed"]
  /\ UNCHANGED calls

Init ==
  /\ standing = [o \in {} |-> "open"]
  /\ bonded = {}
  /\ calls = [k \in {} |-> 0]
  /\ record = [o \in {} |-> 0]

Next ==
  /\ Follows
  /\ \/ \E o \in Wallets : Open(o) \/ Close(o) \/ Slash(o)
     \/ \E o \in Wallets, m \in Mints, c \in Commitments : Commit(o, m, c)
     \/ \E k \in Wallets \X Mints, end \in Settlements : Settle(k, end)

Spec == Init /\ [][Next]_ledger
=============================================================================
