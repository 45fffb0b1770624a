--------------------------- MODULE DevnetCycleProofs ---------------------------
(***************************************************************************)
(* The scripts of the devnet for any number of runs, attempts and faults:  *)
(* what devnet-cycle.ts writes down is on the chain, the gate that reads   *)
(* it passes, and set-stall-uri.ts passes only when no call was touched.   *)
(*                                                                         *)
(* A step that went through is never undone by a transaction that lands    *)
(* late (Happened), and the counts of the record only grow (Grown).        *)
(***************************************************************************)
EXTENDS DevnetTools, SumLemmas, SequenceTheorems

-----------------------------------------------------------------------------
(* The invariant *)

Keys == Runs \X Legs
Outcomes == {"none", "pending", "survived", "faded"}

WalletInv ==
  /\ market \in BOOLEAN /\ ata \in BOOLEAN /\ balance \in Nat
  /\ stall \in {"none", "open", "closed"} /\ (stall # "none" => market)

CallsInv ==
  /\ listings \in [Keys -> Outcomes] /\ crates \in [Runs -> Int]
  /\ \A k \in Keys : listings[k] # "none" => stall # "none"

ChainInv == WalletInv /\ CallsInv

\* What the i-th step of run n leaves on the chain.
Happened(n, i) ==
  /\ i = 6 => listings[<<n, "relic">>] # "none"
  /\ i = 7 => listings[<<n, "relic">>] = "survived"
  /\ i = 8 => crates[n] >= 0
  /\ i = 9 => crates[n] >= 1
  /\ i = 10 => listings[<<n, "fade">>] # "none"
  /\ i = 11 => listings[<<n, "fade">>] = "faded"

RunStates ==
  [n : Runs, pc : 1..12, stage : {"begin", "send", "failed", "done"}, fresh : BOOLEAN,
   attempt : 1..MaxAttempts, sigs : SUBSET Names]

\* The steps before pc of run r happened, and have their signatures.
StepsDone(r) ==
  /\ r \in RunStates
  /\ r.sigs \subseteq {Steps[i] : i \in 1..(r.pc - 1)}
  /\ \A i \in 6..11 : i < r.pc => Happened(r.n, i) /\ Steps[i] \in r.sigs

RunInv == StepsDone(run) /\ late \subseteq Runs \X Names

FileInv ==
  /\ file # NoFile =>
       /\ file.n \in Runs
       /\ \A i \in 6..11 : Happened(file.n, i) /\ Steps[i] \in file.sigs
  /\ verdict # "FAIL"

Count == Cardinality({k \in Keys : listings[k] # "none"})

\* The record has not shrunk since it was b, and some count of it has grown.
Grown(b) == b[1] <= Graded("survived") /\ b[2] <= Graded("faded") /\ b[3] <= Count
Differs(b) == b[1] < Graded("survived") \/ b[2] < Graded("faded") \/ b[3] < Count

UriStates ==
  [at : {"idle", "read", "sent", "PASS", "FAIL"}, before : Nat \X Nat \X Nat,
   touched : BOOLEAN]

UriInv ==
  /\ uri \in UriStates
  /\ uri.at \in {"read", "sent"} => Grown(uri.before) /\ (uri.touched => Differs(uri.before))
  /\ uri.at = "PASS" => ~uri.touched

ScriptsInv == ChainInv /\ RunInv /\ FileInv /\ UriInv

-----------------------------------------------------------------------------
(* The steps of a run *)

LEMMA StepNames ==
  /\ DOMAIN Steps = 1..12
  /\ Steps[1] = "createMint" /\ Steps[2] = "initialize_market" /\ Steps[3] = "createAta"
  /\ Steps[4] = "mintTo" /\ Steps[5] = "open_stall" /\ Steps[6] = "list_relic"
  /\ Steps[7] = "resolve_listing" /\ Steps[8] = "create_crate" /\ Steps[9] = "rebalance_crate"
  /\ Steps[10] = "list_fade" /\ Steps[11] = "resolve_fade" /\ Steps[12] = "write"
BY DEF Steps

\* A transaction changes one listing, forwards: a new call, or the grade of a pending one.
Moves(k, s) ==
  /\ k \in Keys /\ listings' = [listings EXCEPT ![k] = s]
  /\ \/ listings[k] = "none" /\ s = "pending"
     \/ listings[k] = "pending" /\ s \in {"survived", "faded"}

LEMMA LandsOnChain ==
  ASSUME ChainInv, NEW n \in Runs, NEW step \in Names, Lands(n, step)
  PROVE  /\ ChainInv'
         /\ listings' = listings \/ \E k, s : Moves(k, s)
         /\ \A m \in Runs : crates'[m] >= crates[m]
<1>0. /\ listings \in [Keys -> Outcomes] /\ crates \in [Runs -> Int]
      /\ <<n, "relic">> \in Keys /\ <<n, "fade">> \in Keys
  BY DEF ChainInv, CallsInv, Keys, Legs
<1>1. PICK leg : leg = Leg(step)
  OBVIOUS
<1>2. PICK k : k = <<n, leg>>
  OBVIOUS
<1>3. k \in Keys
  BY <1>0, <1>1, <1>2 DEF Leg
<1>4. stall' = (IF step = "open_stall" THEN "open" ELSE stall) /\ (stall # "none" => stall' # "none")
  BY DEF Lands
<1>5. WalletInv'
  <2>1. market' \in BOOLEAN /\ ata' \in BOOLEAN /\ (market => market')
    BY Zenon DEF Lands, ChainInv, WalletInv
  <2>2. CASE step = "open_stall"
    <3>1. market /\ balance > 0
      BY <2>2 DEF Lands, Can
    <3>2. balance' \in Nat /\ stall' = "open"
      BY <2>2, <3>1 DEF Lands, ChainInv, WalletInv
    <3>3. QED
      BY <2>1, <3>1, <3>2, Zenon DEF WalletInv
  <2>3. CASE step # "open_stall"
    <3>1. balance' \in Nat /\ stall' = stall
      BY <2>3 DEF Lands, ChainInv, WalletInv
    <3>2. QED
      BY <2>1, <3>1, Zenon DEF WalletInv, ChainInv
  <2>4. QED
    BY <2>2, <2>3
<1>6. crates' \in [Runs -> Int] /\ \A m \in Runs : crates'[m] >= crates[m]
  BY <1>0 DEF Lands
<1>7. CASE step \in {"list_relic", "list_fade"}
  <2>1. listings' = [listings EXCEPT ![k] = "pending"]
    BY <1>1, <1>2, <1>7 DEF Lands, Listed
  <2>2. listings[k] = "none" /\ stall = "open"
    BY <1>1, <1>2, <1>7 DEF Lands, Can
  <2>3. Moves(k, "pending")
    BY <1>3, <2>1, <2>2 DEF Moves
  <2>4. listings' \in [Keys -> Outcomes] /\ \A d \in Keys : listings'[d] # "none" => stall' # "none"
    BY <1>0, <1>3, <1>4, <2>1, <2>2 DEF ChainInv, CallsInv, Outcomes
  <2>5. QED
    BY <1>5, <1>6, <2>3, <2>4 DEF ChainInv, CallsInv
<1>8. CASE step \in {"resolve_listing", "resolve_fade"}
  <2>1. PICK s \in {"survived", "faded"} : listings' = [listings EXCEPT ![k] = s]
    BY <1>1, <1>2, <1>8 DEF Lands, Listed
  <2>2. listings[k] = "pending"
    BY <1>1, <1>2, <1>8 DEF Lands, Can
  <2>3. Moves(k, s)
    BY <1>3, <2>1, <2>2 DEF Moves
  <2>4. listings' \in [Keys -> Outcomes] /\ \A d \in Keys : listings'[d] # "none" => stall' # "none"
    BY <1>0, <1>3, <1>4, <2>1, <2>2 DEF ChainInv, CallsInv, Outcomes
  <2>5. QED
    BY <1>5, <1>6, <2>3, <2>4 DEF ChainInv, CallsInv
<1>9. CASE step \notin {"list_relic", "list_fade", "resolve_listing", "resolve_fade"}
  <2>1. listings' = listings
    BY <1>0, <1>9 DEF Lands, Listed
  <2>2. QED
    BY <1>0, <1>4, <1>5, <1>6, <2>1 DEF ChainInv, CallsInv
<1>10. QED
  BY <1>7, <1>8, <1>9

\* What happened is not undone.
LEMMA StillHappened ==
  ASSUME ChainInv, listings' = listings \/ \E k, s : Moves(k, s),
         crates \in [Runs -> Int], crates' \in [Runs -> Int],
         \A m \in Runs : crates'[m] >= crates[m],
         NEW n \in Runs, NEW i, Happened(n, i)
  PROVE  Happened(n, i)'
<1>0. /\ listings \in [Keys -> Outcomes]
      /\ <<n, "relic">> \in Keys /\ <<n, "fade">> \in Keys
  BY DEF ChainInv, CallsInv, Keys, Legs
<1>1. ASSUME NEW d \in Keys
      PROVE  /\ listings[d] # "none" => listings'[d] # "none"
             /\ listings[d] = "survived" => listings'[d] = "survived"
             /\ listings[d] = "faded" => listings'[d] = "faded"
  <2>1. ASSUME NEW k, NEW s, Moves(k, s)
        PROVE  /\ listings[d] # "none" => listings'[d] # "none"
               /\ listings[d] = "survived" => listings'[d] = "survived"
               /\ listings[d] = "faded" => listings'[d] = "faded"
    BY <1>0, <2>1 DEF Moves
  <2>2. QED
    BY <2>1
<1>2. crates'[n] >= crates[n] /\ crates[n] \in Int /\ crates'[n] \in Int
  OBVIOUS
<1>3. QED
  BY <1>0, <1>1, <1>2 DEF Happened

\* The transaction of a step that goes through leaves what the step is for.
LEMMA StepHappens ==
  ASSUME ChainInv, NEW n \in Runs, NEW i \in 6..11, Lands(n, Steps[i])
  PROVE  Happened(n, i)'
<1>0. /\ listings \in [Keys -> Outcomes] /\ crates \in [Runs -> Int]
      /\ <<n, "relic">> \in Keys /\ <<n, "fade">> \in Keys
  BY DEF ChainInv, CallsInv, Keys, Legs
<1>1. CASE i = 6 \/ i = 7
  BY <1>0, <1>1, StepNames DEF Lands, Listed, Leg, Happened
<1>2. CASE i = 10 \/ i = 11
  BY <1>0, <1>2, StepNames DEF Lands, Listed, Leg, Happened
<1>3. CASE i = 8 \/ i = 9
  <2>1. crates' = [crates EXCEPT ![n] = @ + 1]
    BY <1>3, StepNames DEF Lands
  <2>3. crates[n] >= i - 9
    BY <1>0, <1>3, StepNames DEF Lands, Can
  <2>2. QED
    BY <1>0, <1>3, <2>1, <2>3 DEF Happened
<1>4. QED
  BY <1>1, <1>2, <1>3

-----------------------------------------------------------------------------
(* The record *)

LEMMA CountsAreNat ==
  /\ IsFiniteSet(Keys)
  /\ \A S \in SUBSET Keys : IsFiniteSet(S) /\ Cardinality(S) \in Nat
<1>1. IsFiniteSet(Runs) /\ IsFiniteSet(Legs)
  <2>1. MaxRuns \in Int
    BY CycleAssumption
  <2>2. IsFiniteSet(Runs)
    BY <2>1, FS_Interval DEF Runs
  <2>3. IsFiniteSet({"relic"})
    BY FS_Singleton
  <2>4. IsFiniteSet({"relic"} \cup {"fade"})
    BY <2>3, FS_AddElement
  <2>5. {"relic"} \cup {"fade"} = Legs
    BY DEF Legs
  <2>6. QED
    BY <2>2, <2>4, <2>5
<1>2. IsFiniteSet(Keys)
  BY <1>1, FS_Product DEF Keys
<1>3. QED
  BY <1>2, FS_Subset, FS_CardinalityType

LEMMA RecordIs ==
  /\ Graded("survived") \in Nat /\ Graded("faded") \in Nat /\ Count \in Nat
  /\ Record = <<Graded("survived"), Graded("faded"), Count>>
<1>1. /\ {k \in Keys : listings[k] = "survived"} \in SUBSET Keys
      /\ {k \in Keys : listings[k] = "faded"} \in SUBSET Keys
      /\ {k \in Keys : listings[k] # "none"} \in SUBSET Keys
  OBVIOUS
<1>2. QED
  BY <1>1, CountsAreNat DEF Graded, Count, Record, Keys

\* Two sets of keys, one with one more key than the other.
LEMMA OneMore ==
  ASSUME NEW S \in SUBSET Keys, NEW k \in Keys, k \notin S
  PROVE  Cardinality(S \cup {k}) = Cardinality(S) + 1
BY CountsAreNat, FS_AddElement

LEMMA MoveCounts ==
  ASSUME ChainInv, NEW k, NEW s, Moves(k, s)
  PROVE  \A b \in Nat \X Nat \X Nat : Grown(b) => Grown(b)' /\ Differs(b)'
<1>1. PICK A, B, C : /\ A = {d \in Keys : listings[d] = "survived"}
                     /\ B = {d \in Keys : listings[d] = "faded"}
                     /\ C = {d \in Keys : listings[d] # "none"}
  OBVIOUS
<1>2. /\ Graded("survived") = Cardinality(A) /\ Graded("faded") = Cardinality(B)
      /\ Count = Cardinality(C)
  BY <1>1 DEF Graded, Count, Keys
<1>3. Cardinality(A) \in Nat /\ Cardinality(B) \in Nat /\ Cardinality(C) \in Nat
  BY <1>1, CountsAreNat
<1>4. k \in Keys /\ \A d \in Keys : listings'[d] = IF d = k THEN s ELSE listings[d]
  BY DEF Moves, ChainInv, CallsInv
<1>5. CASE s = "pending"
  <2>1. k \notin A /\ k \notin B /\ k \notin C
    BY <1>1, <1>5 DEF Moves
  <2>2. /\ A = {d \in Keys : listings'[d] = "survived"}
        /\ B = {d \in Keys : listings'[d] = "faded"}
        /\ C \cup {k} = {d \in Keys : listings'[d] # "none"}
    BY <1>1, <1>4, <1>5, <2>1
  <2>3. /\ Graded("survived")' = Cardinality(A) /\ Graded("faded")' = Cardinality(B)
        /\ Count' = Cardinality(C \cup {k})
    BY <2>2 DEF Graded, Count, Keys
  <2>4. Cardinality(C \cup {k}) = Cardinality(C) + 1
    BY <1>1, <1>4, <2>1, OneMore
  <2>5. QED
    BY <1>2, <1>3, <2>3, <2>4 DEF Grown, Differs
<1>6. CASE s = "survived"
  <2>1. k \notin A /\ k \notin B /\ k \in C
    BY <1>1, <1>4, <1>6 DEF Moves
  <2>2. /\ A \cup {k} = {d \in Keys : listings'[d] = "survived"}
        /\ B = {d \in Keys : listings'[d] = "faded"}
        /\ C = {d \in Keys : listings'[d] # "none"}
    BY <1>1, <1>4, <1>6, <2>1
  <2>3. /\ Graded("survived")' = Cardinality(A \cup {k}) /\ Graded("faded")' = Cardinality(B)
        /\ Count' = Cardinality(C)
    BY <2>2 DEF Graded, Count, Keys
  <2>4. Cardinality(A \cup {k}) = Cardinality(A) + 1
    BY <1>1, <1>4, <2>1, OneMore
  <2>5. QED
    BY <1>2, <1>3, <2>3, <2>4 DEF Grown, Differs
<1>7. CASE s = "faded"
  <2>1. k \notin A /\ k \notin B /\ k \in C
    BY <1>1, <1>4, <1>7 DEF Moves
  <2>2. /\ A = {d \in Keys : listings'[d] = "survived"}
        /\ B \cup {k} = {d \in Keys : listings'[d] = "faded"}
        /\ C = {d \in Keys : listings'[d] # "none"}
    BY <1>1, <1>4, <1>7, <2>1
  <2>3. /\ Graded("survived")' = Cardinality(A) /\ Graded("faded")' = Cardinality(B \cup {k})
        /\ Count' = Cardinality(C)
    BY <2>2 DEF Graded, Count, Keys
  <2>4. Cardinality(B \cup {k}) = Cardinality(B) + 1
    BY <1>1, <1>4, <2>1, OneMore
  <2>5. QED
    BY <1>2, <1>3, <2>3, <2>4 DEF Grown, Differs
<1>8. QED
  BY <1>5, <1>6, <1>7 DEF Moves

-----------------------------------------------------------------------------
(* What the steps do to the invariant *)

\* The chain goes forwards, or stays.
Forwards ==
  /\ ChainInv'
  /\ listings' = listings \/ \E k, s : Moves(k, s)
  /\ \A m \in Runs : crates'[m] >= crates[m]

\* The account of what is read around a new URI: a transaction notes that it touched it.
UriTold ==
  uri' = [uri EXCEPT !.touched = @ \/ (uri.at \in {"read", "sent"} /\ listings' # listings)]

LEMMA LandsForwards ==
  ASSUME ChainInv, NEW n \in Runs, NEW step \in Names, Lands(n, step)
  PROVE  Forwards /\ UriTold
BY LandsOnChain DEF Forwards, UriTold, Lands

LEMMA StaysForwards ==
  ASSUME ChainInv, UNCHANGED chain
  PROVE  Forwards
<1>1. crates \in [Runs -> Int]
  BY DEF ChainInv, CallsInv
<1>2. ChainInv'
  BY DEF ChainInv, WalletInv, CallsInv, chain
<1>3. QED
  BY <1>1, <1>2 DEF Forwards, chain

LEMMA HappenedForwards ==
  ASSUME ChainInv, Forwards, NEW n \in Runs, NEW i, Happened(n, i)
  PROVE  Happened(n, i)'
<1>1. crates \in [Runs -> Int] /\ crates' \in [Runs -> Int]
  BY DEF ChainInv, CallsInv, Forwards
<1>2. QED
  BY <1>1, StillHappened DEF Forwards

LEMMA UriForwards ==
  ASSUME ChainInv, UriInv, Forwards, UriTold
  PROVE  UriInv'
<1>1. PICK b : b = uri.before
  OBVIOUS
<1>2. b \in Nat \X Nat \X Nat
  BY <1>1 DEF UriInv, UriStates
<1>3. CASE listings' = listings
  <2>1. uri' = uri
    BY <1>3, Zenon DEF UriTold, UriInv, UriStates
  <2>2. Grown(b)' = Grown(b) /\ Differs(b)' = Differs(b)
    BY <1>3 DEF Grown, Differs, Graded, Count
  <2>3. QED
    BY <1>1, <2>1, <2>2 DEF UriInv
<1>4. ASSUME NEW k, NEW s, Moves(k, s) PROVE UriInv'
  <2>1. CASE uri.at \in {"read", "sent"}
    <3>1. Grown(b)' /\ Differs(b)'
      BY <1>1, <1>2, <1>4, <2>1, MoveCounts DEF UriInv
    <3>2. uri' \in UriStates /\ uri'.at = uri.at /\ uri'.before = b
      BY <1>1 DEF UriTold, UriInv, UriStates
    <3>3. QED
      BY <2>1, <3>1, <3>2 DEF UriInv
  <2>2. CASE uri.at \notin {"read", "sent"}
    <3>1. uri' = uri
      BY <2>2, Zenon DEF UriTold, UriInv, UriStates
    <3>2. QED
      BY <2>2, <3>1 DEF UriInv
  <2>3. QED
    BY <2>1, <2>2
<1>5. QED
  BY <1>3, <1>4 DEF Forwards

\* The record as it is read: it has not shrunk since, and nothing was touched.
LEMMA RecordNow ==
  /\ Record \in Nat \X Nat \X Nat /\ Grown(Record)
  /\ \A b \in Nat \X Nat \X Nat : Record = b => ~Differs(b)
BY RecordIs DEF Grown, Differs

\* A run that is under way, and the state file of one that has ended, stay true.
LEMMA DoneForwards ==
  ASSUME ChainInv, Forwards, NEW r, StepsDone(r)
  PROVE  StepsDone(r)'
<1>1. r.n \in Runs
  BY DEF StepsDone, RunStates
<1>2. \A i \in 6..11 : Happened(r.n, i) => Happened(r.n, i)'
  BY <1>1, HappenedForwards
<1>3. QED
  BY <1>2 DEF StepsDone

LEMMA FileForwards ==
  ASSUME ChainInv, FileInv, Forwards, UNCHANGED <<file, verdict>>
  PROVE  FileInv'
<1>1. file # NoFile => \A i \in 6..11 : Happened(file.n, i)'
  BY HappenedForwards DEF FileInv
<1>2. QED
  BY <1>1 DEF FileInv

\* A run that another attempt, a failure or the next step continues.
LEMMA DoneOther ==
  ASSUME NEW r, StepsDone(r)
  PROVE  /\ \A st \in {"begin", "send", "failed", "done"} : StepsDone([r EXCEPT !.stage = st])
         /\ \A a \in 1..MaxAttempts : StepsDone([r EXCEPT !.attempt = a])
BY DEF StepsDone, RunStates

LEMMA NewRunDone ==
  ASSUME WalletInv, NEW n \in Runs
  PROVE  StepsDone(NewRun(n))
<1>1. 1 \in 1..MaxAttempts
  BY CycleAssumption
<1>2. NewRun(n) \in RunStates
  BY <1>1 DEF NewRun, RunStates, WalletInv
<1>3. NewRun(n).pc = 1 /\ NewRun(n).sigs = {}
  BY DEF NewRun
<1>4. QED
  BY <1>2, <1>3 DEF StepsDone

-----------------------------------------------------------------------------
(* One lemma for each kind of step *)

LEMMA NextStepIs ==
  ASSUME run \in RunStates, run.pc \in 1..11
  PROVE  /\ NextStep \in RunStates /\ NextStep.n = run.n /\ NextStep.pc = run.pc + 1
         /\ NextStep.sigs = run.sigs
<1>1. run.pc + 1 \in 1..12 /\ 1 \in 1..MaxAttempts /\ "begin" \in {"begin", "send", "failed", "done"}
  BY CycleAssumption
<1>2. PICK r : r = [run EXCEPT !.pc = run.pc + 1, !.stage = "begin", !.attempt = 1]
  OBVIOUS
<1>3. r \in RunStates
  BY <1>1, <1>2 DEF RunStates
<1>4. r.n = run.n /\ r.pc = run.pc + 1 /\ r.sigs = run.sigs
  BY <1>2 DEF RunStates
<1>5. NextStep = r
  BY <1>2 DEF NextStep, RunStates
<1>6. QED
  BY <1>3, <1>4, <1>5

LEMMA BeginStep ==
  ASSUME RunInv, Begin
  PROVE  StepsDone(run')
<1>1. StepsDone(run) /\ run.pc \in 1..12 /\ MaxAttempts \in Nat \ {0}
  BY CycleAssumption DEF RunInv, StepsDone, RunStates
<1>2. CASE Needed
  BY <1>1, <1>2, DoneOther DEF Begin
<1>3. CASE ~Needed
  <2>1. run' = NextStep
    BY <1>3 DEF Begin
  <2>2. run.pc \in 1..11
    BY <1>1, StepNames DEF Begin, Step
  <2>3. run.pc \notin 6..11
    BY <1>3, <2>2, StepNames DEF Needed, Step
  <2>4. /\ run' \in RunStates /\ run'.pc = run.pc + 1 /\ run'.sigs = run.sigs /\ run'.n = run.n
    BY <1>1, <2>1, <2>2, NextStepIs DEF StepsDone
  <2>5. run'.sigs \subseteq {Steps[i] : i \in 1..(run'.pc - 1)}
    BY <1>1, <2>2, <2>4 DEF StepsDone
  <2>6. \A i \in 6..11 : i < run'.pc => i < run.pc
    BY <2>2, <2>3, <2>4
  <2>7. QED
    BY <1>1, <2>4, <2>5, <2>6 DEF StepsDone
<1>4. QED
  BY <1>2, <1>3

LEMMA SendStep ==
  ASSUME ChainInv, RunInv, Forwards, Send
  PROVE  StepsDone(run)'
<1>1. StepsDone(run) /\ run \in RunStates /\ MaxAttempts \in Nat \ {0}
  BY CycleAssumption DEF RunInv, StepsDone
<1>2. run.pc \in 1..12 /\ run.n \in Runs
  BY <1>1 DEF RunStates
<1>3. PICK step : step = Steps[run.pc]
  OBVIOUS
<1>4. Lands(run.n, step)
  BY <1>3 DEF Send, Step
<1>5. run.pc \in 1..11
  <2>1. step # "write"
    BY <1>4 DEF Lands, Can
  <2>2. QED
    BY <1>2, <1>3, <2>1, StepNames
<1>6. PICK r : r = NextStep
  OBVIOUS
<1>7. /\ r.n = run.n /\ r.pc = run.pc + 1 /\ r.sigs = run.sigs /\ r \in RunStates
  BY <1>1, <1>5, <1>6, NextStepIs
<1>8. run' = [r EXCEPT !.sigs = @ \cup {step}]
  BY <1>3, <1>6 DEF Send, Step
<1>9. step \in Names
  BY <1>2, <1>3, StepNames DEF Names
<1>10. /\ run' \in RunStates /\ run'.n = run.n /\ run'.pc = run.pc + 1
       /\ run'.sigs = run.sigs \cup {step}
  BY <1>7, <1>8, <1>9 DEF RunStates
<1>11. run'.sigs \subseteq {Steps[i] : i \in 1..(run'.pc - 1)}
  BY <1>1, <1>3, <1>5, <1>10 DEF StepsDone
<1>12. ASSUME NEW i \in 6..11, i < run'.pc
       PROVE  Happened(run.n, i)' /\ Steps[i] \in run'.sigs
  <2>1. CASE i = run.pc
    BY <1>2, <1>3, <1>4, <1>10, <2>1, StepHappens
  <2>2. CASE i # run.pc
    <3>1. i < run.pc
      BY <1>5, <1>10, <1>12, <2>2
    <3>2. QED
      BY <1>1, <1>2, <1>10, <3>1, HappenedForwards DEF StepsDone
  <2>3. QED
    BY <2>1, <2>2
<1>13. QED
  BY <1>10, <1>11, <1>12 DEF StepsDone

LEMMA WriteStep ==
  ASSUME RunInv, FileInv, Write
  PROVE  StepsDone(run') /\ FileInv'
<1>1. StepsDone(run) /\ run.n \in Runs /\ run.pc \in 1..12
  BY DEF RunInv, StepsDone, RunStates
<1>2. StepsDone(run')
  BY <1>1, DoneOther DEF Write
<1>3. run.pc = 12
  BY <1>1, StepNames DEF Write, Step
<1>4. \A i \in 6..11 : Happened(run.n, i) /\ Steps[i] \in run.sigs
  BY <1>1, <1>3 DEF StepsDone
<1>5. UNCHANGED <<listings, crates, verdict>>
  BY DEF Write, chain
<1>6. PICK f : f = [n |-> run.n, sigs |-> run.sigs]
  OBVIOUS
<1>7. file' = f /\ f.n \in Runs /\ \A i \in 6..11 : Happened(f.n, i) /\ Steps[i] \in f.sigs
  BY <1>1, <1>4, <1>6 DEF Write
<1>8. FileInv'
  BY <1>5, <1>7 DEF FileInv, Happened
<1>9. QED
  BY <1>2, <1>8

\* The gate reads both columns of the stall, in which the run that wrote the file stands.
LEMMA VerifyStep ==
  ASSUME FileInv, ChainInv, Verify
  PROVE  FileInv'
<1>1. file # NoFile /\ file.n \in Runs
  BY DEF Verify, FileInv
<1>2. listings[<<file.n, "relic">>] = "survived" /\ listings[<<file.n, "fade">>] = "faded"
  <2>1. Happened(file.n, 7) /\ Happened(file.n, 11)
    BY <1>1 DEF FileInv
  <2>2. QED
    BY <2>1 DEF Happened
<1>3. <<file.n, "relic">> \in Keys /\ <<file.n, "fade">> \in Keys
  BY <1>1 DEF Keys, Legs
<1>4. PICK A, B : /\ A = {k \in Keys : listings[k] = "survived"}
                  /\ B = {k \in Keys : listings[k] = "faded"}
  OBVIOUS
<1>5. A # {} /\ B # {}
  BY <1>2, <1>3, <1>4
<1>6. /\ IsFiniteSet(A) /\ IsFiniteSet(B)
      /\ Cardinality(A) \in Nat /\ Cardinality(B) \in Nat
  BY <1>4, CountsAreNat
<1>7. Cardinality(A) > 0 /\ Cardinality(B) > 0
  BY <1>5, <1>6, FS_EmptySet
<1>8. Graded("survived") = Cardinality(A) /\ Graded("faded") = Cardinality(B)
  BY <1>4 DEF Graded, Keys
<1>9. verdict' # "FAIL"
  BY <1>7, <1>8 DEF Verify
<1>10. UNCHANGED <<file, listings, crates>>
  BY DEF Verify, chain
<1>11. QED
  BY <1>9, <1>10 DEF FileInv, Happened

LEMMA UriStep ==
  ASSUME UriInv, ChainInv, UriBefore \/ UriSend \/ UriAfter
  PROVE  UriInv'
<1>1. UNCHANGED listings /\ UNCHANGED <<file, verdict>>
  BY DEF UriBefore, UriSend, UriAfter, chain
<1>2. \A b : Grown(b)' = Grown(b) /\ Differs(b)' = Differs(b)
  BY <1>1 DEF Grown, Differs, Graded, Count
<1>3. CASE UriBefore
  <2>1. PICK b : b = Record
    OBVIOUS
  <2>2. b \in Nat \X Nat \X Nat /\ Grown(b)
    BY <2>1, RecordNow
  <2>3. uri' = [at |-> "read", before |-> b, touched |-> FALSE]
    BY <1>3, <2>1 DEF UriBefore
  <2>4. uri' \in UriStates /\ uri'.at = "read" /\ uri'.before = b /\ ~uri'.touched
    BY <2>2, <2>3 DEF UriStates
  <2>5. QED
    BY <1>2, <2>2, <2>4 DEF UriInv
<1>4. CASE UriSend
  <2>1. PICK at \in {"sent", "FAIL"} : uri' = [uri EXCEPT !.at = at]
    BY <1>4 DEF UriSend
  <2>2. /\ uri' \in UriStates /\ uri'.at = at /\ uri'.before = uri.before
        /\ uri'.touched = uri.touched
    BY <2>1 DEF UriInv, UriStates
  <2>3. uri.at = "read"
    BY <1>4 DEF UriSend
  <2>4. QED
    BY <1>2, <2>2, <2>3 DEF UriInv
<1>5. CASE UriAfter
  <2>1. PICK at \in {"PASS", "FAIL"} : uri' = [uri EXCEPT !.at = at] /\ (at = "PASS" => Preserved)
    BY <1>5 DEF UriAfter
  <2>2. uri' \in UriStates /\ uri'.at = at /\ uri'.touched = uri.touched
    BY <2>1 DEF UriInv, UriStates
  <2>3. at = "PASS" => ~uri.touched
    <3>1. uri.before \in Nat \X Nat \X Nat /\ (uri.touched => Differs(uri.before))
      BY <1>5 DEF UriAfter, UriInv, UriStates
    <3>2. QED
      BY <2>1, <3>1, RecordNow DEF Preserved
  <2>4. QED
    BY <2>2, <2>3 DEF UriInv
<1>6. QED
  BY <1>3, <1>4, <1>5

\* A run that is where it should be, whatever became of the chain.
LEMMA RunGoesOn ==
  ASSUME ScriptsInv, Forwards, StepsDone(run)', late' \subseteq Runs \X Names,
         UNCHANGED <<file, verdict>>, UriTold \/ UNCHANGED <<uri, listings>>
  PROVE  ScriptsInv'
<1>0. ChainInv /\ RunInv /\ FileInv /\ UriInv
  BY DEF ScriptsInv
<1>1. RunInv'
  BY DEF RunInv
<1>2. FileInv'
  BY <1>0, FileForwards
<1>3. UriInv'
  <2>1. CASE UriTold
    BY <1>0, <2>1, UriForwards
  <2>2. CASE UNCHANGED <<uri, listings>>
    BY <1>0, <2>2 DEF UriInv, Grown, Differs, Graded, Count
  <2>3. QED
    BY <2>1, <2>2
<1>4. QED
  BY <1>1, <1>2, <1>3 DEF ScriptsInv, Forwards

LEMMA SameChain ==
  ASSUME ScriptsInv, UNCHANGED chain, StepsDone(run')
  PROVE  Forwards /\ StepsDone(run)' /\ UNCHANGED listings
<1>1. Forwards
  BY StaysForwards DEF ScriptsInv
<1>2. UNCHANGED <<listings, crates>>
  BY DEF chain
<1>3. QED
  BY <1>1, <1>2 DEF StepsDone, Happened

LEMMA ScriptsInvStep == ScriptsInv /\ [Next]_vars => ScriptsInv'
<1> SUFFICES ASSUME ScriptsInv, [Next]_vars PROVE ScriptsInv'
  OBVIOUS
<1>0. ChainInv /\ WalletInv /\ RunInv /\ FileInv /\ UriInv
  BY DEF ScriptsInv, ChainInv
<1>1. StepsDone(run) /\ run.n \in Runs /\ run.pc \in 1..12 /\ late \subseteq Runs \X Names
  BY <1>0 DEF RunInv, StepsDone, RunStates
<1>2. Step \in Names
  BY <1>1, StepNames DEF Step, Names
<1>3. StepsDone(Failed) /\ StepsDone(Retried)
  <2>1. StepsDone(Failed)
    BY <1>1, DoneOther DEF Failed
  <2>2. run.attempt # MaxAttempts => run.attempt + 1 \in 1..MaxAttempts
    BY <1>1, CycleAssumption DEF StepsDone, RunStates
  <2>3. QED
    BY <1>1, <2>1, <2>2, DoneOther DEF Retried
<1>4. CASE UNCHANGED <<chain, late, file, uri, verdict>> /\ StepsDone(run')
  BY <1>1, <1>4, SameChain, RunGoesOn
<1>5. CASE Start
  <2>1. run.n + 1 \in Runs
    BY <1>1, <1>5, CycleAssumption DEF Start, Runs
  <2>2. QED
    BY <1>0, <1>4, <1>5, <2>1, NewRunDone DEF Start
<1>6. CASE Begin
  BY <1>0, <1>4, <1>6, BeginStep DEF Begin
<1>7. CASE Refuse \/ Crash
  BY <1>3, <1>4, <1>7 DEF Refuse, Crash
<1>8. CASE Send
  <2>1. Forwards /\ UriTold
    BY <1>0, <1>1, <1>2, <1>8, LandsForwards DEF Send
  <2>2. StepsDone(run)'
    BY <1>0, <1>8, <2>1, SendStep
  <2>3. QED
    BY <1>1, <1>8, <2>1, <2>2, RunGoesOn DEF Send
<1>9. CASE Lose
  <2>1. PICK r : r = Retried
    OBVIOUS
  <2>2. run' = r /\ UNCHANGED <<file, verdict>> /\ late' \subseteq Runs \X Names /\ StepsDone(r)
    BY <1>1, <1>2, <1>3, <1>9, <2>1 DEF Lose
  <2>3. CASE Lands(run.n, Step)
    <3>1. Forwards /\ UriTold
      BY <1>0, <1>1, <1>2, <2>3, LandsForwards
    <3>2. StepsDone(r)'
      BY <1>0, <2>2, <3>1, DoneForwards
    <3>3. StepsDone(run)'
      BY <2>2, <3>2
    <3>4. QED
      BY <2>2, <3>1, <3>3, RunGoesOn
  <2>4. CASE UNCHANGED <<chain, uri>>
    <3>1. StepsDone(run')
      BY <2>2
    <3>2. QED
      BY <2>2, <2>4, <3>1, SameChain, RunGoesOn
  <2>5. QED
    BY <1>9, <2>3, <2>4 DEF Lose
<1>10. ASSUME NEW tx \in late, LandsLate(tx) PROVE ScriptsInv'
  <2>1. tx[1] \in Runs /\ tx[2] \in Names /\ late' \subseteq Runs \X Names
    BY <1>1, <1>10 DEF LandsLate
  <2>2. UNCHANGED <<run, file, verdict>>
    BY <1>10 DEF LandsLate
  <2>3. CASE Lands(tx[1], tx[2])
    <3>1. Forwards /\ UriTold
      BY <1>0, <2>1, <2>3, LandsForwards
    <3>2. PICK r : r = run
      OBVIOUS
    <3>3. StepsDone(r)'
      BY <1>0, <1>1, <3>1, <3>2, DoneForwards
    <3>4. StepsDone(run)'
      BY <2>2, <3>2, <3>3
    <3>5. QED
      BY <2>1, <2>2, <3>1, <3>4, RunGoesOn
  <2>4. CASE UNCHANGED <<chain, uri>>
    <3>1. StepsDone(run')
      BY <1>1, <2>2
    <3>2. QED
      BY <2>1, <2>2, <2>4, <3>1, SameChain, RunGoesOn
  <2>5. QED
    BY <1>10, <2>3, <2>4 DEF LandsLate
<1>11. CASE Write
  <2>1. StepsDone(run') /\ FileInv' /\ UNCHANGED <<chain, late, uri, verdict>>
    BY <1>0, <1>11, WriteStep DEF Write
  <2>2. Forwards /\ StepsDone(run)' /\ UNCHANGED listings
    BY <2>1, SameChain
  <2>3. UriInv'
    BY <1>0, <2>1, <2>2 DEF UriInv, Grown, Differs, Graded, Count
  <2>4. RunInv'
    BY <1>1, <2>1, <2>2 DEF RunInv
  <2>5. QED
    BY <2>1, <2>2, <2>3, <2>4 DEF ScriptsInv, Forwards
<1>12. CASE Verify
  <2>1. FileInv' /\ UNCHANGED <<chain, late, run, file, uri>>
    BY <1>0, <1>12, VerifyStep DEF Verify
  <2>2. Forwards /\ StepsDone(run)' /\ UNCHANGED listings
    BY <1>1, <2>1, SameChain
  <2>3. UriInv'
    BY <1>0, <2>1, <2>2 DEF UriInv, Grown, Differs, Graded, Count
  <2>4. RunInv'
    BY <1>1, <2>1, <2>2 DEF RunInv
  <2>5. QED
    BY <2>1, <2>2, <2>3, <2>4 DEF ScriptsInv, Forwards
<1>13. CASE UriBefore \/ UriSend \/ UriAfter
  <2>1. UriInv' /\ UNCHANGED <<chain, late, run, file, verdict>>
    BY <1>0, <1>13, UriStep DEF UriBefore, UriSend, UriAfter
  <2>2. Forwards /\ StepsDone(run)'
    BY <1>1, <2>1, SameChain
  <2>3. FileInv'
    BY <1>0, <2>1, <2>2, FileForwards
  <2>4. RunInv'
    BY <1>1, <2>1, <2>2 DEF RunInv
  <2>5. QED
    BY <2>1, <2>2, <2>3, <2>4 DEF ScriptsInv, Forwards
<1>14. CASE CloseStall
  <2>1. stall' = "closed" /\ stall = "open" /\ UNCHANGED <<market, ata, balance, listings, crates>>
    BY <1>14 DEF CloseStall
  <2>2. WalletInv' /\ CallsInv'
    BY <1>0, <2>1 DEF ChainInv, WalletInv, CallsInv
  <2>3. Forwards
    BY <1>0, <2>1, <2>2 DEF Forwards, ChainInv, CallsInv
  <2>4. UNCHANGED <<late, run, file, uri, verdict>>
    BY <1>14 DEF CloseStall
  <2>5. StepsDone(run)'
    BY <1>1, <2>1, <2>4 DEF StepsDone, Happened
  <2>6. QED
    BY <1>1, <2>1, <2>3, <2>4, <2>5, RunGoesOn
<1>15. CASE UNCHANGED vars
  BY <1>1, <1>4, <1>15 DEF vars
<1>16. QED
  BY <1>5, <1>6, <1>7, <1>8, <1>9, <1>10, <1>11, <1>12, <1>13, <1>14, <1>15 DEF Next, RunNext

-----------------------------------------------------------------------------
(* The theorem *)

LEMMA ScriptsInvInit == Init => ScriptsInv
<1> SUFFICES ASSUME Init PROVE ScriptsInv
  OBVIOUS
<1>1. WalletInv
  BY DEF Init, WalletInv
<1>2. CallsInv
  BY DEF Init, CallsInv, Keys, Outcomes
<1>3. RunInv
  <2>1. 1 \in Runs
    BY CycleAssumption DEF Runs
  <2>2. run = NewRun(1) /\ late = {}
    BY DEF Init
  <2>3. QED
    BY <1>1, <2>1, <2>2, NewRunDone DEF RunInv
<1>4. FileInv
  BY DEF Init, FileInv
<1>5. UriInv
  <2>1. PICK b : b = Record
    OBVIOUS
  <2>2. uri = [at |-> "idle", before |-> b, touched |-> FALSE]
    BY <2>1 DEF Init
  <2>3. b \in Nat \X Nat \X Nat
    BY <2>1, RecordNow
  <2>4. QED
    BY <2>2, <2>3 DEF UriInv, UriStates
<1>6. QED
  BY <1>1, <1>2, <1>3, <1>4, <1>5 DEF ScriptsInv, ChainInv

LEMMA ScriptsInvSound == ScriptsInv => ScriptsSound
<1> SUFFICES ASSUME ScriptsInv PROVE ScriptsSound
  OBVIOUS
<1>0. WalletInv /\ CallsInv /\ RunInv /\ FileInv /\ UriInv
  BY DEF ScriptsInv, ChainInv
<1>1. CycleTypeOK
  <2>1. /\ run.pc \in DOMAIN Steps /\ run.attempt \in 1..MaxAttempts
        /\ run.stage \in {"begin", "send", "failed", "done"}
        /\ run.sigs \subseteq {Steps[i] : i \in 1..(run.pc - 1)}
    BY <1>0, StepNames DEF RunInv, StepsDone, RunStates
  <2>2. /\ {market, ata} \subseteq BOOLEAN /\ balance \in Nat
        /\ stall \in {"none", "open", "closed"} /\ (stall # "none" => market)
    BY <1>0, Zenon DEF WalletInv
  <2>3. \A k \in Runs \X Legs : listings[k] # "none" => stall # "none"
    BY <1>0 DEF CallsInv, Keys
  <2>4. QED
    BY <1>0, <2>1, <2>2, <2>3, Zenon DEF CycleTypeOK, RunInv
<1>2. FileIsTrue
  <2>1. SUFFICES ASSUME file # NoFile PROVE FileIsTrue
    BY DEF FileIsTrue
  <2>2. \A i \in 6..11 : Happened(file.n, i) /\ Steps[i] \in file.sigs
    BY <1>0, <2>1 DEF FileInv
  <2>3. Happened(file.n, 7) /\ Happened(file.n, 9) /\ Happened(file.n, 11)
    BY <2>2
  <2>4. QED
    BY <2>2, <2>3 DEF FileIsTrue, Happened
<1>3. VerifyPasses /\ UriPassIsTrue
  BY <1>0 DEF VerifyPasses, UriPassIsTrue, FileInv, UriInv
<1>4. QED
  BY <1>1, <1>2, <1>3 DEF ScriptsSound

\* For any number of runs, attempts and faults, and whatever lands late: a state file that
\* devnet-cycle.ts has written names a run whose calls were both graded on the chain and
\* whose crate was rebalanced, with the signature of each; verify-devnet.ts never fails it;
\* and set-stall-uri.ts passes only when no call was made or graded between its two reads.
THEOREM ScriptsAlwaysSound == Spec => []ScriptsSound
<1>1. Init => ScriptsInv
  BY ScriptsInvInit
<1>2. ScriptsInv /\ [Next]_vars => ScriptsInv'
  BY ScriptsInvStep
<1>3. ScriptsInv => ScriptsSound
  BY ScriptsInvSound
<1>4. QED
  BY <1>1, <1>2, <1>3, PTL DEF Spec

-----------------------------------------------------------------------------
(* The check of the IDL *)

\* Where what the expressions find and what the source has differ, a text shows why.
LEMMA MisreadIsWritten ==
  ASSUME NEW input, input.unread = {}, NEW kind, NEW item \in Items
  PROVE  /\ item \in Extracted(input, kind) =>
              item \in InSource(input, kind)
                \/ \E t \in TextsOf(kind) : input.text[t][item] = "comment"
         /\ item \notin Extracted(input, kind) =>
              \A t \in TextsOf(kind) : input.text[t][item] \notin Matched
<1>1. TextsOf(kind) \ input.unread = TextsOf(kind)
  OBVIOUS
<1>2. item \in Extracted(input, kind) <=> \E t \in TextsOf(kind) : input.text[t][item] \in Matched
  BY <1>1 DEF Extracted
<1>3. item \in InSource(input, kind) <=> \E t \in TextsOf(kind) : input.text[t][item] \in Declared
  BY DEF InSource
<1>4. QED
  BY <1>2, <1>3 DEF Matched, Declared

\* Of any source, with its comments, and any IDL: when the check passes the two are under one
\* address and one name, and each item that only one of them has is commented out in the
\* source, or is written there in a form that the expressions do not match.  An IDL that is
\* right never passes by a source that was misread.
THEOREM PassIsAgreement == PassMeansAgreement
<1> SUFFICES ASSUME NEW input \in Inputs, Verdict(input) = "PASS"
             PROVE  /\ Cardinality({input.address[place] : place \in Places \cup {"idl"}}) = 1
                    /\ input.libName = "same"
                    /\ \A kind \in Kinds :
                         /\ \A item \in input.idl[kind] \ InSource(input, kind) :
                              \E t \in TextsOf(kind) : input.text[t][item] = "comment"
                         /\ \A item \in InSource(input, kind) \ input.idl[kind], t \in TextsOf(kind) :
                              input.text[t][item] \notin Matched
                         /\ input.idl[kind] = InSource(input, kind) =>
                              Extracted(input, kind) = InSource(input, kind)
  BY DEF PassMeansAgreement
<1>1. /\ input.unread = {} /\ input.libName = "same"
      /\ \A place \in Places : input.address[place] = input.address["idl"]
      /\ \A kind \in Kinds : input.idl[kind] = Extracted(input, kind)
  BY DEF Verdict, SelfFailed, SameSets
<1>2. {input.address[place] : place \in Places \cup {"idl"}} = {input.address["idl"]}
  BY <1>1
<1>3. Cardinality({input.address["idl"]}) = 1
  BY FS_Singleton
<1>4. ASSUME NEW kind \in Kinds, NEW item \in input.idl[kind] \ InSource(input, kind)
      PROVE  \E t \in TextsOf(kind) : input.text[t][item] = "comment"
  <2>1. item \in Extracted(input, kind) /\ item \in Items
    BY <1>1, <1>4 DEF Extracted
  <2>2. QED
    BY <1>1, <1>4, <2>1, MisreadIsWritten
<1>5. ASSUME NEW kind \in Kinds, NEW item \in InSource(input, kind) \ input.idl[kind],
             NEW t \in TextsOf(kind)
      PROVE  input.text[t][item] \notin Matched
  <2>1. item \notin Extracted(input, kind) /\ item \in Items
    BY <1>1, <1>5 DEF InSource
  <2>2. QED
    BY <1>1, <2>1, MisreadIsWritten
<1>6. QED
  BY <1>1, <1>2, <1>3, <1>4, <1>5

\* Whatever was not read or not found, the verdict is that the check could not run.
THEOREM UnreadNeverPasses == UnreadIsSelfFail
<1> SUFFICES ASSUME NEW input \in Inputs,
                    \/ input.unread # {}
                    \/ input.libName = "missing"
                    \/ \E place \in Places \cup {"idl"} : input.address[place] = NoId
                    \/ \E kind \in Kinds : \A t \in TextsOf(kind), item \in Items :
                         input.text[t][item] \notin Matched
             PROVE  SelfFailed(input)
  BY DEF UnreadIsSelfFail, Verdict
<1>1. CASE input.unread # {} \/ input.libName = "missing"
  BY <1>1 DEF SelfFailed
<1>2. CASE \E place \in Places \cup {"idl"} : input.address[place] = NoId
  BY <1>2 DEF SelfFailed
<1>3. ASSUME NEW kind \in Kinds,
             \A t \in TextsOf(kind), item \in Items : input.text[t][item] \notin Matched
      PROVE  SelfFailed(input)
  <2>1. Extracted(input, kind) = {}
    BY <1>3 DEF Extracted
  <2>2. QED
    BY <2>1 DEF SelfFailed
<1>4. QED
  BY <1>1, <1>2, <1>3

-----------------------------------------------------------------------------
(* The release build *)

\* A build ends at the first step that fails, or where it is stopped.
LEMMA EndIsFirst ==
  ASSUME NEW c, NEW fault \in 0..Done
  PROVE  /\ EndOf(c, fault) \in 0..Done
         /\ \A s \in 0..(EndOf(c, fault) - 1) : s # fault /\ ~Fails(c, s)
<1> DEFINE Ends == {s \in 0..Done : s = fault \/ s = Done \/ Fails(c, s)}
<1>0. Ends \in SUBSET Nat /\ Done \in Ends /\ Ends \subseteq 0..Done
  BY DEF Done
<1>1. PICK step \in Ends : \A s \in Ends : step <= s
  <2> HIDE DEF Ends
  <2>1. QED
    BY <1>0, LeastOf
<1>2. \A s \in 0..(step - 1) : s \in 0..Done /\ s < step
  BY <1>0, <1>1 DEF Done
<1>3. \A s \in 0..(step - 1) : s # fault /\ ~Fails(c, s)
  BY <1>1, <1>2
<1>4. step \in 0..Done /\ (step = fault \/ step = Done \/ Fails(c, step))
  BY <1>1
<1>5. QED
  BY <1>3, <1>4 DEF EndOf

\* Of any checkout, whatever call fails: a build that passes leaves one archive, which holds
\* what the manifest refers to, the bundles, the manifest, and no sourcemap of its own accord.
THEOREM PassedBuildIsWhole == BuildPassIsWhole
<1> SUFFICES ASSUME NEW c \in Checkouts, NEW fault \in 0..Done, BuildVerdict(c, fault) = "PASS",
                    NEW zips \in ZipsAfter({}, c, fault)
             PROVE  \E zip \in zips :
                      /\ zips = {zip} /\ zip.version = c.version
                      /\ c.refs \cup Bundles \cup {Manifest} \subseteq zip.names
                      /\ (zip.names \cap Maps # {}) => c.dev
  BY DEF BuildPassIsWhole
<1>1. EndOf(c, fault) = Done
  BY DEF BuildVerdict
<1>2. ~Fails(c, WriteManifest) /\ ~Fails(c, CheckFiles)
  BY <1>1, EndIsFirst DEF Done, WriteManifest, CheckFiles
<1>3. zips = {Zip(c, Unpacked(c, WriteZip))}
  BY <1>1 DEF ZipsAfter, ZipsLeft, Done, WriteZip, Reset
<1>4. c.refs \subseteq Unpacked(c, WriteManifest)
  BY <1>2 DEF Fails, RefsFound
<1>5. c.dev \/ Unpacked(c, CheckFiles) \cap Maps = {}
  BY <1>2 DEF Fails
<1>6. /\ Unpacked(c, WriteManifest) \subseteq Unpacked(c, WriteZip)
      /\ Unpacked(c, CheckFiles) = Unpacked(c, WriteZip)
      /\ Bundles \cup {Manifest} \subseteq Unpacked(c, WriteZip)
  BY DEF Unpacked, WriteManifest, CheckFiles, WriteZip, Bundle, CopyStatics, CopyIcons
<1>7. QED
  BY <1>3, <1>4, <1>5, <1>6 DEF Zip

\* Wherever a build ends once it has begun to write, no archive of an earlier one is left.
THEOREM OldArchivesGo == NoArchiveOfAnother
<1> SUFFICES ASSUME NEW d, NEW fault \in 1..Done, NEW first,
                    NEW second \in ZipsAfter(first, d, fault), EndOf(d, fault) > Reset,
                    NEW zip \in second
             PROVE  zip.of = d
  BY DEF NoArchiveOfAnother
<1>1. ZipsLeft(first, EndOf(d, fault)) = {}
  BY DEF ZipsLeft
<1>2. second \in {{}, {Zip(d, Unpacked(d, WriteZip))}, {Zip(d, {})}}
  BY <1>1 DEF ZipsAfter
<1>3. QED
  BY <1>2 DEF Zip

-----------------------------------------------------------------------------
(* What an entry takes of the archive *)

Entries == RawNames \X Contents
LocalSize(entry) == LocalHeader + Len(Name(entry)) + Payload(entry)
CentralSize(entry) == CentralHeader + Len(Name(entry))

\* A name that was made regular is a sequence.
LEMMA NameHasLength ==
  ASSUME NEW raw \in RawNames
  PROVE  Len(NormalizedName(raw)) \in Nat
<1> DEFINE slashed == [i \in DOMAIN raw |-> IF raw[i] = "\\" THEN "/" ELSE raw[i]]
           Firsts == {i \in 1..(Len(raw) + 1) : i <= Len(raw) => slashed[i] # "/"}
<1>1. raw \in Seq({"a", ".", "/", "\\"}) /\ Len(raw) \in Nat /\ DOMAIN raw = 1..Len(raw)
  BY ZipAssumption
<1>2. Firsts \in SUBSET Nat /\ Len(raw) + 1 \in Firsts
  BY <1>1
<1>3. PICK x \in Firsts : \A y \in Firsts : x <= y
  <2> HIDE DEF Firsts
  <2>1. QED
    BY <1>2, LeastOf
<1>4. \A j \in 1..(x - 1) : slashed[j] = "/"
  <2>1. ASSUME NEW j \in 1..(x - 1) PROVE j \in 1..(Len(raw) + 1) /\ j < x
    BY <1>1, <1>2, <1>3
  <2>2. QED
    BY <1>3, <2>1
<1>5. PICK first \in 1..(Len(raw) + 1) :
        first = CHOOSE i \in 1..(Len(raw) + 1) :
                  /\ \A j \in 1..(i - 1) : slashed[j] = "/"
                  /\ i <= Len(raw) => slashed[i] # "/"
  BY <1>3, <1>4
<1>6. \A i \in first..Len(raw) : slashed[i] \in {"a", ".", "/", "\\"}
  <2>1. ASSUME NEW i \in first..Len(raw) PROVE i \in DOMAIN raw /\ raw[i] \in {"a", ".", "/", "\\"}
    BY <1>1, <1>5
  <2>2. QED
    BY <2>1
<1>7. Len(SubSeq(slashed, first, Len(raw))) = IF first <= Len(raw) THEN Len(raw) - first + 1 ELSE 0
  <2>1. PICK s : s = slashed
    OBVIOUS
  <2> HIDE DEF slashed
  <2>2. PICK l \in Nat : l = Len(raw)
    BY <1>1
  <2>3. first \in Int
    BY <1>1, <1>5
  <2>4. Len(SubSeq(s, first, l)) = IF first <= l THEN l - first + 1 ELSE 0
    BY <1>6, <2>1, <2>2, <2>3, SubSeqProperties
  <2>5. QED
    BY <2>1, <2>2, <2>4
<1>8. NormalizedName(raw) = SubSeq(slashed, first, Len(raw))
  BY <1>5 DEF NormalizedName
<1>9. QED
  BY <1>1, <1>5, <1>7, <1>8

\* What an entry takes is a number.
LEMMA EntryNumbers ==
  ASSUME NEW entry \in Entries
  PROVE  /\ entry[2][1] \in Nat /\ Payload(entry) \in Nat /\ Payload(entry) <= entry[2][1]
         /\ Len(Name(entry)) \in Nat
         /\ LocalSize(entry) \in Nat /\ CentralSize(entry) \in Nat
<1>1. entry[1] \in RawNames /\ entry[2] \in Nat \X Nat
  BY ZipAssumption DEF Entries
<1>2. Len(Name(entry)) \in Nat
  BY <1>1, NameHasLength DEF Name
<1>3. entry[2][1] \in Nat /\ entry[2][2] \in Nat
  BY <1>1
<1>4. Payload(entry) \in Nat /\ Payload(entry) <= entry[2][1]
  BY <1>3 DEF Payload
<1>5. QED
  BY <1>2, <1>3, <1>4 DEF LocalSize, CentralSize, LocalHeader, CentralHeader

\* The lists of the runs are sequences of entries.
LEMMA ListIsSequence ==
  ASSUME NEW entries \in EntryLists
  PROVE  /\ entries \in Seq(Entries) /\ Len(entries) \in Nat /\ DOMAIN entries = 1..Len(entries)
         /\ \A i \in 1..Len(entries) : entries[i] \in Entries
<1>1. PICK n \in 0..MaxEntries : entries \in [1..n -> Entries]
  BY DEF EntryLists, Entries
<1>2. n \in Nat
  BY ZipAssumption
<1>3. QED
  BY <1>1, <1>2

-----------------------------------------------------------------------------
(* Where things are *)

LocalSizes(entries) == [i \in 1..Len(entries) |-> LocalSize(entries[i])]
CentralSizes(entries) == [i \in 1..Len(entries) |-> CentralSize(entries[i])]

\* So are the summands of the two running sums.
LEMMA SizesAreNumbers ==
  ASSUME NEW entries \in Seq(Entries)
  PROVE  /\ Len(entries) \in Nat
         /\ LocalSizes(entries) \in [1..Len(entries) -> Nat]
         /\ CentralSizes(entries) \in [1..Len(entries) -> Nat]
<1>1. \A i \in 1..Len(entries) : entries[i] \in Entries
  OBVIOUS
<1>2. Len(entries) \in Nat
  OBVIOUS
<1>3. QED
  BY <1>1, <1>2, EntryNumbers DEF LocalSizes, CentralSizes

\* The offsets are a running sum of what the entries take.
LEMMA OffsetsRun ==
  ASSUME NEW entries \in Seq(Entries)
  PROVE  \E f : /\ Running(f, Len(entries), LocalSizes(entries))
                /\ \A i \in 1..(Len(entries) + 1) : Offsets(entries)[i] = f[i - 1]
<1> DEFINE n == Len(entries)
           Step1(at, i) == IF i = 1 THEN 0
                           ELSE at[i - 1] + LocalHeader + Len(Name(entries[i - 1])) + Payload(entries[i - 1])
           at == CHOOSE at : at = [i \in 1..(n + 1) |-> Step1(at, i)]
<1>1. n \in Nat /\ LocalSizes(entries) \in [1..n -> Nat]
  BY SizesAreNumbers
<1>1a. \A i \in 1..n : LocalSizes(entries)[i] = LocalSize(entries[i])
  BY DEF LocalSizes
<1>2. PICK f : Running(f, n, LocalSizes(entries))
  BY <1>1, RunningExists
<1>3. PICK g : g = [i \in 1..(n + 1) |-> f[i - 1]]
  OBVIOUS
<1>4. ASSUME NEW i \in 1..(n + 1), i # 1
      PROVE  /\ i - 1 \in 1..n /\ i - 1 \in 1..(n + 1) /\ entries[i - 1] \in Entries
             /\ {Len(Name(entries[i - 1])), Payload(entries[i - 1])} \subseteq Nat
  <2>1. i - 1 \in 1..n /\ i - 1 \in 1..(n + 1)
    BY <1>1, <1>4
  <2>2. entries[i - 1] \in Entries
    BY <2>1
  <2>3. QED
    BY <2>1, <2>2, EntryNumbers
<1>5. \A i \in 1..(n + 1) : g[i] = Step1(g, i)
  <2>1. ASSUME NEW i \in 1..(n + 1), i # 1 PROVE g[i] = Step1(g, i)
    <3>1. PICK j \in 1..n : j = i - 1 /\ j - 1 \in 0..n /\ j \in 0..n /\ j \in 1..(n + 1)
      BY <2>1, <1>4, <1>1
    <3>2. g[i] = f[j] /\ g[j] = f[j - 1]
      BY <1>3, <3>1
    <3>3. f[j] = f[j - 1] + LocalSize(entries[j])
      BY <1>2, <1>1a, <3>1 DEF Running
    <3>4. f[j - 1] \in Nat /\ Len(Name(entries[j])) \in Nat /\ Payload(entries[j]) \in Nat
      BY <1>2, <1>4, <2>1, <3>1 DEF Running
    <3>5. g[i] = g[j] + LocalHeader + Len(Name(entries[j])) + Payload(entries[j])
      BY <3>2, <3>3, <3>4 DEF LocalSize, LocalHeader
    <3>6. QED
      BY <2>1, <3>1, <3>5
  <2>2. 1 \in 1..(n + 1) /\ g[1] = 0
    BY <1>1, <1>2, <1>3 DEF Running
  <2>3. QED
    BY <2>1, <2>2
<1>6. g = [i \in 1..(n + 1) |-> Step1(g, i)]
  <2>1. g = [i \in 1..(n + 1) |-> g[i]]
    BY <1>3
  <2>2. QED
    BY <1>5, <2>1
<1>7. at = [i \in 1..(n + 1) |-> Step1(at, i)]
  <2> HIDE DEF Step1
  <2>1. QED
    BY <1>6
<1>8. Offsets(entries) = at
  BY Zenon DEF Offsets
<1>9. PICK h : h = at
  OBVIOUS
<1>10. \A i \in 1..(n + 1) : h[i] = Step1(h, i)
  <2> HIDE DEF at, Step1
  <2>1. QED
    BY <1>7, <1>9
<1> HIDE DEF at
<1> DEFINE Same == {i \in Nat : i <= n => h[i + 1] = g[i + 1]}
<1>11. 0 \in Same
  BY <1>1, <1>5, <1>10
<1>12. ASSUME NEW i \in Same PROVE i + 1 \in Same
  <2> SUFFICES ASSUME i + 1 <= n PROVE h[(i + 1) + 1] = g[(i + 1) + 1]
    OBVIOUS
  <2>1. PICK p \in 1..(n + 1) : p = (i + 1) + 1 /\ p # 1 /\ p - 1 = i + 1
    BY <1>1
  <2>2. h[p] = Step1(h, p) /\ g[p] = Step1(g, p) /\ h[p - 1] = g[p - 1]
    BY <1>5, <1>10, <2>1
  <2>3. h[p] = g[p]
    BY <2>1, <2>2
  <2>4. QED
    BY <2>1, <2>3
<1>13. Same = Nat
  <2>1. Same \in SUBSET Nat
    OBVIOUS
  <2> HIDE DEF Same
  <2>2. QED
    BY <1>11, <1>12, <2>1, NatSetInduction
<1>14. ASSUME NEW i \in 1..(n + 1) PROVE h[i] = g[i]
  <2>1. i - 1 \in Nat /\ i - 1 <= n /\ (i - 1) + 1 = i
    BY <1>1
  <2>2. i - 1 \in Same
    BY <1>13, <2>1
  <2>3. h[(i - 1) + 1] = g[(i - 1) + 1]
    BY <2>1, <2>2
  <2>4. QED
    BY <2>1, <2>3
<1>15. QED
  BY <1>2, <1>3, <1>8, <1>9, <1>14

\* So is the directory, of which the sum of a prefix is a part.
LEMMA DirectoryRun ==
  ASSUME NEW entries \in Seq(Entries), NEW f, Running(f, Len(entries), CentralSizes(entries))
  PROVE  DirectorySize(entries) = f[Len(entries)]
<1> DEFINE n == Len(entries)
           Next1(size, i) == IF i = 0 THEN 0
                             ELSE size[i - 1] + CentralHeader + Len(Name(entries[i]))
           size == CHOOSE size : size = [i \in 0..n |-> Next1(size, i)]
<1>1. n \in Nat /\ CentralSizes(entries) \in [1..n -> Nat] /\ f \in [0..n -> Nat] /\ f[0] = 0
  BY SizesAreNumbers DEF Running
<1>1a. \A i \in 1..n : CentralSizes(entries)[i] = CentralSize(entries[i])
  BY DEF CentralSizes
<1>2. \A i \in 0..n : f[i] = Next1(f, i)
  <2>1. ASSUME NEW i \in 0..n, i # 0 PROVE f[i] = Next1(f, i)
    <3>1. i \in 1..n /\ i - 1 \in 0..n /\ f[i - 1] \in Nat
      BY <1>1, <2>1
    <3>2. Len(Name(entries[i])) \in Nat
      BY <3>1, EntryNumbers
    <3>3. f[i] = f[i - 1] + CentralSize(entries[i])
      BY <1>1a, <3>1 DEF Running
    <3>4. f[i] = f[i - 1] + CentralHeader + Len(Name(entries[i]))
      BY <3>1, <3>2, <3>3 DEF CentralSize, CentralHeader
    <3>5. QED
      BY <2>1, <3>4
  <2>2. QED
    BY <1>1, <2>1
<1>3. f = [i \in 0..n |-> Next1(f, i)]
  <2>1. f = [i \in 0..n |-> f[i]]
    BY <1>1
  <2>2. QED
    BY <1>2, <2>1
<1>4. size = [i \in 0..n |-> Next1(size, i)]
  <2> HIDE DEF Next1
  <2>1. QED
    BY <1>3
<1>5. DirectorySize(entries) = size[n]
  BY Zenon DEF DirectorySize
<1>6. PICK h : h = size
  OBVIOUS
<1>7. \A i \in 0..n : h[i] = Next1(h, i)
  <2> HIDE DEF size, Next1
  <2>1. QED
    BY <1>4, <1>6
<1> HIDE DEF size
<1> DEFINE Same == {i \in Nat : i <= n => h[i] = f[i]}
<1>8. 0 \in Same
  BY <1>1, <1>7
<1>9. ASSUME NEW i \in Same PROVE i + 1 \in Same
  <2> SUFFICES ASSUME i + 1 <= n PROVE h[i + 1] = f[i + 1]
    OBVIOUS
  <2>1. PICK p \in 0..n : p = i + 1 /\ p # 0 /\ p - 1 = i
    BY <1>1
  <2>2. h[p] = Next1(h, p) /\ f[p] = Next1(f, p) /\ h[p - 1] = f[p - 1]
    BY <1>2, <1>7, <2>1
  <2>3. h[p] = f[p]
    BY <2>1, <2>2
  <2>4. QED
    BY <2>1, <2>3
<1>10. Same = Nat
  <2>1. Same \in SUBSET Nat
    OBVIOUS
  <2> HIDE DEF Same
  <2>2. QED
    BY <1>8, <1>9, <2>1, NatSetInduction
<1>11. n \in Same
  BY <1>1, <1>10
<1>12. QED
  BY <1>1, <1>5, <1>6, <1>11

\* The size of the directory up to an entry is that of the prefix of the list.
LEMMA PrefixSize ==
  ASSUME NEW entries \in Seq(Entries), NEW f, Running(f, Len(entries), CentralSizes(entries)),
         NEW m \in 0..Len(entries)
  PROVE  DirectorySize(SubSeq(entries, 1, m)) = f[m]
<1>1. PICK prefix : prefix = SubSeq(entries, 1, m)
  OBVIOUS
<1>2. Len(entries) \in Nat /\ \A i \in 1..Len(entries) : entries[i] \in Entries
  OBVIOUS
<1>3. /\ prefix \in Seq(Entries) /\ Len(prefix) = m
      /\ \A i \in 1..m : prefix[i] = entries[i]
  <2>1. \A i \in 1..m : entries[i] \in Entries
    BY <1>2
  <2>2. 1 \in Int /\ m \in Int
    BY <1>2
  <2>3. prefix \in Seq(Entries) /\ Len(prefix) = (IF 1 <= m THEN m - 1 + 1 ELSE 0)
        /\ \A i \in 1..(m - 1 + 1) : prefix[i] = entries[1 + i - 1]
    BY <1>1, <2>1, <2>2, SubSeqProperties
  <2>4. QED
    BY <1>2, <2>3
<1>4. PICK g : Running(g, m, CentralSizes(prefix))
  BY <1>3, SizesAreNumbers, RunningExists
<1>5. DirectorySize(prefix) = g[m]
  BY <1>3, <1>4, DirectoryRun
<1>6. \A i \in 1..m : CentralSizes(prefix)[i] = CentralSizes(entries)[i]
  BY <1>2, <1>3 DEF CentralSizes
<1>7. m \in Nat /\ m <= Len(entries)
  BY <1>2
<1>8. \A i \in 0..m : g[i] = f[i]
  BY <1>2, <1>4, <1>6, <1>7, RunningUnique
<1>9. QED
  BY <1>1, <1>5, <1>7, <1>8

LocalAt(entries, i) == Offsets(entries)[i]
DirectoryAt(entries) == Offsets(entries)[Len(entries) + 1]
CentralAt(entries, i) == DirectoryAt(entries) + DirectorySize(SubSeq(entries, 1, i - 1))
EndAt(entries) == DirectoryAt(entries) + DirectorySize(entries)

\* One thing follows another: the headers and payloads, the directory, and the end.
LEMMA Layout ==
  ASSUME NEW entries \in Seq(Entries)
  PROVE  /\ \A i \in 1..(Len(entries) + 1) : LocalAt(entries, i) \in Nat /\ CentralAt(entries, i) \in Nat
         /\ \A i \in 1..Len(entries) :
              /\ LocalAt(entries, i + 1) = LocalAt(entries, i) + LocalSize(entries[i])
              /\ CentralAt(entries, i + 1) = CentralAt(entries, i) + CentralSize(entries[i])
         /\ \A i, j \in 1..(Len(entries) + 1) :
              i < j => /\ LocalAt(entries, i + 1) <= LocalAt(entries, j)
                       /\ CentralAt(entries, i + 1) <= CentralAt(entries, j)
         /\ LocalAt(entries, Len(entries) + 1) = DirectoryAt(entries)
         /\ CentralAt(entries, 1) = DirectoryAt(entries)
         /\ CentralAt(entries, Len(entries) + 1) = EndAt(entries)
         /\ DirectorySize(entries) \in Nat
<1> DEFINE n == Len(entries)
<1>1. /\ n \in Nat
      /\ LocalSizes(entries) \in [1..n -> Nat] /\ CentralSizes(entries) \in [1..n -> Nat]
  BY SizesAreNumbers
<1>2. PICK f : /\ Running(f, n, LocalSizes(entries))
               /\ \A i \in 1..(n + 1) : LocalAt(entries, i) = f[i - 1]
  BY OffsetsRun DEF LocalAt
<1>3. PICK g : Running(g, n, CentralSizes(entries))
  BY <1>1, RunningExists
<1>4. /\ f \in [0..n -> Nat] /\ g \in [0..n -> Nat] /\ g[0] = 0
      /\ \A i \in 1..n : f[i] = f[i - 1] + LocalSize(entries[i]) /\ g[i] = g[i - 1] + CentralSize(entries[i])
  BY <1>2, <1>3 DEF Running, LocalSizes, CentralSizes
<1>4a. \A i \in 0..n : f[i] \in Nat /\ g[i] \in Nat
  BY <1>4
<1>4b. n \in 0..n /\ n + 1 \in 1..(n + 1) /\ (n + 1) - 1 = n
  BY <1>1
<1>5. DirectorySize(entries) = g[n] /\ DirectorySize(entries) \in Nat
  BY <1>3, <1>4a, <1>4b, DirectoryRun
<1>6. DirectoryAt(entries) = f[n] /\ f[n] \in Nat /\ DirectoryAt(entries) = LocalAt(entries, n + 1)
  BY <1>2, <1>4a, <1>4b DEF DirectoryAt, LocalAt
<1>7. ASSUME NEW i \in 1..(n + 1)
      PROVE  i - 1 \in 0..n /\ CentralAt(entries, i) = f[n] + g[i - 1]
  <2>1. PICK m \in 0..n : m = i - 1
    BY <1>1
  <2>2. DirectorySize(SubSeq(entries, 1, m)) = g[m]
    BY <1>3, PrefixSize
  <2>3. QED
    BY <1>6, <2>1, <2>2 DEF CentralAt
<1>8. \A i \in 1..(n + 1) : LocalAt(entries, i) \in Nat /\ CentralAt(entries, i) \in Nat
  <2>1. ASSUME NEW i \in 1..(n + 1)
        PROVE  LocalAt(entries, i) = f[i - 1] /\ f[i - 1] \in Nat /\ g[i - 1] \in Nat
    BY <1>2, <1>4a, <1>7
  <2>2. f[n] \in Nat
    BY <1>4a, <1>4b
  <2>3. ASSUME NEW i \in 1..(n + 1) PROVE CentralAt(entries, i) \in Nat
    <3>1. CentralAt(entries, i) = f[n] + g[i - 1]
      BY <1>7
    <3>2. QED
      BY <2>1, <2>2, <3>1
  <2>4. QED
    BY <2>1, <2>3
<1>9. ASSUME NEW i \in 1..n
      PROVE  /\ LocalAt(entries, i + 1) = LocalAt(entries, i) + LocalSize(entries[i])
             /\ CentralAt(entries, i + 1) = CentralAt(entries, i) + CentralSize(entries[i])
  <2>1. i \in 1..(n + 1) /\ i + 1 \in 1..(n + 1) /\ (i + 1) - 1 = i /\ i - 1 \in 0..n
    BY <1>1
  <2>2. LocalAt(entries, i + 1) = f[i] /\ LocalAt(entries, i) = f[i - 1]
    BY <1>2, <2>1
  <2>3. CentralAt(entries, i + 1) = f[n] + g[i] /\ CentralAt(entries, i) = f[n] + g[i - 1]
    BY <1>7, <2>1
  <2>4. CentralSize(entries[i]) \in Nat
    BY EntryNumbers
  <2>5. f[n] \in Nat /\ g[i - 1] \in Nat
    BY <1>4a, <1>4b, <2>1
  <2>6. f[i] = f[i - 1] + LocalSize(entries[i]) /\ g[i] = g[i - 1] + CentralSize(entries[i])
    BY <1>4
  <2>7. QED
    BY <2>2, <2>3, <2>4, <2>5, <2>6
<1>10. ASSUME NEW i \in 1..(n + 1), NEW j \in 1..(n + 1), i < j
       PROVE  /\ LocalAt(entries, i + 1) <= LocalAt(entries, j)
              /\ CentralAt(entries, i + 1) <= CentralAt(entries, j)
  <2>1. PICK k \in 0..n, l \in 0..n : k = i - 1 /\ l = j - 1 /\ k < l
    BY <1>1, <1>10
  <2>2. k + 1 = i /\ k + 1 \in 0..n /\ i + 1 \in 1..(n + 1) /\ (i + 1) - 1 = k + 1
    BY <1>1, <2>1
  <2>3. f[l] >= f[k + 1] /\ g[l] >= g[k + 1]
    BY <1>1, <1>2, <1>3, <2>1, RunningGrows
  <2>4. LocalAt(entries, i + 1) = f[k + 1] /\ LocalAt(entries, j) = f[l]
    BY <1>2, <2>1, <2>2
  <2>5. CentralAt(entries, i + 1) = f[n] + g[k + 1] /\ CentralAt(entries, j) = f[n] + g[l]
    BY <1>7, <2>1, <2>2
  <2>6. {f[l], f[k + 1], g[l], g[k + 1], f[n]} \subseteq Nat
    BY <1>4a, <1>4b, <2>1, <2>2
  <2>7. QED
    BY <2>3, <2>4, <2>5, <2>6
<1>11. CentralAt(entries, 1) = DirectoryAt(entries)
  BY <1>1, <1>4, <1>6, <1>7
<1>12. CentralAt(entries, n + 1) = EndAt(entries)
  BY <1>1, <1>5, <1>6, <1>7 DEF EndAt
<1>13. QED
  BY <1>5, <1>6, <1>8, <1>9, <1>10, <1>11, <1>12

-----------------------------------------------------------------------------
(* The archive *)

EntryRecord(entry, sig, at) == ZipRecord(sig, Name(entry), Payload(entry), entry[2][1], at)
LocalRecord(entries, i) == EntryRecord(entries[i], "local", 0)
CentralRecord(entries, i) == EntryRecord(entries[i], "central", LocalAt(entries, i))
LastRecord(entries) ==
  ZipRecord("end", <<>>, Len(entries), DirectorySize(entries), DirectoryAt(entries))

\* Local headers lie before the directory, its records between it and the end, each in a
\* place of its own.
LEMMA PlacesDiffer ==
  ASSUME NEW entries \in Seq(Entries)
  PROVE  /\ DirectoryAt(entries) \in Nat /\ EndAt(entries) \in Nat
         /\ DirectoryAt(entries) <= EndAt(entries)
         /\ \A i \in 1..Len(entries) :
              /\ LocalAt(entries, i) < DirectoryAt(entries)
              /\ CentralAt(entries, i) >= DirectoryAt(entries)
              /\ CentralAt(entries, i) + CentralSize(entries[i]) <= EndAt(entries)
              /\ CentralAt(entries, i) + CentralHeader <= EndAt(entries)
              /\ CentralAt(entries, i) < EndAt(entries)
         /\ \A i, j \in 1..Len(entries) :
              /\ LocalAt(entries, i) = LocalAt(entries, j) => i = j
              /\ CentralAt(entries, i) = CentralAt(entries, j) => i = j
<1> DEFINE n == Len(entries)
<1>1. n \in Nat /\ \A i \in 1..n : i \in 1..(n + 1) /\ i + 1 \in 1..(n + 1)
  OBVIOUS
<1>2. DirectoryAt(entries) \in Nat /\ EndAt(entries) \in Nat /\ DirectoryAt(entries) <= EndAt(entries)
  <2>1. DirectorySize(entries) \in Nat
    BY Layout
  <2>2. n + 1 \in 1..(n + 1)
    BY <1>1
  <2>3. DirectoryAt(entries) \in Nat
    BY <2>2, Layout
  <2>4. QED
    BY <2>1, <2>3 DEF EndAt
<1>3. ASSUME NEW i \in 1..n
      PROVE  /\ LocalAt(entries, i) \in Nat /\ LocalAt(entries, i + 1) \in Nat
             /\ CentralAt(entries, i) \in Nat /\ CentralAt(entries, i + 1) \in Nat
             /\ LocalAt(entries, i) < LocalAt(entries, i + 1)
             /\ CentralAt(entries, i) + CentralHeader <= CentralAt(entries, i + 1)
             /\ CentralAt(entries, i) < CentralAt(entries, i + 1)
             /\ CentralAt(entries, i) + CentralSize(entries[i]) = CentralAt(entries, i + 1)
  <2>1. /\ LocalAt(entries, i) \in Nat /\ LocalAt(entries, i + 1) \in Nat
        /\ CentralAt(entries, i) \in Nat /\ CentralAt(entries, i + 1) \in Nat
    BY <1>1, Layout
  <2>2. /\ LocalAt(entries, i + 1) = LocalAt(entries, i) + LocalSize(entries[i])
        /\ CentralAt(entries, i + 1) = CentralAt(entries, i) + CentralSize(entries[i])
    BY Layout
  <2>3. Len(Name(entries[i])) \in Nat /\ Payload(entries[i]) \in Nat
    BY EntryNumbers
  <2>4. LocalSize(entries[i]) \in Nat /\ LocalSize(entries[i]) > 0
        /\ CentralSize(entries[i]) \in Nat /\ CentralSize(entries[i]) >= CentralHeader /\ CentralHeader > 0
    BY <2>3 DEF LocalSize, CentralSize, LocalHeader, CentralHeader
  <2>5. CentralHeader \in Nat
    BY DEF CentralHeader
  <2>6. QED
    BY <2>1, <2>2, <2>4, <2>5
<1>4. ASSUME NEW i \in 1..(n + 1), NEW j \in 1..(n + 1), i < j
      PROVE  /\ LocalAt(entries, i) < LocalAt(entries, j)
             /\ CentralAt(entries, i + 1) <= CentralAt(entries, j)
             /\ CentralAt(entries, i) < CentralAt(entries, j)
  <2>1. i \in 1..n
    BY <1>1, <1>4
  <2>2. LocalAt(entries, i + 1) <= LocalAt(entries, j) /\ CentralAt(entries, i + 1) <= CentralAt(entries, j)
    BY <1>4, Layout
  <2>3. LocalAt(entries, j) \in Nat /\ CentralAt(entries, j) \in Nat
    BY Layout
  <2>4. QED
    BY <1>3, <2>1, <2>2, <2>3
<1>5. ASSUME NEW i \in 1..n
      PROVE  /\ LocalAt(entries, i) < DirectoryAt(entries)
             /\ CentralAt(entries, i) >= DirectoryAt(entries)
             /\ CentralAt(entries, i + 1) <= EndAt(entries)
  <2>1. i \in 1..(n + 1) /\ n + 1 \in 1..(n + 1) /\ i < n + 1 /\ 1 \in 1..(n + 1)
    BY <1>1
  <2>2. LocalAt(entries, i) < LocalAt(entries, n + 1) /\ CentralAt(entries, i + 1) <= CentralAt(entries, n + 1)
    BY <1>4, <2>1
  <2>3. LocalAt(entries, n + 1) = DirectoryAt(entries) /\ CentralAt(entries, 1) = DirectoryAt(entries)
        /\ CentralAt(entries, n + 1) = EndAt(entries)
    BY Layout
  <2>4. CentralAt(entries, i) >= CentralAt(entries, 1)
    <3>1. CASE i = 1
      BY <1>2, <2>3, <3>1
    <3>2. CASE i # 1
      <4>1. 1 < i
        BY <2>1, <3>2
      <4>2. CentralAt(entries, 1) < CentralAt(entries, i)
        BY <1>4, <2>1, <4>1
      <4>3. QED
        BY <1>2, <1>3, <2>3, <4>2
    <3>3. QED
      BY <3>1, <3>2
  <2>5. QED
    BY <2>2, <2>3, <2>4
<1>6. ASSUME NEW i \in 1..n
      PROVE  /\ CentralAt(entries, i) + CentralSize(entries[i]) <= EndAt(entries)
             /\ CentralAt(entries, i) + CentralHeader <= EndAt(entries)
             /\ CentralAt(entries, i) < EndAt(entries)
  <2>1. CentralHeader \in Nat
    BY DEF CentralHeader
  <2>2. QED
    BY <1>2, <1>3, <1>5, <2>1
<1>7. ASSUME NEW i \in 1..n, NEW j \in 1..n, i # j
      PROVE  LocalAt(entries, i) # LocalAt(entries, j) /\ CentralAt(entries, i) # CentralAt(entries, j)
  <2>1. i < j \/ j < i
    BY <1>1, <1>7
  <2>2. QED
    BY <1>1, <1>3, <1>4, <2>1
<1>8. QED
  BY <1>2, <1>5, <1>6, <1>7

\* What the writer lays down: one local and one central record for each entry, and the end.
LEMMA Written ==
  ASSUME NEW entries \in Seq(Entries), NEW zip, zip = BuildZipBuffer(entries)
  PROVE  /\ zip.length = EndAt(entries) + EndRecord
         /\ DOMAIN zip.records = {LocalAt(entries, i) : i \in 1..Len(entries)}
                                 \cup {CentralAt(entries, i) : i \in 1..Len(entries)} \cup {EndAt(entries)}
         /\ \A i \in 1..Len(entries) :
              /\ zip.records[LocalAt(entries, i)] = LocalRecord(entries, i)
              /\ zip.records[CentralAt(entries, i)] = CentralRecord(entries, i)
         /\ zip.records[EndAt(entries)] = LastRecord(entries)
<1> DEFINE n == Len(entries)
           Drawn(o) ==
             CASE o < DirectoryAt(entries) ->
                    LocalRecord(entries, CHOOSE i \in 1..n : LocalAt(entries, i) = o)
               [] o = EndAt(entries) -> LastRecord(entries)
               [] OTHER -> CentralRecord(entries, CHOOSE i \in 1..n : CentralAt(entries, i) = o)
           Laid == {LocalAt(entries, i) : i \in 1..n} \cup {CentralAt(entries, i) : i \in 1..n}
                     \cup {EndAt(entries)}
<1>1. zip = [length |-> EndAt(entries) + EndRecord, records |-> [o \in Laid |-> Drawn(o)]]
  BY DEF BuildZipBuffer, EndAt, CentralAt, LocalAt, DirectoryAt, LocalRecord, CentralRecord,
         LastRecord, EntryRecord
<1>2. zip.length = EndAt(entries) + EndRecord /\ zip.records = [o \in Laid |-> Drawn(o)]
  BY <1>1
<1>3. ASSUME NEW i \in 1..n PROVE Drawn(LocalAt(entries, i)) = LocalRecord(entries, i)
  <2>1. LocalAt(entries, i) < DirectoryAt(entries) /\ LocalAt(entries, i) # EndAt(entries)
    <3>1. /\ DirectoryAt(entries) \in Nat /\ EndAt(entries) \in Nat
          /\ LocalAt(entries, i) < DirectoryAt(entries) /\ DirectoryAt(entries) <= EndAt(entries)
      BY PlacesDiffer
    <3>2. LocalAt(entries, i) \in Nat
      <4>1. i \in 1..(n + 1)
        OBVIOUS
      <4>2. QED
        BY <4>1, Layout
    <3>3. QED
      BY <3>1, <3>2
  <2>2. (CHOOSE j \in 1..n : LocalAt(entries, j) = LocalAt(entries, i)) = i
    BY PlacesDiffer
  <2>3. QED
    BY <2>1, <2>2
<1>4. ASSUME NEW i \in 1..n PROVE Drawn(CentralAt(entries, i)) = CentralRecord(entries, i)
  <2>1. ~(CentralAt(entries, i) < DirectoryAt(entries)) /\ CentralAt(entries, i) # EndAt(entries)
    <3>1. /\ DirectoryAt(entries) \in Nat /\ EndAt(entries) \in Nat
          /\ CentralAt(entries, i) >= DirectoryAt(entries) /\ CentralAt(entries, i) < EndAt(entries)
      BY PlacesDiffer
    <3>2. CentralAt(entries, i) \in Nat
      <4>1. i \in 1..(n + 1)
        OBVIOUS
      <4>2. QED
        BY <4>1, Layout
    <3>3. QED
      BY <3>1, <3>2
  <2>2. (CHOOSE j \in 1..n : CentralAt(entries, j) = CentralAt(entries, i)) = i
    BY PlacesDiffer
  <2>3. QED
    BY <2>1, <2>2
<1>5. Drawn(EndAt(entries)) = LastRecord(entries)
  <2>1. ~(EndAt(entries) < DirectoryAt(entries))
    BY PlacesDiffer
  <2>2. QED
    BY <2>1
<1> HIDE DEF Drawn
<1>6. /\ DOMAIN zip.records = Laid
      /\ \A i \in 1..n : /\ zip.records[LocalAt(entries, i)] = Drawn(LocalAt(entries, i))
                         /\ zip.records[CentralAt(entries, i)] = Drawn(CentralAt(entries, i))
      /\ zip.records[EndAt(entries)] = Drawn(EndAt(entries))
  BY <1>2
<1>7. QED
  BY <1>2, <1>3, <1>4, <1>5, <1>6

-----------------------------------------------------------------------------
(* The reader *)

\* The places at which the reader looks: at, when each record there leads to the next.
LEMMA PlacesFollow ==
  ASSUME NEW zip, NEW n \in Nat, EndFound(zip).payload = n,
         NEW at, at[1] = EndFound(zip).at,
         \A i \in 1..n : /\ at[i] \in DOMAIN zip.records
                         /\ at[i + 1] = at[i] + CentralHeader + Len(zip.records[at[i]].name)
  PROVE  \A i \in 1..n : PlacesRead(zip)[i] = at[i]
<1> DEFINE Look(p, i) == IF i = 1 THEN EndFound(zip).at
                         ELSE IF p[i - 1] \in DOMAIN zip.records
                              THEN p[i - 1] + CentralHeader + Len(zip.records[p[i - 1]].name)
                              ELSE p[i - 1]
<1>1. PICK g : g = [i \in 1..(n + 1) |-> at[i]]
  OBVIOUS
<1>2. \A i \in 1..(n + 1) : g[i] = Look(g, i)
  <2>1. ASSUME NEW i \in 1..(n + 1), i # 1 PROVE g[i] = Look(g, i)
    <3>1. PICK j \in 1..n : j = i - 1 /\ j + 1 = i /\ j \in 1..(n + 1)
      BY <2>1
    <3>2. g[j] = at[j] /\ g[i] = at[j + 1] /\ at[j] \in DOMAIN zip.records
          /\ at[j + 1] = at[j] + CentralHeader + Len(zip.records[at[j]].name)
      BY <1>1, <3>1
    <3>3. QED
      BY <2>1, <3>1, <3>2
  <2>2. g[1] = Look(g, 1)
    BY <1>1
  <2>3. QED
    BY <2>1, <2>2
<1>3. g = [i \in 1..(n + 1) |-> Look(g, i)]
  <2>1. g = [i \in 1..(n + 1) |-> g[i]]
    BY <1>1
  <2>2. QED
    BY <1>2, <2>1
<1>4. PlacesRead(zip) = CHOOSE p : p = [i \in 1..(EndFound(zip).payload + 1) |-> Look(p, i)]
  BY Zenon DEF PlacesRead
<1>5. PICK place : place = PlacesRead(zip)
  OBVIOUS
<1>6. place = [i \in 1..(n + 1) |-> Look(place, i)]
  <2> HIDE DEF Look
  <2>1. \E p : p = [i \in 1..(EndFound(zip).payload + 1) |-> Look(p, i)]
    BY <1>3
  <2>2. place = [i \in 1..(EndFound(zip).payload + 1) |-> Look(place, i)]
    BY <1>4, <1>5, <2>1
  <2>3. QED
    BY <2>2
<1>7. \A i \in 1..(n + 1) : place[i] = Look(place, i)
  <2> HIDE DEF Look
  <2>1. QED
    BY <1>6
<1> DEFINE Same == {i \in Nat : i <= n => place[i + 1] = g[i + 1]}
<1>8. 0 \in Same
  BY <1>2, <1>7
<1>9. ASSUME NEW i \in Same PROVE i + 1 \in Same
  <2> SUFFICES ASSUME i + 1 <= n PROVE place[(i + 1) + 1] = g[(i + 1) + 1]
    OBVIOUS
  <2>1. PICK p \in 1..(n + 1) : p = (i + 1) + 1 /\ p # 1 /\ p - 1 = i + 1
    OBVIOUS
  <2>2. place[p] = Look(place, p) /\ g[p] = Look(g, p) /\ place[p - 1] = g[p - 1]
    BY <1>2, <1>7, <2>1
  <2>3. place[p] = g[p]
    BY <2>1, <2>2
  <2>4. QED
    BY <2>1, <2>3
<1>10. Same = Nat
  <2>1. Same \in SUBSET Nat
    OBVIOUS
  <2> HIDE DEF Same
  <2>2. QED
    BY <1>8, <1>9, <2>1, NatSetInduction
<1>11. ASSUME NEW i \in 1..n PROVE place[i] = at[i]
  <2>1. i - 1 \in Nat /\ i - 1 <= n /\ (i - 1) + 1 = i /\ i \in 1..(n + 1)
    OBVIOUS
  <2>2. i - 1 \in Same
    BY <1>10, <2>1
  <2>3. place[(i - 1) + 1] = g[(i - 1) + 1]
    BY <2>1, <2>2
  <2>4. QED
    BY <1>1, <2>1, <2>3
<1>12. QED
  BY <1>5, <1>11

\* Reading what was written finds the directory's records, in their order.
LEMMA DirectoryReadBack ==
  ASSUME NEW entries \in Seq(Entries)
  PROVE  ReadZipEntries(BuildZipBuffer(entries)) = [i \in 1..Len(entries) |-> CentralRecord(entries, i)]
<1> DEFINE n == Len(entries)
<1>0. n \in Nat /\ \A i \in 1..n : i \in 1..(n + 1)
  OBVIOUS
<1>1. PICK zip : zip = BuildZipBuffer(entries)
  OBVIOUS
<1>2. PICK D : D = DOMAIN zip.records
  OBVIOUS
<1>3. PICK last \in Nat : last = EndAt(entries)
  BY PlacesDiffer
<1>4. /\ zip.length = last + EndRecord /\ last \in D
      /\ D = {LocalAt(entries, i) : i \in 1..n} \cup {CentralAt(entries, i) : i \in 1..n} \cup {last}
      /\ \A i \in 1..n : /\ zip.records[LocalAt(entries, i)] = LocalRecord(entries, i)
                         /\ zip.records[CentralAt(entries, i)] = CentralRecord(entries, i)
      /\ zip.records[last] = LastRecord(entries)
  BY <1>1, <1>2, <1>3, Written
<1>5. EndRecords(zip) = {last}
  <2>1. ASSUME NEW o \in D, o # last PROVE zip.records[o].sig # "end"
    <3>1. PICK i \in 1..n : o = LocalAt(entries, i) \/ o = CentralAt(entries, i)
      BY <1>4, <2>1
    <3>2. zip.records[o] = LocalRecord(entries, i) \/ zip.records[o] = CentralRecord(entries, i)
      BY <1>4, <3>1
    <3>3. QED
      BY <3>2 DEF LocalRecord, CentralRecord, EntryRecord, ZipRecord
  <2>2. zip.records[last].sig = "end"
    BY <1>4 DEF LastRecord, ZipRecord
  <2>3. last <= zip.length - EndRecord /\ last >= zip.length - EndRecord - U16_MAX
    BY <1>4, ZipAssumption DEF EndRecord
  <2>4. QED
    BY <1>2, <1>4, <2>1, <2>2, <2>3 DEF EndRecords
<1>6. EndFound(zip) = LastRecord(entries)
  <2>1. (CHOOSE o \in EndRecords(zip) : \A p \in EndRecords(zip) : p <= o) = last
    BY <1>5
  <2>2. QED
    BY <1>4, <2>1 DEF EndFound
<1>7. PICK end : end = EndFound(zip)
  OBVIOUS
<1>8. end.payload = n /\ end.at = DirectoryAt(entries) /\ end.size = DirectorySize(entries)
  BY <1>6, <1>7 DEF LastRecord, ZipRecord
<1>9. PICK at : at = [i \in 1..(n + 1) |-> CentralAt(entries, i)]
  OBVIOUS
<1>10. ASSUME NEW i \in 1..n
       PROVE  /\ at[i] = CentralAt(entries, i) /\ at[i] \in D
              /\ at[i + 1] = at[i] + CentralHeader + Len(zip.records[at[i]].name)
              /\ zip.records[at[i]] = CentralRecord(entries, i)
              /\ zip.records[at[i]].sig = "central"
              /\ ~(at[i] + CentralHeader > zip.length)
  <2>1. at[i] = CentralAt(entries, i) /\ i + 1 \in 1..(n + 1) /\ at[i + 1] = CentralAt(entries, i + 1)
    BY <1>0, <1>9
  <2>2. at[i] \in D /\ zip.records[at[i]] = CentralRecord(entries, i)
    BY <1>4, <2>1
  <2>3. CentralRecord(entries, i).name = Name(entries[i]) /\ CentralRecord(entries, i).sig = "central"
    BY DEF CentralRecord, EntryRecord, ZipRecord
  <2>4. CentralAt(entries, i + 1) = CentralAt(entries, i) + CentralSize(entries[i])
    BY Layout
  <2>5. CentralAt(entries, i) \in Nat
    BY <1>0, Layout
  <2>6. Len(Name(entries[i])) \in Nat
    BY EntryNumbers
  <2>7. at[i + 1] = at[i] + CentralHeader + Len(zip.records[at[i]].name)
    BY <2>1, <2>2, <2>3, <2>4, <2>5, <2>6 DEF CentralSize, CentralHeader
  <2>8. CentralAt(entries, i) + CentralHeader <= last
    BY <1>3, PlacesDiffer
  <2>9. ~(at[i] + CentralHeader > zip.length)
    BY <1>4, <2>1, <2>5, <2>8 DEF CentralHeader, EndRecord
  <2>10. QED
    BY <2>1, <2>2, <2>3, <2>7, <2>9
<1>11. at[1] = EndFound(zip).at
  <2>1. 1 \in 1..(n + 1)
    BY <1>0
  <2>2. QED
    BY <1>7, <1>8, <1>9, <2>1, Layout
<1>12. PICK place : place = PlacesRead(zip)
  OBVIOUS
<1>13. \A i \in 1..n : place[i] = at[i]
  <2>1. PICK m \in Nat : m = n
    BY <1>0
  <2>2. EndFound(zip).payload = m
    BY <1>7, <1>8, <2>1
  <2>3. \A i \in 1..m : /\ at[i] \in DOMAIN zip.records
                        /\ at[i + 1] = at[i] + CentralHeader + Len(zip.records[at[i]].name)
    BY <1>2, <1>10, <2>1
  <2>4. \A i \in 1..m : PlacesRead(zip)[i] = at[i]
    BY <1>11, <2>2, <2>3, PlacesFollow
  <2>5. QED
    BY <1>12, <2>1, <2>4
<1>14. ~(end.at + end.size > zip.length)
  <2>1. end.at + end.size = last
    BY <1>3, <1>8 DEF EndAt
  <2>2. QED
    BY <1>4, <2>1 DEF EndRecord
<1>15. ~\E i \in 1..n : \/ place[i] + CentralHeader > zip.length
                        \/ place[i] \notin D
                        \/ zip.records[place[i]].sig # "central"
  BY <1>10, <1>13
<1>16. ReadZipEntries(zip) = [i \in 1..n |-> zip.records[place[i]]]
  <2>1. EndRecords(zip) # {}
    BY <1>5
  <2>2. QED
    BY <1>2, <1>7, <1>8, <1>12, <1>14, <1>15, <2>1 DEF ReadZipEntries
<1>17. \A i \in 1..n : zip.records[place[i]] = CentralRecord(entries, i)
  BY <1>10, <1>13
<1>18. QED
  BY <1>1, <1>16, <1>17

\* For all widths of the fields and lists of any length: readZipEntries() gives back what
\* buildZipBuffer() accepted, and each payload has its room.
THEOREM ArchiveReadsBack == ZipReadsBack
<1> SUFFICES ASSUME NEW entries \in EntryLists, Accepted(entries),
                    NEW zip, zip = BuildZipBuffer(entries),
                    NEW read, read = ReadZipEntries(zip)
             PROVE  /\ Len(read) = Len(entries)
                    /\ \A i \in DOMAIN read :
                         /\ read[i].name = Name(entries[i]) /\ read[i].size = entries[i][2][1]
                         /\ read[i].at \in DOMAIN zip.records
                         /\ zip.records[read[i].at] = [read[i] EXCEPT !.sig = "local", !.at = 0]
                         /\ \A o \in DOMAIN zip.records :
                              o > read[i].at =>
                                o >= read[i].at + LocalHeader + Len(read[i].name) + read[i].payload
  BY DEF ZipReadsBack
<1> DEFINE n == Len(entries)
<1>1. entries \in Seq(Entries) /\ n \in Nat
  BY ListIsSequence
<1>2. read = [i \in 1..n |-> CentralRecord(entries, i)]
  BY <1>1, DirectoryReadBack
<1>3. Len(read) = n /\ DOMAIN read = 1..n
  BY <1>1, <1>2
<1>4. ASSUME NEW i \in 1..n
      PROVE  /\ read[i].name = Name(entries[i]) /\ read[i].size = entries[i][2][1]
             /\ read[i].at \in DOMAIN zip.records
             /\ zip.records[read[i].at] = [read[i] EXCEPT !.sig = "local", !.at = 0]
             /\ \A o \in DOMAIN zip.records :
                  o > read[i].at =>
                    o >= read[i].at + LocalHeader + Len(read[i].name) + read[i].payload
  <2>1. read[i] = CentralRecord(entries, i)
    BY <1>2
  <2>2. /\ read[i].name = Name(entries[i]) /\ read[i].size = entries[i][2][1]
        /\ read[i].payload = Payload(entries[i]) /\ read[i].at = LocalAt(entries, i)
    BY <2>1 DEF CentralRecord, EntryRecord, ZipRecord
  <2>3. /\ LocalAt(entries, i) \in DOMAIN zip.records
        /\ zip.records[LocalAt(entries, i)] = LocalRecord(entries, i)
    BY <1>1, Written
  <2>4. LocalRecord(entries, i) = [CentralRecord(entries, i) EXCEPT !.sig = "local", !.at = 0]
    <3>1. PICK central : central = CentralRecord(entries, i)
      OBVIOUS
    <3>2. PICK mid : mid = [central EXCEPT !.sig = "local"]
      OBVIOUS
    <3>3. mid = EntryRecord(entries[i], "local", LocalAt(entries, i))
      BY <3>1, <3>2 DEF CentralRecord, EntryRecord, ZipRecord
    <3>4. [mid EXCEPT !.at = 0] = LocalRecord(entries, i)
      BY <3>3 DEF LocalRecord, EntryRecord, ZipRecord
    <3>5. [central EXCEPT !.sig = "local", !.at = 0] = [mid EXCEPT !.at = 0]
      BY <3>2
    <3>6. QED
      BY <3>1, <3>4, <3>5
  <2>5. ASSUME NEW o \in DOMAIN zip.records, o > LocalAt(entries, i)
        PROVE  o >= LocalAt(entries, i + 1)
    <3>1. /\ i \in 1..(n + 1) /\ i + 1 \in 1..(n + 1) /\ n + 1 \in 1..(n + 1)
          /\ \A j \in 1..n : j \in 1..(n + 1)
      BY <1>1
    <3>2. /\ LocalAt(entries, i) \in Nat /\ LocalAt(entries, i + 1) \in Nat
          /\ DirectoryAt(entries) \in Nat /\ EndAt(entries) \in Nat
          /\ DirectoryAt(entries) <= EndAt(entries)
      BY <1>1, <3>1, Layout, PlacesDiffer
    <3>3. LocalAt(entries, i + 1) <= DirectoryAt(entries)
      <4>1. LocalAt(entries, i + 1) <= LocalAt(entries, n + 1)
        <5>1. i < n + 1
          BY <1>1
        <5>2. QED
          BY <1>1, <3>1, <5>1, Layout
      <4>2. QED
        BY <1>1, <4>1, Layout
    <3>4. CASE o = EndAt(entries)
      BY <3>2, <3>3, <3>4
    <3>5. ASSUME NEW j \in 1..n, o = CentralAt(entries, j) PROVE o >= LocalAt(entries, i + 1)
      <4>1. o \in Nat /\ o >= DirectoryAt(entries)
        BY <1>1, <3>1, <3>5, Layout, PlacesDiffer
      <4>2. QED
        BY <3>2, <3>3, <4>1
    <3>6. ASSUME NEW j \in 1..n, o = LocalAt(entries, j) PROVE o >= LocalAt(entries, i + 1)
      <4>1. o \in Nat /\ j \in 1..(n + 1)
        BY <1>1, <3>1, <3>6, Layout
      <4>2. ~(j <= i)
        <5>1. SUFFICES ASSUME j < i PROVE FALSE
          BY <1>1, <2>5, <3>2, <3>6
        <5>2. LocalAt(entries, j + 1) <= LocalAt(entries, i)
          BY <1>1, <3>1, <5>1, Layout
        <5>3. LocalAt(entries, j + 1) = o + LocalSize(entries[j])
          BY <1>1, <3>6, Layout
        <5>4. LocalSize(entries[j]) \in Nat
          <6>1. entries[j] \in Entries
            BY <1>1
          <6>2. QED
            BY <6>1, EntryNumbers
        <5>5. QED
          BY <2>5, <3>2, <4>1, <5>2, <5>3, <5>4
      <4>3. i < j
        BY <1>1, <4>2
      <4>4. QED
        BY <1>1, <3>1, <3>2, <3>6, <4>1, <4>3, Layout
    <3>7. QED
      BY <1>1, <3>4, <3>5, <3>6, Written
  <2>6. LocalAt(entries, i + 1) = LocalAt(entries, i) + LocalHeader + Len(Name(entries[i])) + Payload(entries[i])
    <3>1. LocalAt(entries, i + 1) = LocalAt(entries, i) + LocalSize(entries[i])
      BY <1>1, Layout
    <3>2. entries[i] \in Entries /\ i \in 1..(n + 1)
      BY <1>1
    <3>3. LocalAt(entries, i) \in Nat /\ Len(Name(entries[i])) \in Nat /\ Payload(entries[i]) \in Nat
      BY <1>1, <3>2, Layout, EntryNumbers
    <3>4. QED
      BY <3>1, <3>3 DEF LocalSize, LocalHeader
  <2>7. QED
    BY <2>1, <2>2, <2>3, <2>4, <2>5, <2>6
<1>5. QED
  BY <1>3, <1>4

\* For all widths and lists of any length: what buildZipBuffer() accepts has no number that
\* is too wide for its field.
THEOREM FieldsAlwaysFit == FieldsFit
<1> SUFFICES ASSUME NEW entries \in EntryLists, Accepted(entries),
                    NEW zip, zip = BuildZipBuffer(entries),
                    NEW o \in DOMAIN zip.records,
                    NEW r, r = zip.records[o]
             PROVE  /\ Len(r.name) <= U16_MAX /\ {r.size, r.at} \subseteq 0..U32_MAX
                    /\ r.payload <= (IF r.sig = "end" THEN U16_MAX ELSE U32_MAX)
  BY DEF FieldsFit
<1> DEFINE n == Len(entries)
<1>1. entries \in Seq(Entries) /\ n \in Nat /\ DOMAIN entries = 1..n /\ \A i \in 1..n : entries[i] \in Entries
  BY ListIsSequence
<1>2. U16_MAX \in Nat /\ U32_MAX \in Nat
  BY ZipAssumption
<1>3. /\ n <= U16_MAX
      /\ \A i \in 1..n : Len(Name(entries[i])) <= U16_MAX /\ entries[i][2][1] <= U32_MAX
      /\ \A i \in 1..(n + 1) : LocalAt(entries, i) <= U32_MAX
      /\ EndAt(entries) <= U32_MAX
  BY <1>1 DEF Accepted, Fits, LocalAt, EndAt, DirectoryAt
<1>4. ASSUME NEW i \in 1..n, r = LocalRecord(entries, i) \/ r = CentralRecord(entries, i)
      PROVE  /\ Len(r.name) <= U16_MAX /\ {r.size, r.at} \subseteq 0..U32_MAX
             /\ r.payload <= U32_MAX /\ r.sig # "end"
  <2>1. /\ r.name = Name(entries[i]) /\ r.size = entries[i][2][1] /\ r.payload = Payload(entries[i])
        /\ r.sig # "end" /\ (r.at = 0 \/ r.at = LocalAt(entries, i))
    BY <1>4 DEF LocalRecord, CentralRecord, EntryRecord, ZipRecord
  <2>2. i \in 1..(n + 1)
    BY <1>1
  <2>3. LocalAt(entries, i) \in Nat /\ LocalAt(entries, i) <= U32_MAX
    BY <1>1, <1>3, <2>2, Layout
  <2>4. /\ entries[i][2][1] \in Nat /\ Payload(entries[i]) \in Nat /\ Payload(entries[i]) <= entries[i][2][1]
        /\ Len(Name(entries[i])) <= U16_MAX /\ entries[i][2][1] <= U32_MAX
    BY <1>1, <1>3, EntryNumbers
  <2>5. QED
    BY <1>2, <2>1, <2>3, <2>4
<1>5. ASSUME r = LastRecord(entries)
      PROVE  /\ Len(r.name) <= U16_MAX /\ {r.size, r.at} \subseteq 0..U32_MAX
             /\ r.payload <= U16_MAX /\ r.sig = "end"
  <2>1. r.name = <<>> /\ r.size = DirectorySize(entries) /\ r.payload = n /\ r.sig = "end"
        /\ r.at = DirectoryAt(entries)
    BY <1>5 DEF LastRecord, ZipRecord
  <2>2. DirectorySize(entries) \in Nat /\ DirectoryAt(entries) \in Nat
        /\ EndAt(entries) = DirectoryAt(entries) + DirectorySize(entries)
    BY <1>1, Layout, PlacesDiffer DEF EndAt
  <2>3. DirectorySize(entries) <= U32_MAX /\ DirectoryAt(entries) <= U32_MAX
    BY <1>2, <1>3, <2>2
  <2>4. Len(<<>>) = 0
    OBVIOUS
  <2>5. QED
    BY <1>2, <1>3, <2>1, <2>2, <2>3, <2>4
<1>6. r = LastRecord(entries) \/ \E i \in 1..n : r = LocalRecord(entries, i) \/ r = CentralRecord(entries, i)
  BY <1>1, Written
<1>7. QED
  BY <1>4, <1>5, <1>6

\* For lists of any length: no entry of an archive has the name of another.
THEOREM NamesStayApart == NoEntryHidesAnother
<1> SUFFICES ASSUME NEW entries \in EntryLists, Accepted(entries),
                    NEW read, read = ReadZipEntries(BuildZipBuffer(entries)),
                    NEW i \in DOMAIN read, NEW j \in DOMAIN read, read[i].name = read[j].name
             PROVE  i = j
  BY DEF NoEntryHidesAnother
<1>1. entries \in Seq(Entries) /\ DOMAIN entries = 1..Len(entries)
  BY ListIsSequence
<1>2. read = [k \in 1..Len(entries) |-> CentralRecord(entries, k)]
  BY <1>1, DirectoryReadBack
<1>3. \A k \in DOMAIN read : k \in 1..Len(entries) /\ read[k].name = Name(entries[k])
  BY <1>2 DEF CentralRecord, EntryRecord, ZipRecord
<1>4. NamesDistinct(entries)
  BY DEF Accepted
<1>5. QED
  BY <1>1, <1>3, <1>4 DEF NamesDistinct

-----------------------------------------------------------------------------
(* What the run of these scripts checks *)

\* For every source, with its comments, every IDL and all that the expressions may match of
\* an item: a pass of the IDL check means agreement but for what is commented out or written
\* in a form they do not match, and what could not be read or found never passes.
THEOREM IdlVerdictAlwaysHolds == Spec => []IdlVerdictHolds
<1>1. IdlVerdictHolds
  BY PassIsAgreement, UnreadNeverPasses DEF IdlVerdictHolds
<1>2. QED
  BY <1>1, PTL

\* For every checkout, list of files and width of the fields a release build that passes
\* leaves one whole archive of its own, which reads back as what was written.
THEOREM ReleaseAlwaysWhole == Spec => []ReleaseIsWhole
<1>1. ReleaseIsWhole
  BY ArchiveReadsBack, FieldsAlwaysFit, NamesStayApart, PassedBuildIsWhole, OldArchivesGo
     DEF ReleaseIsWhole
<1>2. QED
  BY <1>1, PTL
=============================================================================
