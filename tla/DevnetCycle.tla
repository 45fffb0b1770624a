------------------------------ MODULE DevnetCycle ------------------------------
(***************************************************************************)
(* The scripts that drive the deployed program (anchor-program/scripts):   *)
(* devnet-cycle.ts walks one wallet through every instruction and writes   *)
(* down what it did, verify-devnet.ts checks what was written against the  *)
(* chain, and set-stall-uri.ts changes the stall's URI beside them.        *)
(*                                                                         *)
(* The RPC node loses replies: a transaction that was sent may have        *)
(* landed, may land later, or never, and withRetry() sends another one.    *)
(* The script may end anywhere, and the next run starts from the chain.    *)
(* The program's own rules (BazrMarket, BazrCrate) are here the conditions *)
(* under which each instruction goes through.                              *)
(***************************************************************************)
EXTENDS Integers, FiniteSets, Sequences

CONSTANTS
  MaxAttempts,     \* attempts of withRetry()
  MaxRuns,         \* bound on the runs of devnet-cycle.ts
  MaxFaults        \* bound on lost replies and failed waits and ends of the script

ASSUME CycleAssumption == {MaxAttempts, MaxRuns} \subseteq Nat \ {0} /\ MaxFaults \in Nat

Runs == 1..MaxRuns
Legs == {"relic", "fade"}
Steps == <<"createMint", "initialize_market", "createAta", "mintTo", "open_stall",
           "list_relic", "resolve_listing", "create_crate", "rebalance_crate",
           "list_fade", "resolve_fade", "write">>
Names == {Steps[i] : i \in DOMAIN Steps}

VARIABLES
  market, ata,     \* chain: the market and the wallet's token account exist
  balance,         \* chain: bonds the wallet can pay
  stall,           \* chain: "none", "open" or "closed"
  listings,        \* chain: run and leg -> "none", "pending", "survived" or "faded"
  crates,          \* chain: run -> rebalance_count, -1 without a crate
  late,            \* transactions that may still land: <<run, step>>
  run,             \* the last run: [n, pc, stage, fresh, attempt, sigs]
  file,            \* .devnet-cycle-state.json: its run and signatures, or NoFile
  uri,             \* set-stall-uri.ts: [at, before], and whether a listing was made or
                   \*   graded between its two reads (touched, history)
  verdict,         \* of verify-devnet.ts: "none", "PASS" or "FAIL"
  faults

chain == <<market, ata, balance, stall, listings, crates>>
vars == <<chain, late, run, file, uri, verdict, faults>>

NoFile == [n |-> 0, sigs |-> {}]
Fault == faults < MaxFaults /\ faults' = faults + 1

Graded(outcome) == Cardinality({k \in Runs \X Legs : listings[k] = outcome})
Pending == {k \in Runs \X Legs : listings[k] = "pending"}
Record == <<Graded("survived"), Graded("faded"),
            Cardinality({k \in Runs \X Legs : listings[k] # "none"})>>

-----------------------------------------------------------------------------
(* The transactions *)

Leg(step) == IF step \in {"list_relic", "resolve_listing"} THEN "relic" ELSE "fade"

\* The transaction of a step of run n goes through: its accounts are as it needs them.
Can(n, step) ==
  CASE step = "createMint" -> TRUE
    [] step = "initialize_market" -> ~market
    [] step = "createAta" -> ~ata
    [] step = "mintTo" -> ata
    [] step = "open_stall" -> market /\ stall = "none" /\ balance > 0
    [] step \in {"list_relic", "list_fade"} ->
         stall = "open" /\ listings[<<n, Leg(step)>>] = "none"
    [] step \in {"resolve_listing", "resolve_fade"} -> listings[<<n, Leg(step)>>] = "pending"
    [] step = "create_crate" -> crates[n] = -1
    [] step = "rebalance_crate" -> crates[n] >= 0
    [] OTHER -> FALSE

Listed(n, step) ==
  listings' = [listings EXCEPT ![<<n, Leg(step)>>] =
    CASE step \in {"list_relic", "list_fade"} -> "pending"
      [] step = "resolve_listing" -> "survived"
      [] step = "resolve_fade" -> "faded"
      [] OTHER -> @]

\* What it does to the chain.  mintTo pays for five bonds, of which one is ever used.
Lands(n, step) ==
  /\ Can(n, step)
  /\ market' = (market \/ step = "initialize_market")
  /\ ata' = (ata \/ step = "createAta")
  /\ balance' = CASE step = "mintTo" -> balance + 5
                  [] step = "open_stall" -> balance - 1
                  [] OTHER -> balance
  /\ stall' = IF step = "open_stall" THEN "open" ELSE stall
  /\ Listed(n, step)
  /\ crates' = [crates EXCEPT ![n] =
       IF step \in {"create_crate", "rebalance_crate"} THEN @ + 1 ELSE @]
  /\ uri' = [uri EXCEPT !.touched = @ \/ (uri.at \in {"read", "sent"} /\ listings' # listings)]

\* One that was given up lands after all, beside what was sent instead; or its blockhash
\* expires.
LandsLate(tx) ==
  /\ late' = late \ {tx}
  /\ Lands(tx[1], tx[2]) \/ UNCHANGED <<chain, uri>>
  /\ UNCHANGED <<run, file, verdict, faults>>

-----------------------------------------------------------------------------
(* devnet-cycle.ts *)

Step == Steps[run.pc]

\* Mutant: a stall that exists is opened again.
NeededAlways == IF Step \in {"createMint", "initialize_market"} THEN run.fresh ELSE TRUE

\* What main() looks up on the chain before a step: is it needed?
Needed ==
  CASE Step \in {"createMint", "initialize_market"} -> run.fresh
    [] Step = "createAta" -> ~ata
    [] Step = "mintTo" -> balance < 1
    [] Step = "open_stall" -> stall = "none"
    [] OTHER -> TRUE

NewRun(n) ==
  [n |-> n, pc |-> 1, stage |-> "begin", fresh |-> ~market, attempt |-> 1, sigs |-> {}]
NextStep == [run EXCEPT !.pc = @ + 1, !.stage = "begin", !.attempt = 1]
Failed == [run EXCEPT !.stage = "failed"]

\* A run starts: the first one, or another after one that failed.
Start ==
  /\ run.stage = "failed" /\ run.n < MaxRuns
  /\ run' = NewRun(run.n + 1)
  /\ UNCHANGED <<chain, late, file, uri, verdict, faults>>

Begin ==
  /\ run.stage = "begin" /\ Step # "write"
  /\ run' = IF Needed THEN [run EXCEPT !.stage = "send"] ELSE NextStep
  /\ UNCHANGED <<chain, late, file, uri, verdict, faults>>

\* The transaction lands and its reply arrives: record().
Send ==
  /\ run.stage = "send"
  /\ Lands(run.n, Step)
  /\ run' = [NextStep EXCEPT !.sigs = @ \cup {Step}]
  /\ UNCHANGED <<late, file, verdict, faults>>

\* The accounts are not as it needs them: the simulation fails, and the run with it.
Refuse ==
  /\ run.stage = "send" /\ ~Can(run.n, Step)
  /\ run' = Failed
  /\ UNCHANGED <<chain, late, file, uri, verdict, faults>>

\* Mutant: after the last attempt the run goes on.
GivenUpQuietly == IF run.attempt = MaxAttempts THEN NextStep
                  ELSE [run EXCEPT !.attempt = @ + 1]

\* withRetry() after an error that may pass: another attempt, or the error.
Retried == IF run.attempt = MaxAttempts THEN Failed ELSE [run EXCEPT !.attempt = @ + 1]

\* The reply is lost or late, whether or not the transaction landed.
Lose ==
  /\ run.stage = "send" /\ Fault
  /\ \/ Lands(run.n, Step) /\ UNCHANGED late
     \/ late' = late \cup {<<run.n, Step>>} /\ UNCHANGED <<chain, uri>>
     \/ UNCHANGED <<chain, late, uri>>
  /\ run' = Retried
  /\ UNCHANGED <<file, verdict>>

\* waitForAccount() or waitForBalance() runs out, a call fails for good, or the script ends.
Crash ==
  /\ run.stage \in {"begin", "send"} /\ Fault
  /\ run' = Failed
  /\ UNCHANGED <<chain, late, file, uri, verdict>>

\* The accounts are read back and the state file is written, as the last thing.
Write ==
  /\ run.stage = "begin" /\ Step = "write"
  /\ run' = [run EXCEPT !.stage = "done"]
  /\ file' = [n |-> run.n, sigs |-> run.sigs]
  /\ UNCHANGED <<chain, late, uri, verdict, faults>>

-----------------------------------------------------------------------------
(* The other scripts, and the owner *)

\* verify-devnet.ts: both columns of the stall.
Verify ==
  /\ file # NoFile
  /\ verdict' = IF Graded("survived") > 0 /\ Graded("faded") > 0 THEN "PASS" ELSE "FAIL"
  /\ UNCHANGED <<chain, late, run, file, uri, faults>>

\* set-stall-uri.ts reads the record, sends, reads again and compares.
UriBefore ==
  /\ uri.at = "idle" /\ stall # "none"
  /\ uri' = [at |-> "read", before |-> Record, touched |-> FALSE]
  /\ UNCHANGED <<chain, late, run, file, verdict, faults>>

UriSend ==
  /\ uri.at = "read"
  /\ uri' = [uri EXCEPT !.at = IF stall = "open" THEN "sent" ELSE "FAIL"]
  /\ UNCHANGED <<chain, late, run, file, verdict, faults>>

Preserved == Record = uri.before

UriAfter ==
  /\ uri.at = "sent"
  /\ uri' = [uri EXCEPT !.at = IF Preserved THEN "PASS" ELSE "FAIL"]
  /\ UNCHANGED <<chain, late, run, file, verdict, faults>>

\* The owner closes the stall, for good, when nothing is pending.
CloseStall ==
  /\ stall = "open" /\ Pending = {} /\ stall' = "closed"
  /\ UNCHANGED <<market, ata, balance, listings, crates, late, run, file, uri, verdict, faults>>

Init ==
  /\ market = FALSE /\ ata = FALSE /\ balance = 0 /\ stall = "none"
  /\ listings = [k \in Runs \X Legs |-> "none"] /\ crates = [n \in Runs |-> -1]
  /\ late = {} /\ run = NewRun(1) /\ file = NoFile
  /\ uri = [at |-> "idle", before |-> Record, touched |-> FALSE] /\ verdict = "none" /\ faults = 0

RunNext == Begin \/ Send \/ Refuse \/ Write

Next ==
  \/ Start \/ RunNext \/ Lose \/ Crash
  \/ \E tx \in late : LandsLate(tx)
  \/ Verify \/ UriBefore \/ UriSend \/ UriAfter \/ CloseStall

\* The script goes on, and one that failed is run again.
Spec == Init /\ [][Next]_vars /\ WF_vars(RunNext) /\ WF_vars(Start)

-----------------------------------------------------------------------------
(* Properties *)

\* Every variable has a value of its type.  The wallet never pays more than it has, there is
\* nothing but the market's one stall to list on, and a run that is under way has recorded
\* no step that it has not reached.
CycleTypeOK ==
  /\ {market, ata} \subseteq BOOLEAN /\ balance \in Nat
  /\ stall \in {"none", "open", "closed"} /\ (stall # "none" => market)
  /\ \A k \in Runs \X Legs : listings[k] # "none" => stall # "none"
  /\ late \subseteq Runs \X Names
  /\ run.pc \in DOMAIN Steps /\ run.attempt \in 1..MaxAttempts
  /\ run.stage \in {"begin", "send", "failed", "done"}
  /\ run.sigs \subseteq {Steps[i] : i \in 1..(run.pc - 1)}

\* The state file tells the truth: the run that wrote it has both its listings graded on the
\* chain, one survived and one faded, and its crate rebalanced, and each of these has its
\* signature, whatever was lost, retried or landed late.
FileIsTrue ==
  file # NoFile =>
    /\ listings[<<file.n, "relic">>] = "survived" /\ listings[<<file.n, "fade">>] = "faded"
    /\ crates[file.n] >= 1
    /\ {Steps[i] : i \in 6..11} \subseteq file.sigs

\* "The honesty gate" (verify-devnet.ts): no state file that devnet-cycle.ts has written
\* fails it.
VerifyPasses == verdict # "FAIL"

\* set-stall-uri.ts says PASS only when no listing was made or graded between its two reads:
\* two equal records mean that nothing happened.  The converse does not hold: a cycle that
\* runs beside it makes it say FAIL.
UriPassIsTrue == uri.at = "PASS" => ~uri.touched

\* The state file, the gate that reads it and the two reads around a new URI all say what
\* is on the chain.
ScriptsSound == CycleTypeOK /\ FileIsTrue /\ VerifyPasses /\ UriPassIsTrue

\* A rerun picks up where the last one left the chain: as long as the stall was not closed,
\* the state file is written in the end, and no remains of earlier runs prevent it.
CycleCompletes == <>(file # NoFile \/ stall = "closed")
=============================================================================
