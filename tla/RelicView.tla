------------------------------- MODULE RelicView -------------------------------
(***************************************************************************)
(* From a response of the API to what the reader sees: the response made   *)
(* regular (normalizeRelic of shared/api.js), the price tag built of it    *)
(* (shared/render.js, shared/format.js), and the notice of a failed lookup.*)
(*                                                                         *)
(* The properties quantify over all responses up to a few axes.  A number  *)
(* is an integer (weights in hundredths); Missing stands for a field that  *)
(* is absent or of another type.  A response is JSON, so NaN does not come.*)
(***************************************************************************)
EXTENDS Integers, Sequences, FiniteSets

CONSTANTS
  Contract,        \* AXIS_ORDER, the keys of the axes in the API's contract
  ExtraKeys, NoKey,
  AXIS_WEIGHTS,    \* contract key -> weight
  Scores, Weights, \* the numbers that a response may carry
  MaxAxes          \* bound on the axes of a response

Missing == -1000

ContractKeys == {Contract[i] : i \in DOMAIN Contract}
Keys == ContractKeys \cup ExtraKeys

ASSUME ViewAssumption ==
  /\ Contract \in Seq(ContractKeys)
  /\ \A i, j \in DOMAIN Contract : Contract[i] = Contract[j] => i = j
  /\ ExtraKeys \cap ContractKeys = {} /\ NoKey \notin Keys
  /\ AXIS_WEIGHTS \in [ContractKeys -> Nat]
  /\ Scores \cup Weights \subseteq Int \ {Missing} /\ MaxAxes \in Nat

RawAxes ==
  {axis \in [key : Keys \cup {NoKey}, status : {"ok", "unknown"},
             score : Scores \cup {Missing}, weight : Weights \cup {Missing}] :
     axis.key = NoKey => axis.status = "ok" /\ axis.score = Missing /\ axis.weight = Missing}
Responses == UNION {[1..n -> RawAxes] : n \in 0..MaxAxes}

-----------------------------------------------------------------------------
(* normalizeRelic() *)

\* The elements at the places, in their order.
PlaceOf(places, n) == CHOOSE i \in places : Cardinality({j \in places : j < i}) = n - 1
At(seq, places) == [n \in 1..Cardinality(places) |-> seq[PlaceOf(places, n)]]

\* Where the keys of a response that are not in the contract come first.
FirstExtras(raw) ==
  {i \in DOMAIN raw : raw[i].key \in ExtraKeys /\ \A j \in 1..(i - 1) : raw[j].key # raw[i].key}

\* Of several axes with one key the last one counts.
LastOf(raw, key) ==
  raw[CHOOSE i \in DOMAIN raw :
        raw[i].key = key /\ \A j \in DOMAIN raw : raw[j].key = key => j <= i]

Has(raw, key) == \E i \in DOMAIN raw : raw[i].key = key

\* Mutant: the score of an axis that was not observed is taken as 0.
FoldedToZero(axis) ==
  IF axis.status = "ok" /\ axis.score # Missing THEN axis ELSE [axis EXCEPT !.score = 0, !.status = "ok"]

\* An axis without status ok, or without a score, is unknown and has none.
Flattened(axis) ==
  IF axis.status = "ok" /\ axis.score # Missing THEN axis
  ELSE [axis EXCEPT !.score = Missing, !.status = "unknown"]

Unknown(key) == [key |-> key, status |-> "unknown", score |-> Missing, weight |-> Missing]

\* The axes of the contract, each filled in when it is absent, then all others.
NormalizedAxes(raw) ==
  [i \in DOMAIN Contract |->
     IF Has(raw, Contract[i]) THEN Flattened(LastOf(raw, Contract[i])) ELSE Unknown(Contract[i])]
  \o LET extras == At(raw, FirstExtras(raw))
     IN  [i \in DOMAIN extras |-> Flattened(LastOf(raw, extras[i].key))]

-----------------------------------------------------------------------------
(* The rows of the tag *)

\* axisWeight(): the API's, then the table's, then none.
AxisWeight(axis) ==
  IF axis.weight # Missing THEN axis.weight
  ELSE IF axis.key \in DOMAIN AXIS_WEIGHTS THEN AXIS_WEIGHTS[axis.key] ELSE Missing

OrZero(number) == IF number = Missing THEN 0 ELSE number

\* Array.prototype.sort() by a number for each element, the greatest first; it is stable.
Precedes(number, i, j) == number[i] > number[j] \/ (number[i] = number[j] /\ i < j)
Ranked(number, n) ==
  CHOOSE j \in DOMAIN number :
    Cardinality({i \in DOMAIN number : Precedes(number, i, j)}) = n - 1
SortedBy(seq, number) == [n \in DOMAIN seq |-> seq[Ranked(number, n)]]

AXIS_DISPLAY_ORDER == SortedBy(Contract, [i \in DOMAIN Contract |-> AXIS_WEIGHTS[Contract[i]]])

\* The rows of buildAxes() before they are sorted.
Rows(axes) ==
  [i \in DOMAIN Contract |->
     IF Has(axes, AXIS_DISPLAY_ORDER[i]) THEN LastOf(axes, AXIS_DISPLAY_ORDER[i])
     ELSE Unknown(AXIS_DISPLAY_ORDER[i])]
  \o At(axes, {i \in DOMAIN axes : axes[i].key \in ExtraKeys})

HeaviestFirst(rows) == SortedBy(rows, [i \in DOMAIN rows |-> OrZero(AxisWeight(rows[i]))])

Clamp(n, low, high) == IF n < low THEN low ELSE IF n > high THEN high ELSE n

\* axisBarHeight() in pixels: 4 + 40 * weight, rounded, from 6 to 18.
BarHeight(weight) == IF weight = Missing THEN 6 ELSE Clamp((450 + 40 * weight) \div 100, 6, 18)

\* The width of a bar, in percent.
ScoreToWidth(score) == Clamp(score, 0, 100)

\* renderAxis(): no bar and "no data", or a bar as wide as the score.
NoData == Missing
RenderAxis(axis) ==
  [key |-> axis.key, height |-> BarHeight(AxisWeight(axis)),
   value |-> IF axis.status # "ok" \/ axis.score = Missing THEN NoData ELSE axis.score,
   width |-> IF axis.status # "ok" \/ axis.score = Missing THEN NoData
             ELSE ScoreToWidth(axis.score)]

BuildAxes(raw) ==
  LET rows == HeaviestFirst(Rows(NormalizedAxes(raw)))
  IN  [i \in DOMAIN rows |-> RenderAxis(rows[i])]

-----------------------------------------------------------------------------
(* The labels of the tag *)

RawTags == [confidence : {"high", "medium", "low", "other"}, observed : {"true", "false", "other"}]

\* confidenceNote()
ConfidenceNote(confidence) ==
  CASE confidence = "high" -> {}
    [] confidence = "other" -> {"confidence unknown"}
    [] OTHER -> {confidence}

\* The notes on a chip of buildChips().
Notes(tag) ==
  ConfidenceNote(tag.confidence)
  \cup (IF tag.observed = "false" THEN {"not directly observed"} ELSE {})

-----------------------------------------------------------------------------
(* Failures *)

\* What request() may fail with: an HTTP status, or 0 and a code of its own; a status may
\* come with a code of the API.
Errors ==
  [status : {0}, code : {"timeout", "network", "bad_base_url", "no_fetch"}]
  \cup [status : {200}, code : {"bad_json"}]
  \cup [status : {400, 404, 422, 429, 500, 503}, code : {"none", "unknown_mint", "not_a_mint"}]

\* fetchRelic() of the worker: the failure is an answer, this is not a mint.
Denied(error) == error.status = 404 \/ error.code \in {"unknown_mint", "not_a_mint"}

\* apiFailureNotice(), the first of its conditions that holds.
Notice(error) ==
  CASE error.status = 404 -> "none"
    [] error.status = 429 -> "rate limited"
    [] error.code = "timeout" -> "timed out"
    [] error.status = 0 -> "cannot reach"
    [] error.status >= 500 -> "server error"
    [] OTHER -> "could not read"

-----------------------------------------------------------------------------
(* Properties *)

\* "Folding a missing value into a zero would show every failed lookup as a dead token"
\* (api.js): a row has a number and a bar exactly when the last axis of its key was
\* observed with a score, and then it is that score.
MissingNeverZero ==
  \A raw \in Responses :
    LET rows == BuildAxes(raw) IN
    \A i \in DOMAIN rows :
      LET sent == {axis \in {LastOf(raw, k) : k \in {k \in {rows[i].key} : Has(raw, k)}} :
                     axis.status = "ok" /\ axis.score # Missing}
      IN  /\ (rows[i].value = NoData) <=> (sent = {})
          /\ (rows[i].width = NoData) <=> (sent = {})
          /\ \A axis \in sent : rows[i].value = axis.score

\* Through normalising, filling in, appending and sorting no axis is lost, invented or
\* drawn twice: the rows are those of the contract and those sent besides, each once.
EveryAxisOnce ==
  \A raw \in Responses :
    LET rows == BuildAxes(raw) IN
    /\ {rows[i].key : i \in DOMAIN rows} =
         ContractKeys \cup {k \in ExtraKeys : Has(raw, k)}
    /\ \A i, j \in DOMAIN rows : rows[i].key = rows[j].key => i = j

\* "The heavier an axis, the higher and thicker it is drawn" (constants.js): down the tag
\* the bars never get thicker, whatever weights came with the response, unknown ones among
\* them.
ThicknessFollowsOrder ==
  \A raw \in Responses :
    LET rows == BuildAxes(raw) IN
    \A i \in 2..Len(rows) : rows[i].height <= rows[i - 1].height

\* "The chance of a false positive is not hidden" (format.js): a chip without a note is of
\* high confidence and was not reported as unobserved.
DoubtIsWritten ==
  \A tag \in RawTags : Notes(tag) = {} => tag.confidence = "high" /\ tag.observed # "false"

\* "Drawing nothing at all is the worst failure there is" (format.js): a failure that the
\* worker does not turn into an answer has a notice, so the two lists of conditions in
\* two files leave none out between them.
NoSilentFailure == \A error \in Errors : Denied(error) \/ Notice(error) # "none"
=============================================================================
