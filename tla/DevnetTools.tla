------------------------------ MODULE DevnetTools ------------------------------
(***************************************************************************)
(* The scripts that release the program and the extension, beside one      *)
(* another: the cycle on the devnet, the check of the IDL, the build and   *)
(* its archives.  They share no state.                                     *)
(***************************************************************************)
EXTENDS DevnetCycle, ZipArchive, IdlCheck, ReleaseBuild

\* A verdict of the IDL check is about what was read.  This and the next one are about
\* functions of their arguments, so they are looked at once, in the first state.
IdlVerdictHolds == Init => PassMeansAgreement /\ UnreadIsSelfFail

\* An IDL that has an item the program no longer has is not passed.
StaleIdlNeverPasses == Init => StaleIdlFails

\* A release build that passes leaves one archive, of this build, with all that the manifest
\* names, and what the writer of archives accepts the reader gives back.
ReleaseIsWhole ==
  Init =>
    /\ ZipReadsBack /\ FieldsFit /\ NoEntryHidesAnother
    /\ BuildPassIsWhole /\ NoArchiveOfAnother
=============================================================================
