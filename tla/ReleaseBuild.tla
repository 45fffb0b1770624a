------------------------------ MODULE ReleaseBuild ------------------------------
(***************************************************************************)
(* The build of the extension (tag-extension/scripts/build.mjs): steps     *)
(* that fill build/unpacked, and from it the archive build/*.zip.  A build *)
(* ends at the first step that fails, or at one where a call throws or     *)
(* where it is killed; the disk keeps what the steps before it wrote.      *)
(* ZipArchive models how the archive itself is written.                    *)
(***************************************************************************)
EXTENDS Integers, FiniteSets

CONSTANTS
  Versions, BadVersion,   \* what package.json may carry
  Icons                   \* names of icon files

Manifest == "manifest.json"
Bundles == {"background.js", "content.js"}
Maps == {"background.js.map"}
Statics == {"popup.html"}
FileNames == Bundles \cup Statics \cup Icons

ASSUME BuildAssumption ==
  /\ BadVersion \notin Versions
  /\ Icons \cap ({Manifest} \cup Bundles \cup Maps \cup Statics) = {}

\* A checkout: the version, whether sourcemaps are asked for, which files there are, and
\* the manifest: whether its schema is right, and the files that it refers to.
Checkouts ==
  {c \in [version : Versions \cup {BadVersion}, dev : BOOLEAN, files : SUBSET FileNames,
          schema : BOOLEAN, refs : SUBSET (FileNames \cup {"absent.js"})] :
     c.refs # {} /\ Cardinality(FileNames \ c.files) <= 1 /\ Cardinality(c.refs) <= 2}

\* The steps of main() in their order.
Reset == 1
Bundle == 2
CopyStatics == 3
CopyIcons == 4
WriteManifest == 5
CheckFiles == 6
WriteZip == 7
ReadBack == 8
Done == 9

-----------------------------------------------------------------------------
(* One build *)

\* validateManifest() finds each file that the manifest refers to.
RefsFound(c, written) == c.refs \subseteq written

\* What is in build/unpacked when a step is reached.
Unpacked(c, step) ==
  (IF step > Bundle THEN Bundles \cup (IF c.dev THEN Maps ELSE {}) ELSE {})
  \cup (IF step > CopyStatics THEN Statics ELSE {})
  \cup (IF step > CopyIcons THEN Icons \cap c.files ELSE {})
  \cup (IF step > WriteManifest THEN {Manifest} ELSE {})

\* The steps that fail by what the checkout holds.
Fails(c, step) ==
  \/ step = 0 /\ c.version = BadVersion
  \/ step = Bundle /\ ~(Bundles \subseteq c.files)
  \/ step = CopyStatics /\ ~(Statics \subseteq c.files)
  \/ step = CopyIcons /\ Icons \cap c.files = {}
  \/ step = WriteManifest /\ ~(c.schema /\ RefsFound(c, Unpacked(c, WriteManifest)))
  \/ step = CheckFiles /\ ~c.dev /\ Unpacked(c, CheckFiles) \cap Maps # {}

\* The step at which a build ends; fault is a step whose call throws, or Done for none.
EndOf(c, fault) ==
  CHOOSE step \in 0..Done :
    /\ step = fault \/ step = Done \/ Fails(c, step)
    /\ \A s \in 0..(step - 1) : s # fault /\ ~Fails(c, s)

BuildVerdict(c, fault) == IF EndOf(c, fault) = Done THEN "PASS" ELSE "FAIL"

\* The first write of a build removes all of build/.
ZipsLeft(zips, step) == IF step > Reset THEN {} ELSE zips

Zip(c, names) == [of |-> c, version |-> c.version, names |-> names]

\* The archives in build/ after a build.  writeFile may stop within an archive.
ZipsAfter(zips, c, fault) ==
  LET step == EndOf(c, fault)
      kept == {zip \in ZipsLeft(zips, step) : zip.version # c.version \/ step < WriteZip}
  IN  CASE step > WriteZip -> {kept \cup {Zip(c, Unpacked(c, WriteZip))}}
        [] step = WriteZip -> {kept, kept \cup {Zip(c, {})}}
        [] OTHER -> {kept}

-----------------------------------------------------------------------------
(* Properties *)

\* The archive of a build that passes is whole: it holds the manifest, every file the
\* manifest refers to, every bundle, no sourcemap unless one was asked for, and it is
\* the only archive in build/.
BuildPassIsWhole ==
  \A c \in Checkouts, fault \in 0..Done :
    BuildVerdict(c, fault) = "PASS" =>
      \A zips \in ZipsAfter({}, c, fault) :
        \E zip \in zips :
          /\ zips = {zip} /\ zip.version = c.version
          /\ c.refs \cup Bundles \cup {Manifest} \subseteq zip.names
          /\ (zip.names \cap Maps # {}) => c.dev

\* A build that fails once it has removed build/ leaves no archive of an earlier build behind,
\* to be taken for its own: what lies in build/ comes of the last build that got that far.
NoArchiveOfAnother ==
  \A c, d \in {c \in Checkouts : c.files = FileNames /\ c.schema} : \A fault \in 1..Done :
    \A first \in ZipsAfter({}, c, Done) : \A second \in ZipsAfter(first, d, fault) :
      EndOf(d, fault) > Reset => \A zip \in second : zip.of = d
=============================================================================
