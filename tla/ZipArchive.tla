------------------------------- MODULE ZipArchive -------------------------------
(***************************************************************************)
(* The ZIP writer and reader of the release build (tag-extension/scripts/  *)
(* zip.mjs).  An archive is its length and its records by the offset at    *)
(* which they begin; what lies between two records is payload.  The widths *)
(* of the header fields, 16 and 32 bits, are the bounds U16_MAX and        *)
(* U32_MAX, small here so that lists reach them.                           *)
(***************************************************************************)
EXTENDS Integers, Sequences, FiniteSets

CONSTANTS
  U16_MAX, U32_MAX,
  RawNames,    \* the names that the lists of the runs carry, sequences of characters
  Contents,    \* <<length, length once deflated>>
  MaxEntries   \* bound on a list

LocalHeader == 30
CentralHeader == 46
EndRecord == 22

ASSUME ZipAssumption ==
  /\ {U16_MAX, U32_MAX, MaxEntries} \subseteq Nat /\ Contents \subseteq Nat \X Nat
  /\ \A raw \in RawNames : raw \in Seq({"a", ".", "/", "\\"})

EntryLists == UNION {[1..n -> RawNames \X Contents] : n \in 0..MaxEntries}

-----------------------------------------------------------------------------
(* Names *)

\* Each backslash becomes a slash, and the slashes in front go.
NormalizedName(raw) ==
  LET slashed == [i \in DOMAIN raw |-> IF raw[i] = "\\" THEN "/" ELSE raw[i]]
      first == CHOOSE i \in 1..(Len(raw) + 1) :
                 /\ \A j \in 1..(i - 1) : slashed[j] = "/"
                 /\ i <= Len(raw) => slashed[i] # "/"
  IN  SubSeq(slashed, first, Len(raw))

\* What begins where a segment begins and ends where one ends, each single segment among it.
Segments(name) ==
  {SubSeq(name, from, to) : from \in {i \in 1..Len(name) : i = 1 \/ name[i - 1] = "/"},
                            to \in {i \in 1..Len(name) : i = Len(name) \/ name[i + 1] = "/"}}

NameAllowed(raw) ==
  LET name == NormalizedName(raw) IN
  /\ name # <<>> /\ name[Len(name)] # "/"
  /\ Segments(name) \cap {<<".">>, <<".", ".">>} = {}

Name(entry) == NormalizedName(entry[1])

\* No name comes twice in a list.
NamesDistinct(entries) ==
  \A i, j \in DOMAIN entries : Name(entries[i]) = Name(entries[j]) => i = j

-----------------------------------------------------------------------------
(* Writing *)

\* The bytes kept of an entry: deflated only when that is shorter.
Payload(entry) == IF entry[2][2] >= entry[2][1] THEN entry[2][1] ELSE entry[2][2]

\* Mutant: the name is not counted.
OffsetsWithoutNames(entries) ==
  LET at[i \in 1..(Len(entries) + 1)] ==
        IF i = 1 THEN 0 ELSE at[i - 1] + LocalHeader + Payload(entries[i - 1])
  IN  at

\* Where the local header of each entry begins, and after the last, the directory.
Offsets(entries) ==
  LET at[i \in 1..(Len(entries) + 1)] ==
        IF i = 1 THEN 0
        ELSE at[i - 1] + LocalHeader + Len(Name(entries[i - 1])) + Payload(entries[i - 1])
  IN  at

DirectorySize(entries) ==
  LET size[i \in 0..Len(entries)] ==
        IF i = 0 THEN 0 ELSE size[i - 1] + CentralHeader + Len(Name(entries[i]))
  IN  size[Len(entries)]

\* No offset, and no end of the directory, passes the width of its field.
Fits(entries) ==
  /\ \A i \in 1..(Len(entries) + 1) : Offsets(entries)[i] <= U32_MAX
  /\ Offsets(entries)[Len(entries) + 1] + DirectorySize(entries) <= U32_MAX

\* Every check of buildZipBuffer(); it throws when one fails.
Accepted(entries) ==
  /\ Len(entries) \in 1..U16_MAX
  /\ \A i \in DOMAIN entries :
       NameAllowed(entries[i][1]) /\ Len(Name(entries[i])) <= U16_MAX /\ entries[i][2][1] <= U32_MAX
  /\ NamesDistinct(entries)
  /\ Fits(entries)

ZipRecord(sig, name, payload, size, at) ==
  [sig |-> sig, name |-> name, payload |-> payload, size |-> size, at |-> at]

\* The archive: the local headers, the directory, and the record at its end.
BuildZipBuffer(entries) ==
  LET at == Offsets(entries)
      n == Len(entries)
      directory == at[n + 1]
      central(i) == directory + DirectorySize(SubSeq(entries, 1, i - 1))
      end == directory + DirectorySize(entries)
      record(i, sig, offset) ==
        ZipRecord(sig, Name(entries[i]), Payload(entries[i]), entries[i][2][1], offset)
  IN  [length |-> end + EndRecord,
       records |->
         [o \in {at[i] : i \in 1..n} \cup {central(i) : i \in 1..n} \cup {end} |->
            CASE o < directory -> record(CHOOSE i \in 1..n : at[i] = o, "local", 0)
              [] o = end -> ZipRecord("end", <<>>, n, DirectorySize(entries), directory)
              [] OTHER -> LET i == CHOOSE i \in 1..n : central(i) = o
                          IN  record(i, "central", at[i])]]

-----------------------------------------------------------------------------
(* Reading *)

\* No archive is empty, so that no list is an error.
Unreadable == <<>>

\* The end record: the last one at which the search from the end of the file stops.
EndRecords(zip) ==
  {o \in DOMAIN zip.records :
     /\ zip.records[o].sig = "end"
     /\ o <= zip.length - EndRecord /\ o >= zip.length - EndRecord - U16_MAX}

EndFound(zip) == zip.records[CHOOSE o \in EndRecords(zip) : \A p \in EndRecords(zip) : p <= o]

\* Where the reader looks for the records of the directory, each after the one before it.
PlacesRead(zip) ==
  LET place[i \in 1..(EndFound(zip).payload + 1)] ==
        IF i = 1 THEN EndFound(zip).at
        ELSE IF place[i - 1] \in DOMAIN zip.records
             THEN place[i - 1] + CentralHeader + Len(zip.records[place[i - 1]].name)
             ELSE place[i - 1]
  IN  place

\* readZipEntries(): as many records of the directory as the end record says.
ReadZipEntries(zip) ==
  LET end == EndFound(zip)
      place == PlacesRead(zip)
  IN  IF \/ EndRecords(zip) = {}
         \/ end.at + end.size > zip.length
         \/ \E i \in 1..end.payload :
              \/ place[i] + CentralHeader > zip.length
              \/ place[i] \notin DOMAIN zip.records
              \/ zip.records[place[i]].sig # "central"
      THEN Unreadable
      ELSE [i \in 1..end.payload |-> zip.records[place[i]]]

-----------------------------------------------------------------------------
(* Properties *)

\* What the writer accepts the reader gives back, though the two share no code (zip.mjs):
\* the entries in their order with their names and sizes, and the offset of each is that of
\* a local header of the same name, with room for its payload before the next record.
ZipReadsBack ==
  \A entries \in EntryLists :
    Accepted(entries) =>
      LET zip == BuildZipBuffer(entries)
          read == ReadZipEntries(zip)
      IN  /\ Len(read) = Len(entries)
          /\ \A i \in DOMAIN read :
               LET from == read[i].at IN
               /\ read[i].name = Name(entries[i]) /\ read[i].size = entries[i][2][1]
               /\ from \in DOMAIN zip.records
               /\ zip.records[from] = [read[i] EXCEPT !.sig = "local", !.at = 0]
               /\ \A o \in DOMAIN zip.records :
                    o > from => o >= from + LocalHeader + Len(read[i].name) + read[i].payload

\* Once the checks have passed no number is too wide for its field: Buffer.write* does not
\* throw when half of the headers are built.
FieldsFit ==
  \A entries \in EntryLists :
    Accepted(entries) =>
      LET zip == BuildZipBuffer(entries) IN
      \A o \in DOMAIN zip.records :
        LET record == zip.records[o] IN
        /\ Len(record.name) <= U16_MAX /\ {record.size, record.at} \subseteq 0..U32_MAX
        /\ record.payload <= (IF record.sig = "end" THEN U16_MAX ELSE U32_MAX)

\* No entry of an archive hides another: the names that are read back are all different,
\* also where the names that were given differ only in slashes.
NoEntryHidesAnother ==
  \A entries \in EntryLists :
    Accepted(entries) =>
      LET read == ReadZipEntries(BuildZipBuffer(entries)) IN
      \A i, j \in DOMAIN read : read[i].name = read[j].name => i = j
=============================================================================
