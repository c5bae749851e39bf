------------------------------- MODULE Names --------------------------------
(***************************************************************************)
(* How a file becomes an entry of the library: header_name and             *)
(* describe_track of src/storage.c, track_name_copy and track_meta_init of *)
(* src/track.c.  Bytes are members of a small alphabet, told apart by what *)
(* the code tests of them; indices start at one.                           *)
(*                                                                         *)
(* The entry is filled over whatever it held before, so its name is the    *)
(* whole array of TrackNameMax bytes, the terminator and the rest         *)
(* included.                                                               *)
(*                                                                         *)
(* A definition marked "Defect" is not part of the model: it is what the   *)
(* definition below it would be with a plausible mistake in the code.      *)
(***************************************************************************)
EXTENDS Integers, Sequences

CONSTANTS
  Alphabet,       \* the bytes files are made of
  FileBytes,      \* bound on the length of a file
  HeaderPeek,     \* STORAGE_HEADER_PEEK
  FileMax,        \* STORAGE_FILE_MAX
  TrackNameMax,  \* TRACK_NAME_MAX
  ShortName       \* the 8.3 name of the file, which fits an entry

Nul == "NUL"

ASSUME NamesAssumption ==
  /\ FileBytes \in Nat /\ HeaderPeek \in Nat \ {0} /\ FileMax \in Nat
  /\ TrackNameMax \in Nat \ {0}
  /\ ShortName \in Seq(STRING \ {Nul}) /\ Len(ShortName) < TrackNameMax

VARIABLES
  file,     \* the content of the file
  header,   \* what header_name answers of its beginning
  entry,    \* the track_meta of the caller
  pc        \* "read", "describe" or "done"

namesVars == <<file, header, entry, pc>>

Smaller(m, n) == IF m < n THEN m ELSE n
Files == UNION {[1..n -> Alphabet] : n \in 0..FileBytes}

Old == "old"     \* a byte of the entry that was there before

\* Where a loop from `first` to `last` stops that goes on while it is in S.
Past(S, first, last) ==
  LET go[i \in first..(last + 1)] == IF i <= last /\ i \in S THEN go[i + 1] ELSE i
  IN  go[first]

Bom == <<"EF", "BB", "BF">>
IsBlank(byte) == byte = "space"
IsEol(byte) == byte = "newline"
IsColon(byte) == byte = "colon"

---------------------------------------------------------------------------
\* header_name.

SkipBom(buf) == IF Len(buf) >= 3 /\ SubSeq(buf, 1, 3) = Bom THEN 4 ELSE 1

\* The first byte of the name: past the BOM, the blank lines and the blanks.
NameStart(buf) ==
  Past({i \in 1..Len(buf) : IsBlank(buf[i]) \/ IsEol(buf[i])}, SkipBom(buf), Len(buf))

\* Defect: the name may take up two lines.
NameColonAnywhere(buf) ==
  LET stop == Past({i \in 1..Len(buf) : ~IsColon(buf[i])}, NameStart(buf), Len(buf))
  IN  IF stop <= Len(buf) THEN stop ELSE 0

\* The colon after the name, zero when the line or the buffer ends before it.
NameColon(buf) ==
  LET stop == Past({i \in 1..Len(buf) : ~IsColon(buf[i]) /\ ~IsEol(buf[i])},
                   NameStart(buf), Len(buf))
  IN  IF stop <= Len(buf) /\ IsColon(buf[stop]) THEN stop ELSE 0

\* The last byte of the name, without the blanks before the colon.
NameEnd(buf) ==
  LET length == NameColon(buf) - NameStart(buf)
  IN  NameColon(buf)
        - Past({k \in 1..length : IsBlank(buf[NameColon(buf) - k])}, 1, length)

HeaderName(buf) ==
  IF NameColon(buf) = 0
    THEN [found |-> FALSE, name |-> <<>>]
    ELSE [found |-> TRUE, name |-> SubSeq(buf, NameStart(buf), NameEnd(buf))]

---------------------------------------------------------------------------
\* track_name_copy.

Width(byte) == CASE byte = "C3" -> 2 [] byte = "EF" -> 3 [] byte = "F0" -> 4 [] OTHER -> 1
IsContinuation(byte) == byte \in {"BB", "BF"}

Utf8ContMax == 3

\* Defect: the byte before the cut is looked at, not the one after it.
BoundaryBefore(src, cut) ==
  cut - Past({k \in 0..(cut - 1) : IsContinuation(src[cut - k])},
             0, Smaller(Utf8ContMax, cut) - 1)

\* Defect: the search for the beginning of a character has no limit.
BoundaryUnlimited(src, cut) ==
  cut - Past({k \in 0..(cut - 1) : IsContinuation(src[cut - k + 1])}, 0, cut - 1)

\* utf8_boundary: src[cut + 1] is the first byte that is left out.
Boundary(src, cut) ==
  cut - Past({k \in 0..(cut - 1) : IsContinuation(src[cut - k + 1])},
             0, Smaller(Utf8ContMax, cut) - 1)

\* How many bytes of src are copied into an array of `size` bytes.
Copied(src, size) ==
  IF Len(src) < size THEN Len(src) ELSE Boundary(src, size - 1)

\* Defect: track_meta_init does not clear the entry first.
NameOver(old, src) ==
  [i \in 1..TrackNameMax |->
     CASE i <= Copied(src, TrackNameMax)     -> src[i]
       [] i = Copied(src, TrackNameMax) + 1  -> Nul
       [] OTHER                               -> old[i]]

\* track_meta_init: memset, the copy, and its terminator.
NameField(old, src) ==
  [i \in 1..TrackNameMax |->
     IF i <= Copied(src, TrackNameMax) THEN src[i] ELSE Nul]

---------------------------------------------------------------------------
Init ==
  /\ file \in Files
  /\ header = [found |-> FALSE, name |-> <<>>]
  /\ entry = [name |-> [i \in 1..TrackNameMax |-> Old], valid |-> FALSE]
  /\ pc = "read"

\* fs_read of the beginning of the file, and header_name.
Peek == SubSeq(file, 1, Smaller(Len(file), HeaderPeek))

ReadHeader ==
  /\ pc = "read"
  /\ header' = HeaderName(Peek)
  /\ pc' = "describe"
  /\ UNCHANGED <<file, entry>>

\* The name a track is given, before it is copied.
Chosen == IF header.found /\ header.name # <<>> THEN header.name ELSE ShortName

\* The rest of describe_track.
DescribeTrack ==
  /\ pc = "describe"
  /\ entry' = [name |-> NameField(entry.name, Chosen),
               valid |-> header.found /\ Len(file) <= FileMax]
  /\ pc' = "done"
  /\ UNCHANGED <<file, header>>

Next == ReadHeader \/ DescribeTrack

Spec == Init /\ [][Next]_namesVars

---------------------------------------------------------------------------
\* Properties.

\* What the comment of header_name says a header is: a BOM or none, blank
\* lines and blanks, a name on one line without a colon and without blanks at
\* its ends, blanks, a colon.
IsHeader(buf, first, last, colon) ==
  /\ colon <= Len(buf) /\ IsColon(buf[colon])
  /\ \A i \in SkipBom(buf)..(first - 1) : IsBlank(buf[i]) \/ IsEol(buf[i])
  /\ \A i \in first..last : ~IsColon(buf[i]) /\ ~IsEol(buf[i])
  /\ \A i \in (last + 1)..(colon - 1) : IsBlank(buf[i])
  /\ first <= last => ~IsBlank(buf[first]) /\ ~IsBlank(buf[last])

\* Where the name begins and ends, and the colon after it.
Splits(buf) ==
  {s \in (SkipBom(buf)..(Len(buf) + 1)) \X (0..Len(buf)) \X (1..Len(buf)) :
     s[1] - 1 <= s[2] /\ s[2] < s[3] /\ IsHeader(buf, s[1], s[2], s[3])}

\* header_name finds a header when the first bytes of the file are one, and
\* then answers its name, and otherwise does not.
HeaderIsAsWritten ==
  pc = "describe" =>
    /\ header.found <=> Splits(Peek) # {}
    /\ \A s \in Splits(Peek) : header.name = SubSeq(Peek, s[1], s[2])

\* Every character complete, and no byte outside one.
IsUtf8(bytes) ==
  \A i \in 1..Len(bytes) :
    IF IsContinuation(bytes[i])
      THEN \E k \in 1..3 : k < i /\ Width(bytes[i - k]) > k
      ELSE /\ i + Width(bytes[i]) - 1 <= Len(bytes)
           /\ \A j \in (i + 1)..(i + Width(bytes[i]) - 1) : IsContinuation(bytes[j])

\* The name as a string of C.
Stored ==
  SubSeq(entry.name, 1,
         Past({i \in 1..TrackNameMax : entry.name[i] # Nul}, 1, TrackNameMax) - 1)

\* A name too long for its entry is cut between two characters, and no earlier
\* than it has to be.
CutBetweenCharacters ==
  pc = "done" /\ IsUtf8(Chosen) =>
    /\ IsUtf8(Stored)
    /\ \A n \in (Len(Stored) + 1)..Smaller(Len(Chosen), TrackNameMax - 1) :
         ~IsUtf8(SubSeq(Chosen, 1, n))

\* What is not UTF-8 loses at most three bytes more than it has to: junk is no
\* reason to erase a name.
JunkIsNotErased ==
  pc = "done" => Len(Stored) >= Smaller(Len(Chosen), TrackNameMax - 1) - 3

\* Equal names are equal byte by byte, whatever the entry held before, and
\* every name is terminated.
EntriesCompare ==
  pc = "done" =>
    /\ Len(Stored) < TrackNameMax
    /\ entry.name = Stored \o [i \in 1..(TrackNameMax - Len(Stored)) |-> Nul]
=============================================================================
