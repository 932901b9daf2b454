------------------------------ MODULE Uploads ------------------------------
(***************************************************************************)
(* The files an administrator uploads: letter distributions, lexicons and  *)
(* leave values, and the notation their words are written in               *)
(* (backend/src/catalog/upload.rs and tiles.rs).  A file is validated in   *)
(* full and written only without errors, so what is accepted here is what  *)
(* indexes are built from, and what clients, stored rows and searches      *)
(* write tiles with from then on.                                          *)
(*                                                                         *)
(* A file is a sequence of lines, each a record of its fields and of how   *)
(* many there are: 0 for an empty line, -1 for one that is not UTF-8.  A   *)
(* text is a sequence of characters, a field that does not parse as what   *)
(* it should be is BAD.  Errors are pairs of a line (0 for the file) and   *)
(* what is wrong with it; the limit of 1,000 reported errors is left out.  *)
(***************************************************************************)
EXTENDS Integers, Sequences, FiniteSets, SequencesExt, FiniteSetsExt

CONSTANTS
  BAD,
  MAX_LETTER,        \* tiles.rs MAX_LETTER_BYTES: 8
  MAX_TILES,         \* a tile index is a u8: 256
  MAX_WORD_TILES,    \* index.rs: 15
  MAX_LEAVE_TILES,   \* index.rs: 6
  MAX_LEAVE_VALUE    \* upload.rs: a million

ASSUME UploadsAssumption ==
  {MAX_LETTER, MAX_TILES, MAX_WORD_TILES, MAX_LEAVE_TILES, MAX_LEAVE_VALUE}
    \subseteq Nat \ {0}

BlankSign == <<"?">>
\* Characters a letter may not hold: those with a meaning in notations.
BadChars == {"[", "]", ",", "?", "*", ".", " "}

Records(file) == {i \in DOMAIN file : file[i].fields > 0}
Garbled(file) == {<<i, "utf8">> : i \in {j \in DOMAIN file : file[j].fields < 0}}

-----------------------------------------------------------------------------
(* Distributions: [fields, letter, blank_letter, count, value, vowel, wide] *)

WellFormed(file) == {i \in Records(file) : file[i].fields \in {5, 7}}

LetterFault(text) ==
  \/ text = <<>>
  \/ Len(text) > MAX_LETTER
  \/ ToSet(text) \cap BadChars # {}

IsBlankLine(f) == /\ f.letter = BlankSign
                  /\ f.blank_letter = BlankSign
                  /\ f.value = 0
                  /\ f.vowel = FALSE

\* The faults of one line on its own; `first` is the first record.
LineFaults(file, i, first) ==
  LET f == file[i]
  IN  {<<i, k>> : k \in {x \in {"count", "value", "vowel"} : f[x] = BAD}}
      \cup (IF f.fields = 7 /\ f.wide = BAD THEN {<<i, "wide">>} ELSE {})
      \cup IF i = first
           THEN IF IsBlankLine(f) THEN {} ELSE {<<i, "blank">>}
           ELSE {<<i, k>> : k \in {x \in {"letter", "blank_letter"} : LetterFault(f[x])}}

\* A letter, and a blank letter, given by an earlier line.  The blank's own
\* letter is known, its blank letter is not.
Repeats(file, first) ==
  {<<i, "letter">> : i \in {x \in WellFormed(file) \ {first} :
     \E j \in WellFormed(file) : j < x /\ file[j].letter = file[x].letter}}
  \cup
  {<<i, "blank_letter">> : i \in {x \in WellFormed(file) \ {first} :
     \E j \in WellFormed(file) \ {first} :
        j < x /\ file[j].blank_letter = file[x].blank_letter}}

\* A blank letter that is a letter, of any line.
Crossing(file, first) ==
  {<<i, "crossing">> : i \in {x \in WellFormed(file) \ {first} :
     \E j \in WellFormed(file) : file[j].letter = file[x].blank_letter}}

DistributionErrors(file) ==
  LET first == IF Records(file) = {} THEN 0 ELSE Min(Records(file))
      tiles == WellFormed(file)
  IN  Garbled(file)
      \cup {<<i, "fields">> : i \in Records(file) \ tiles}
      \cup UNION {LineFaults(file, i, first) : i \in tiles}
      \cup Repeats(file, first) \cup Crossing(file, first)
      \cup (IF Records(file) = {} THEN {<<0, "empty">>} ELSE {})
      \cup (IF Cardinality(tiles) > MAX_TILES THEN {<<0, "tiles">>} ELSE {})

\* The tiles of an accepted file, in the order of its lines: the tile t is the
\* element t + 1.
TilesOfFile(file) ==
  LET lines == SetToSortSeq(WellFormed(file), <)
  IN  [i \in DOMAIN lines |-> file[lines[i]]]

-----------------------------------------------------------------------------
(* MAGPIE notation over the tiles of a distribution                        *)

WriteTile(tiles, t) ==
  LET letter == tiles[t + 1].letter
  IN  IF Len(letter) > 1 THEN <<"[">> \o letter \o <<"]">> ELSE letter

ToMagpie(tiles, word) == FlattenSeq([i \in DOMAIN word |-> WriteTile(tiles, word[i])])

\* The tile a letter names, BAD for a blank letter or no tile.
TileNamed(tiles, letter, blank) ==
  IF letter = BlankSign THEN IF blank THEN 0 ELSE BAD
  ELSE IF \E i \in DOMAIN tiles : tiles[i].letter = letter
  THEN (CHOOSE i \in DOMAIN tiles : tiles[i].letter = letter) - 1
  ELSE BAD

\* Where the bracket that opens a text is closed; 0 if it is not, or if another
\* is opened first.
BracketEnd(text) ==
  LET marks == {i \in 2 .. Len(text) : text[i] \in {"[", "]"}}
  IN  IF marks # {} /\ text[Min(marks)] = "]" THEN Min(marks) ELSE 0

\* The tiles of a text, or BAD.
RECURSIVE Pieces(_, _, _)
Pieces(tiles, text, blank) ==
  IF text = <<>> THEN <<>>
  ELSE LET bracketed == text[1] = "["
           end == IF bracketed THEN BracketEnd(text) ELSE 1
           name == IF bracketed THEN SubSeq(text, 2, end - 1) ELSE <<text[1]>>
           t == TileNamed(tiles, name, blank)
           rest == Pieces(tiles, SubSeq(text, end + 1, Len(text)), blank)
       IN  IF \/ end = 0
              \/ bracketed /\ Len(name) <= 1
              \/ text[1] = "]"
              \/ t = BAD
           THEN BAD
           ELSE IF rest = BAD THEN BAD ELSE <<t>> \o rest

ParseMagpie(tiles, text, blank) ==
  IF text = <<>> THEN BAD ELSE Pieces(tiles, text, blank)

\* Tile order, which a leave is stored in.
CanonicalLeave(word) == SortSeq(word, <)

-----------------------------------------------------------------------------
(* Lexicons: [fields, word, playability, definition]                       *)

WordOf(tiles, f) == ParseMagpie(tiles, f.word, FALSE)

\* The errors of a record but for repeating another.
WordFaults(tiles, f) ==
  LET w == WordOf(tiles, f)
  IN  (IF w = BAD THEN {"word"} ELSE IF Len(w) > MAX_WORD_TILES THEN {"length"} ELSE {})
      \cup {k \in {"playability", "definition"} : f[k] = BAD}

\* Records without a fault of their own: only these are remembered, and so
\* repeated.
Sound(file, n, Faults(_)) ==
  {i \in Records(file) : file[i].fields = n /\ Faults(file[i]) = {}}

Repeated(file, sound, Key(_)) ==
  {<<i, "repeats">> : i \in {x \in sound : \E j \in sound :
                                              j < x /\ Key(file[j]) = Key(file[x])}}

\* A file of records of n fields: what is wrong with it, by line.
FileErrors(file, n, Faults(_), Key(_)) ==
  LET sound == Sound(file, n, Faults)
      faults == Garbled(file)
                \cup {<<i, "fields">> : i \in {x \in Records(file) : file[x].fields # n}}
                \cup UNION {{i} \X Faults(file[i]) :
                              i \in {x \in Records(file) : file[x].fields = n}}
                \cup Repeated(file, sound, Key)
  IN  IF faults = {} /\ Records(file) = {} THEN {<<0, "empty">>} ELSE faults

LexiconErrors(tiles, file) ==
  FileErrors(file, 3, LAMBDA f : WordFaults(tiles, f), LAMBDA f : WordOf(tiles, f))

\* What is stored of an accepted file: each word in notation.
Words(tiles, file) == {ToMagpie(tiles, WordOf(tiles, file[i])) : i \in Records(file)}

-----------------------------------------------------------------------------
(* Leave values: [fields, word, value]                                     *)

LeaveOf(tiles, f) ==
  LET w == ParseMagpie(tiles, f.word, TRUE)
  IN  IF w = BAD THEN BAD ELSE CanonicalLeave(w)

\* No leave holds more of a tile than the bag.
OverBag(tiles, w) ==
  \E i \in DOMAIN tiles : Cardinality({j \in DOMAIN w : w[j] = i - 1}) > tiles[i].count

LeaveFaults(tiles, f) ==
  LET w == LeaveOf(tiles, f)
  IN  (IF w = BAD THEN {"word"}
       ELSE IF Len(w) > MAX_LEAVE_TILES THEN {"length"}
       ELSE IF OverBag(tiles, w) THEN {"bag"} ELSE {})
      \cup (IF f.value = BAD THEN {"value"}
            ELSE IF f.value > MAX_LEAVE_VALUE \/ f.value < -MAX_LEAVE_VALUE
            THEN {"value"} ELSE {})

LeaveErrors(tiles, file) ==
  FileErrors(file, 2, LAMBDA f : LeaveFaults(tiles, f), LAMBDA f : LeaveOf(tiles, f))

Leaves(tiles, file) == {ToMagpie(tiles, LeaveOf(tiles, file[i])) : i \in Records(file)}

-----------------------------------------------------------------------------

AllDistinct(seq) == \A i, j \in DOMAIN seq : seq[i] = seq[j] => i = j

\* A distribution that can be written and read: the blank first, every letter
\* and every blank letter one tile's alone.
Legal(tiles) ==
  /\ Len(tiles) \in 1 .. MAX_TILES
  /\ IsBlankLine(tiles[1])
  /\ \A i \in 2 .. Len(tiles) : ~ LetterFault(tiles[i].letter)
  /\ AllDistinct([i \in DOMAIN tiles |-> tiles[i].letter]
                 \o [i \in DOMAIN Tail(tiles) |-> tiles[i + 1].blank_letter])

\* Every sequence of tiles is read back from its notation as it was written,
\* though one tile's letters may be another's twice: a stored word, a question
\* key and a filter name the tiles they were made of (tiles.rs to_magpie,
\* parse_magpie; upload.rs parse_distribution lets in what this rests on).
NotationReadsBack(file, words) ==
  DistributionErrors(file) = {} =>
    LET tiles == TilesOfFile(file)
    IN  /\ Legal(tiles)
        /\ Len(tiles) = Cardinality(Records(file))
        /\ \A w \in words : ToSet(w) \subseteq 0 .. Len(tiles) - 1 =>
             ParseMagpie(tiles, ToMagpie(tiles, w), TRUE) = w

\* What a lexicon or leave file is accepted for: a row per record, whose text
\* is read back as the same tiles, no two the same word or the same leave, and
\* every leave one that the bag can give (the keys the tables and the index
\* rest on: catalog/store.rs load_lexicon, load_leaves).
RowsAreDistinct(tiles, file) ==
  /\ LexiconErrors(tiles, file) = {} =>
       /\ Cardinality(Words(tiles, file)) = Cardinality(Records(file))
       /\ \A x \in Words(tiles, file) : ParseMagpie(tiles, x, FALSE) # BAD
  /\ LeaveErrors(tiles, file) = {} =>
       /\ Cardinality(Leaves(tiles, file)) = Cardinality(Records(file))
       /\ \A x \in Leaves(tiles, file) :
            LET w == ParseMagpie(tiles, x, TRUE)
            IN  w = CanonicalLeave(w) /\ ~ OverBag(tiles, w)
=============================================================================
