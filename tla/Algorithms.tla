----------------------------- MODULE Algorithms -----------------------------
(***************************************************************************)
(* The index and the search on whatever the server lets through: uploads   *)
(* of words and of leaves (upload.rs), patterns over the tiles of the      *)
(* distribution, and trees of filter rows (validate.rs).  A behaviour      *)
(* picks one input and stops; the invariants compare what the algorithms   *)
(* make of it with what it means.                                          *)
(***************************************************************************)
EXTENDS Search

CONSTANTS
  Distribution,    \* the tiles of everything below
  WordUploads,     \* lexicons to index
  LeaveUploads,    \* sets of leaves to index
  SearchedWords,   \* the lexicon that is searched
  SearchedLeaves,  \* the leaves that are searched
  PatternRows,     \* rows with a pattern
  WordTrees,       \* filter trees for words
  LeaveTrees       \* and for leaves

VARIABLE case

-----------------------------------------------------------------------------
(* What is let through                                                     *)

IsDistribution(d) == IsFiniteSet(DOMAIN d) /\ DOMAIN d \subseteq Nat

\* A distribution with its blank and its counts (upload.rs parse_distribution).
HasTiles(d) ==
  /\ IsDistribution(d) /\ BLANK \in DOMAIN d
  /\ \A t \in DOMAIN d : d[t].count \in Nat

\* Rows of tiles, none twice.
IsRaw(d, raw) ==
  /\ IsFiniteSet(raw) /\ Cardinality(raw) <= INFINITY
  /\ \A x \in raw : x.tiles \in Seq(DOMAIN d)
  /\ \A x, y \in raw : x.tiles = y.tiles => x = y

\* Words have a playability and hold no blank (upload.rs parse_lexicon).
IsWords(d, raw) ==
  /\ IsRaw(d, raw)
  /\ \A x \in raw : x.playability \in Int /\ \A i \in DOMAIN x.tiles : x.tiles[i] # BLANK

\* No leave is there twice, in whatever order its tiles are written
\* (upload.rs parse_leaves).
IsLeaves(d, raw) ==
  /\ IsFiniteSet(raw) /\ Cardinality(raw) <= INFINITY
  /\ \A x \in raw : x.tiles \in Seq(DOMAIN d)
  /\ \A x, y \in raw : Canonical(x.tiles) = Canonical(y.tiles) => x = y

Tokens(D) == [tok : {"tile"}, tile : D] \cup [tok : {"set"}, tiles : SUBSET D]
               \cup [tok : {"any"}] \cup [tok : {"star"}]
PatternKinds == {"anagram_match", "subanagram_match", "pattern_match"}

\* A pattern is made of the distribution's tiles (validate.rs pattern).
IsPattern(row, d) == row.kind \in PatternKinds /\ row.pattern \in Seq(Tokens(DOMAIN d))

\* Every row has the fields of its kind (search/mod.rs ConditionKind).
RowsAreMade(d) ==
  \A r \in Conditions :
    /\ r.kind \notin Limits => r.negated \in BOOLEAN
    /\ r.kind \in PatternKinds => IsPattern(r, d)
    /\ r.kind \in Limits => r.range.min \in Int /\ r.range.max \in Int

ASSUME AlgorithmsAssumption ==
  /\ HasTiles(Distribution)
  /\ \A raw \in WordUploads \cup {SearchedWords} : IsWords(Distribution, raw)
  /\ \A raw \in LeaveUploads \cup {SearchedLeaves} : IsLeaves(Distribution, raw)
  /\ \A row \in PatternRows : IsPattern(row, Distribution)
  /\ RowsAreMade(Distribution)
  /\ WordTrees \cup LeaveTrees \subseteq GroupsTo(Depth)

-----------------------------------------------------------------------------
Lexicon  == BuildLexicon(Distribution, SearchedWords)
LeaveSet == BuildLeaves(Lexicon, SearchedLeaves)

Unpicked == case = [on |-> "start"]

IndexWords   == \E raw \in WordUploads : case' = [on |-> "words", raw |-> raw]
IndexLeaves  == \E raw \in LeaveUploads : case' = [on |-> "leaves", raw |-> raw]
MatchWords   == \E row \in PatternRows : case' = [on |-> "word_row", row |-> row]
MatchLeaves  == \E row \in PatternRows : case' = [on |-> "leave_row", row |-> row]
SearchWords  == \E tree \in WordTrees, type \in {"anagram", "definition"} :
                  case' = [on |-> "word_tree", tree |-> tree, type |-> type]
SearchLeaves == \E tree \in LeaveTrees : case' = [on |-> "leave_tree", tree |-> tree]

Pick == /\ case.on = "start"
        /\ \/ IndexWords
           \/ IndexLeaves
           \/ MatchWords
           \/ MatchLeaves
           \/ SearchWords
           \/ SearchLeaves

Picks == Unpicked /\ [][Pick]_case

-----------------------------------------------------------------------------
\* Every index says of its entries what they are (index.rs build_lexicon and
\* build_leaves).
IndexesAreSound ==
  /\ case.on = "words" => IndexIsSound(BuildLexicon(Distribution, case.raw))
  /\ case.on = "leaves" => IndexIsSound(BuildLeaves(Lexicon, case.raw))

\* A pattern takes an entry exactly if some way of laying it out does
\* (pattern.rs: the counts and the two backtracking searches).
PatternsAreExact ==
  /\ case.on = "word_row" => PatternsTryEveryWay(Lexicon, case.row)
  /\ case.on = "leave_row" => PatternsTryEveryWay(LeaveSet, case.row)

\* A search finds what its tree means, starting from a shortcut or not
\* (engine.rs run).
SearchesAreExact ==
  /\ case.on = "word_tree" => SearchFindsItsMeaning(Lexicon, case.type, case.tree)
  /\ case.on = "leave_tree" => SearchFindsItsMeaning(LeaveSet, "leave_value", case.tree)
=============================================================================
