---------------------------- MODULE MCAlgorithms ----------------------------
(***************************************************************************)
(* The pure algorithms of the server on enumerated inputs: the index of    *)
(* every small lexicon and set of leaves, searches on one index of each    *)
(* kind (Algorithms), and beside them filter trees on their way to the     *)
(* database and back, and uploaded files.  A behaviour picks one input and *)
(* stops; the invariants compare what the algorithm makes of it with what  *)
(* it should mean.                                                         *)
(***************************************************************************)
EXTENDS Algorithms, Filters, Uploads

CONSTANTS
  BOUNDS,     \* the bounds of enumerated ranges
  ENTRIES     \* the entries of enumerated In Word List rows

SeqsUpTo(S, n) == UNION {[1 .. m -> S] : m \in 1 .. n}

-----------------------------------------------------------------------------
(* Lexicons and leaves over a distribution of four tiles                   *)

Tile(count, value, vowel) == [count |-> count, value |-> value, vowel |-> vowel]
MCDistribution ==
  (0 :> Tile(2, 0, FALSE)) @@ (1 :> Tile(2, 1, TRUE)) @@ (2 :> Tile(2, 3, FALSE))
    @@ (3 :> Tile(1, 4, FALSE))

MCWords == {<<1>>, <<1, 2>>, <<2, 1>>, <<1, 1>>, <<3, 1>>, <<1, 2, 3>>, <<2, 1, 1>>,
            <<1, 1, 2>>}
Entry(word, n) ==
  [tiles |-> word, playability |-> n,
   definition |-> IF Len(word) = 2 THEN {[tag |-> "n", next |-> "]"]}
                  ELSE {[tag |-> "v", next |-> " "], [tag |-> "adj", next |-> "x"]}]
MCWordUploads ==
  UNION {{{Entry(w, n[w]) : w \in W} : n \in [W -> 0 .. 1]} :
           W \in {V \in SUBSET MCWords : Cardinality(V) \in 1 .. 3}}

MCLeaves == {<<0>>, <<0, 2>>, <<1>>, <<1, 2>>, <<1, 1>>, <<1, 2, 3>>, <<3>>}
MCSearchedWords  == {Entry(w, w[1] % 2) : w \in MCWords}
MCSearchedLeaves == {[tiles |-> l, value |-> Len(l) - 2] : l \in MCLeaves}
MCLeaveUploads == {{[tiles |-> l, value |-> 0] : l \in L} :
                     L \in {M \in SUBSET MCLeaves : Cardinality(M) \in 1 .. 3}}

-----------------------------------------------------------------------------
(* Searches                                                                *)

Single(t) == [tok |-> "tile", tile |-> t]
AnyOf(T)  == [tok |-> "set", tiles |-> T]
MCTokens  == {Single(1), Single(2), AnyOf({1, 2}), AnyOf({1, 3}), [tok |-> "any"],
              [tok |-> "star"]}
MCPatternRows == [kind : {"anagram_match", "subanagram_match", "pattern_match"},
                  negated : {FALSE}, pattern : SeqsUpTo(MCTokens, 3)]

FromTo(a, b)  == [min |-> a, max |-> b]
Row(k, a, b) == [kind |-> k, negated |-> FALSE, range |-> FromTo(a, b)]
Order2(k, a, b, lax) == [kind |-> k, negated |-> FALSE, range |-> FromTo(a, b), lax |-> lax]
LitRow(p, neg) == [kind |-> "anagram_match", negated |-> neg, pattern |-> p]
PlainRows ==
  {LitRow(<<Single(2), Single(1)>>, FALSE), LitRow(<<Single(2), Single(1)>>, TRUE),
   LitRow(<<Single(3), Single(1)>>, FALSE), Row("length", 2, 3),
   [kind |-> "consists_of", negated |-> FALSE, range |-> FromTo(50, 100), tiles |-> {2, 3}],
   Order2("probability_order", 2, 3, FALSE), Order2("probability_order", 3, 3, TRUE)}
LimitRows ==
  {Order2("limit_by_probability_order", 2, b, lax) : b \in {2, 3}, lax \in BOOLEAN}
  \cup {Order2("limit_by_playability_order", 1, 2, TRUE)}
WordRows ==
  {[kind |-> "takes_suffix", negated |-> TRUE, tiles |-> <<1>>],
   [kind |-> "part_of_speech", negated |-> TRUE, part |-> "n"]}
LeaveRows == {[kind |-> "leave_value", negated |-> FALSE, min |-> {0}, max |-> {}]}
MCConditions == PlainRows \cup LimitRows \cup WordRows \cup LeaveRows

Groups(children) == [op : {"and", "or"}, children : children]
TreesOf(rows) ==
  LET some   == PlainRows \cup rows
      inner  == Groups({<<r>> : r \in LimitRows} \cup {<<r, l>> : r \in some, l \in LimitRows}
                       \cup {<<r, s>> : r \in rows, s \in some})
  IN  Groups({<<a>> : a \in some \cup LimitRows \cup inner}
             \cup {<<a, b>> : a \in some, b \in some \cup LimitRows \cup inner}
             \cup {<<a, b>> : a \in LimitRows, b \in LimitRows}
             \cup {<<l, b, r>> : l \in LimitRows, b \in {Row("length", 2, 3)},
                                 r \in LimitRows \cup inner})
MCWordTrees  == TreesOf(WordRows)
MCLeaveTrees == TreesOf(LeaveRows)

-----------------------------------------------------------------------------
(* Filter trees                                                            *)

MCTarget == [max_value |-> 2, max_num_anagrams |-> 3, max_order_rank |-> 4, count |-> 5]
Texts    == {"ok", "blank", "unknown", "syntax", "empty", "long"}
Types == Negatable \cup Ranges \cup Orders \cup {"consists_of", "leave_value"}
Givens(type) ==
  CASE type \in Patterns -> [pattern : Texts, negated : BOOLEAN]
    [] type \in Ranges -> [min : BOUNDS, max : BOUNDS, negated : BOOLEAN]
    [] type = "leave_value" ->
         [min : {NONE, -1, 1}, max : {NONE, -1, 1}, negated : {FALSE}]
    [] type \in Orders -> [min : BOUNDS, max : BOUNDS, lax : BOOLEAN, negated : BOOLEAN]
    [] type = "consists_of" -> [tiles : Texts, min : BOUNDS, max : BOUNDS, negated : {FALSE}]
    [] type \in Affixes \cup {"includes_letters"} -> [tiles : Texts, negated : BOOLEAN]
    [] type = "in_lexicon" -> [lexicon : {"ok", "empty", "missing"}, negated : BOOLEAN]
    [] type = "in_word_list" -> [entries : SeqsUpTo(ENTRIES, 2), negated : BOOLEAN]
    [] type = "part_of_speech" -> [part_of_speech : {"n"}, negated : BOOLEAN]
    [] type = "definition" -> [text : Texts, negated : BOOLEAN]
    [] type \in Hooks -> [negated : BOOLEAN]
\* One field less, one too many, one of another type.
Crooked == {[min |-> 1, negated |-> FALSE], [min |-> 1, max |-> 2, lax |-> TRUE, negated |-> FALSE],
            [min |-> 1, max |-> WRONG, negated |-> FALSE]}

Wrap(children) == [op |-> "and", children |-> children]
OneRow == {Wrap(<<[type |-> t, given |-> g]>>) :
             t \in {"length"}, g \in Crooked}
          \cup UNION {{Wrap(<<[type |-> t, given |-> g]>>) : g \in Givens(t)} : t \in Types}

Hook   == [type |-> "includes_letters", given |-> [tiles |-> "ok", negated |-> FALSE]]
Listed == [type |-> "in_word_list", given |-> [entries |-> <<"ok", "ok">>, negated |-> TRUE]]
Flat   == Groups({<<>>} \cup SeqsUpTo({Hook, Listed}, 2))
Below  == {<<>>} \cup SeqsUpTo({Hook, Listed, Wrap(<<Hook>>), Wrap(<<Listed>>),
                                Wrap(<<>>), Wrap(<<Hook, Listed>>)}, 3)
MCTrees == OneRow \cup Flat \cup Groups(Below)
             \cup UNION {{Wrap(<<Wrap(c)>>), Wrap(<<Wrap(c), Hook>>), Wrap(<<Hook, Wrap(c)>>),
                          Wrap(<<Hook, Wrap(<<Wrap(c)>>)>>)} : c \in Below}
             \cup {[op |-> "xor", children |-> <<Hook>>],
                   [op |-> "or", type |-> "length", children |-> <<>>]}

-----------------------------------------------------------------------------
(* Uploaded files                                                          *)

Letters == {<<"A">>, <<"a">>, <<"B">>, <<"A", "B">>, <<"A", "?">>, <<>>}
Line(letter, blank_letter, count) ==
  [fields |-> 5, letter |-> letter, blank_letter |-> blank_letter, count |-> count,
   value |-> 0, vowel |-> FALSE, wide |-> BAD]
Blank   == Line(BlankSign, BlankSign, 2)
Odd     == {[fields |-> 0], [fields |-> -1], [Blank EXCEPT !.fields = 4]}
MCLines == {Line(a, b, 1) : a, b \in Letters} \cup Odd
             \cup {[Line(<<"A">>, <<"a">>, 1) EXCEPT !.count = BAD],
                   [Line(<<"A">>, <<"a">>, 1) EXCEPT !.fields = 7]}
MCDistributions ==
  {<<Blank>> \o f : f \in SeqsUpTo(MCLines, 2)}
  \cup {<<x, Blank, y>> : x \in Odd, y \in MCLines} \cup {<<x>> : x \in MCLines}
  \cup {<<Blank, Line(<<"A">>, <<"a">>, 1), x, Line(<<"A">>, <<"b">>, 1)>> : x \in MCLines}
MCSpelled == SeqsUpTo(0 .. 3, 3)

MCTiles == <<Blank, Line(<<"A">>, <<"a">>, 1), Line(<<"B">>, <<"b">>, 2),
             Line(<<"A", "B">>, <<"a", "b">>, 1)>>
Spellings == {<<"A">>, <<"A", "B">>, <<"B", "A">>, <<"[", "A", "B", "]">>, <<"?">>,
              <<"A", "A">>, <<"A", "B", "A", "B">>, <<"[", "A", "]">>, <<"[", "A", "B">>,
              <<"B", "[", "A", "B", "]">>, <<>>}
Record(n, word, value) ==
  [fields |-> n, word |-> word, value |-> value, playability |-> value, definition |-> "d"]
FilesOf(n) ==
  SeqsUpTo({Record(n, w, 0) : w \in Spellings}
           \cup {Record(n, <<"A">>, BAD), Record(n, <<"A">>, 2), Record(5, <<"A">>, 0),
                 [fields |-> 0], [fields |-> -1]}, 3)

-----------------------------------------------------------------------------
Store   == \E tree \in MCTrees, q \in QuizTypes, target \in {MCTarget, NONE} :
             case' = [on |-> "tree", tree |-> tree, q |-> q, target |-> target]
ReadDistribution == \E file \in MCDistributions : case' = [on |-> "distribution", file |-> file]
ReadLexicon == \E file \in FilesOf(3) : case' = [on |-> "file", file |-> file]
ReadLeaves  == \E file \in FilesOf(2) : case' = [on |-> "file", file |-> file]

Next == \/ Pick
        \/ /\ case.on = "start"
           /\ \/ Store
              \/ ReadDistribution
              \/ ReadLexicon
              \/ ReadLeaves
Spec == Unpicked /\ [][Next]_case

-----------------------------------------------------------------------------
\* What was accepted is read back as it was sent: a stored tree (store.rs
\* insert_spec, load_spec), and the tiles of a file, whose words and leaves are
\* each there once (upload.rs, tiles.rs).
StoredReadsBack ==
  /\ case.on = "tree" => SpecsReadBack(case.tree, case.q, case.target)
  /\ case.on = "distribution" => NotationReadsBack(case.file, MCSpelled)
  /\ case.on = "file" => RowsAreDistinct(MCTiles, case.file)
=============================================================================
