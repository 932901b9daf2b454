------------------------------ MODULE Lexicon ------------------------------
(***************************************************************************)
(* What the server derives when it builds the index of a lexicon or of a   *)
(* set of leaves (backend/src/catalog/index.rs, probability.rs, and the    *)
(* tile operations of tiles.rs): alphabetical order, alphagrams, hooks,    *)
(* the number of draws that spell a word, and the ranks within a length.   *)
(* Every search and every answer card reads these.                         *)
(*                                                                         *)
(* A tile is its index in the distribution, 0 the blank.  A distribution   *)
(* is a function from tiles to [count, value, vowel].  A word is stored as *)
(* [tiles, playability, definition], a leave as [tiles, value]; playability *)
(* and leave values are decimals that are only compared, so integers stand *)
(* for them.  Of a definition only its bracketed tags matter here: each is *)
(* [tag, next], the character after the tag being "]", " " or another.     *)
(* An upload holds no word and no leave twice, so neither does `raw`.      *)
(***************************************************************************)
EXTENDS Integers, Sequences, FiniteSets, SequencesExt, FiniteSetsExt, Functions

BLANK == 0

\* Alphabetical order: tile by tile, a prefix first.
Before(a, b) ==
  \E i \in 1 .. Len(b) :
     /\ i <= Len(a) + 1
     /\ \A j \in 1 .. i - 1 : a[j] = b[j]
     /\ i <= Len(a) => a[i] < b[i]

\* The elements of a set in a total order.
InSequence(S, Less(_, _)) ==
  [i \in 1 .. Cardinality(S) |->
     CHOOSE x \in S : Cardinality({y \in S : Less(y, x)}) = i - 1]

\* Tile order, which is an alphagram's and a leave's.
Canonical(tiles) ==
  LET order == InSequence(DOMAIN tiles, LAMBDA i, j : \/ tiles[i] < tiles[j]
                                                      \/ tiles[i] = tiles[j] /\ i < j)
  IN  [k \in DOMAIN order |-> tiles[order[k]]]

Occurrences(tiles, t) == Cardinality({i \in DOMAIN tiles : tiles[i] = t})
Counts(d, tiles)      == [t \in DOMAIN d |-> Occurrences(tiles, t)]

-----------------------------------------------------------------------------
(* Combinations                                                            *)

\* probability.rs choose: one factor at a time, dividing as it goes.  Its u128
\* holds what a word of 15 tiles asks of a bag of a thousand.
Binomial(n, k) ==
  IF k > n THEN 0
  ELSE LET m == Min({k, n - k})
           r[i \in 0 .. m] ==
             IF i = 0 THEN 1 ELSE (r[i - 1] * (n - (i - 1))) \div i
       IN  r[m]

Product(d, c) ==
  FoldFunction(LAMBDA x, y : x * y, 1,
               [t \in DOMAIN d |-> Binomial(d[t].count, c[t])])

Without(c, t, n) == [u \in DOMAIN c |-> IF u = t THEN c[u] - n ELSE c[u]]

\* Mutant: a second blank never stands for the same tile as the first.
TwoOfATile(c) == {}

\* The tiles a word holds at least twice.
Doubled(c) == {t \in DOMAIN c : c[t] >= 2}

\* The draws that spell the word with no, one or two of the bag's blanks.
WordCombinations(d, c) ==
  LET distinct == {t \in DOMAIN c : c[t] > 0}
      blanks   == d[BLANK].count
      one == MapThenSumSet(LAMBDA t : Product(d, Without(c, t, 1)), distinct)
      same == MapThenSumSet(LAMBDA t : Product(d, Without(c, t, 2)), Doubled(c))
      pairs == MapThenSumSet(
                 LAMBDA p : Product(d, Without(Without(c, p[1], 1), p[2], 1)),
                 {p \in distinct \X distinct : p[1] < p[2]})
  IN  Product(d, c) + Binomial(blanks, 1) * one
                    + Binomial(blanks, 2) * (same + pairs)

\* In a leave the blank is a tile like any other.
LeaveCombinations(d, c) == Product(d, c)

-----------------------------------------------------------------------------
(* Ranks                                                                   *)

\* The entries of one bucket by value, the highest first, ties alphabetical
\* by their keys.  Two runs of equal values never join.
Ranked(ids, value, Tie(_, _)) ==
  InSequence(ids, LAMBDA a, b : \/ value[a] > value[b]
                                \/ value[a] = value[b] /\ Tie(a, b))

\* The run of entries of equal value around position k.
RunAround(sorted, value, k) ==
  LET Equal(i, j) == \A x \in i .. j : value[sorted[x]] = value[sorted[k]]
  IN  [lo |-> Min({i \in 1 .. k : Equal(i, k)}),
       hi |-> Max({j \in k .. Len(sorted) : Equal(k, j)})]

\* The unique rank of every entry, and the lowest and highest rank shared by
\* the entries of its value.
Ranks(ids, value, Tie(_, _)) ==
  LET sorted == Ranked(ids, value, Tie)
  IN  [id \in ids |->
         LET k == CHOOSE i \in DOMAIN sorted : sorted[i] = id
             run == RunAround(sorted, value, k)
         IN  [rank |-> k, min |-> run.lo, max |-> run.hi]]

\* Ranks run within one length, so a function on all ids is put together from
\* the buckets.
RanksByLength(tiles, value, Tie(_, _)) ==
  LET bucket(id) == {i \in DOMAIN tiles : Len(tiles[i]) = Len(tiles[id])}
  IN  [id \in DOMAIN tiles |-> Ranks(bucket(id), value, Tie)[id]]

-----------------------------------------------------------------------------
(* The index of a lexicon                                                  *)

IdOf(keys, key) == CHOOSE i \in DOMAIN keys : keys[i] = key
HasKey(keys, key) == \E i \in DOMAIN keys : keys[i] = key

\* The tiles that make another word in front of, or behind, the word `w`.
FrontHooks(words, w) ==
  {words[i][1] : i \in {j \in DOMAIN words : /\ Len(words[j]) >= 2
                                             /\ Tail(words[j]) = w}}
BackHooks(words, w) ==
  {Last(words[i]) : i \in {j \in DOMAIN words : /\ Len(words[j]) >= 2
                                                /\ Front(words[j]) = w}}

HasFrontInnerHook(words, w) == Len(w) >= 2 /\ HasKey(words, Tail(w))
HasBackInnerHook(words, w)  == Len(w) >= 2 /\ HasKey(words, Front(w))

VowelsOf(d, tiles) ==
  Cardinality({i \in DOMAIN tiles : tiles[i] # BLANK /\ d[tiles[i]].vowel})
PointsOf(d, tiles) == MapThenSumSet(LAMBDA i : d[tiles[i]].value, DOMAIN tiles)

\* What an entry says of its own tiles.
OwnAttributes(d, tiles) ==
  LET c == Counts(d, tiles)
  IN  [tiles |-> tiles,
       counts |-> c,
       length |-> Len(tiles),
       num_vowels |-> VowelsOf(d, tiles),
       num_unique_letters |-> Cardinality({t \in DOMAIN c : c[t] > 0}),
       point_value |-> PointsOf(d, tiles)]

\* pos.rs: a tag names a part of speech if a space or the bracket follows it.
Parts == {"n", "v", "adj", "adv", "conj", "interj", "prep", "pron",
          "definite_article", "indefinite_article"}
PartsOfSpeech(definition) ==
  {x.tag : x \in {y \in definition : y.tag \in Parts /\ y.next \in {"]", " "}}}

BuildLexicon(d, raw) ==
  LET sorted == InSequence(raw, LAMBDA a, b : Before(a.tiles, b.tiles))
      words  == [i \in DOMAIN sorted |-> sorted[i].tiles]
      alphagrams == InSequence({Canonical(words[i]) : i \in DOMAIN words}, Before)
      alphagram  == [i \in DOMAIN words |-> IdOf(alphagrams, Canonical(words[i]))]
      alphagram_words == [a \in DOMAIN alphagrams |->
                            {i \in DOMAIN words : alphagram[i] = a}]
      combinations == [i \in DOMAIN words |-> WordCombinations(d, Counts(d, words[i]))]
      playability  == [i \in DOMAIN words |-> sorted[i].playability]
      Tie(a, b) == \/ alphagram[a] < alphagram[b]
                   \/ alphagram[a] = alphagram[b] /\ Before(words[a], words[b])
      prob == RanksByLength(words, combinations, Tie)
      play == RanksByLength(words, playability, Tie)
  IN  [kind |-> "words",
       distribution |-> d,
       alphagrams |-> alphagrams,
       alphagram_words |-> alphagram_words,
       entries |-> [i \in DOMAIN words |->
         [own |-> OwnAttributes(d, words[i]),
          alphagram |-> alphagram[i],
          num_anagrams |-> Cardinality(alphagram_words[alphagram[i]]),
          front_hooks |-> FrontHooks(words, words[i]),
          back_hooks |-> BackHooks(words, words[i]),
          has_front_inner_hook |-> HasFrontInnerHook(words, words[i]),
          has_back_inner_hook |-> HasBackInnerHook(words, words[i]),
          combinations |-> combinations[i],
          playability |-> playability[i],
          probability_order |-> prob[i],
          playability_order |-> play[i],
          pos |-> PartsOfSpeech(sorted[i].definition),
          definition |-> sorted[i].definition]]]

\* A leave's anagrams are words of the lexicon, none for one with a blank.
BuildLeaves(lexicon, raw) ==
  LET d == lexicon.distribution
      stored == {[tiles |-> Canonical(l.tiles), value |-> l.value] : l \in raw}
      sorted == InSequence(stored, LAMBDA a, b : Before(a.tiles, b.tiles))
      leaves == [i \in DOMAIN sorted |-> sorted[i].tiles]
      combinations == [i \in DOMAIN leaves |-> LeaveCombinations(d, Counts(d, leaves[i]))]
      prob == RanksByLength(leaves, combinations, LAMBDA a, b : a < b)
      anagrams(l) ==
        IF BLANK \in ToSet(l) \/ ~ HasKey(lexicon.alphagrams, l) THEN 0
        ELSE Cardinality(lexicon.alphagram_words[IdOf(lexicon.alphagrams, l)])
  IN  [kind |-> "leaves",
       distribution |-> d,
       entries |-> [i \in DOMAIN leaves |->
         [own |-> OwnAttributes(d, leaves[i]),
          num_anagrams |-> anagrams(leaves[i]),
          combinations |-> combinations[i],
          probability_order |-> prob[i],
          value |-> sorted[i].value]]]

EntryIds(index)    == DOMAIN index.entries
TilesOf(index, id) == index.entries[id].own.tiles

-----------------------------------------------------------------------------
(* What the attributes mean                                                *)

\* The physical tiles of the bag.
Bag(d) == UNION {{t} \X (1 .. d[t].count) : t \in DOMAIN d}

\* The draws from the bag that can be laid out as the word with at most two
\* blanks standing for what is missing.
Draws(d, tiles) ==
  {hand \in kSubset(Len(tiles), Bag(d)) :
     LET have(t) == Cardinality({p \in hand : p[1] = t})
     IN  /\ have(BLANK) <= 2
         /\ \A t \in DOMAIN d \ {BLANK} : have(t) <= Occurrences(tiles, t)}

\* The rank an entry has among those of its length, and those it shares.
RanksAre(index, id, order, value) ==
  LET others == {i \in EntryIds(index) : Len(TilesOf(index, i)) = Len(TilesOf(index, id))}
      above  == {i \in others : value[i] > value[id]}
      tied   == {i \in others : value[i] = value[id]}
      key(i) == IF index.kind = "words" THEN Canonical(TilesOf(index, i))
                ELSE TilesOf(index, i)
      earlier == {i \in tied : \/ Before(key(i), key(id))
                               \/ /\ key(i) = key(id)
                                  /\ Before(TilesOf(index, i), TilesOf(index, id))}
  IN  order[id] = [rank |-> Cardinality(above) + Cardinality(earlier) + 1,
                   min  |-> Cardinality(above) + 1,
                   max  |-> Cardinality(above) + Cardinality(tied)]

Attribute(index, Of(_)) == [i \in EntryIds(index) |-> Of(index.entries[i])]

\* The ranks of a length have no gap and no entry twice, and ties share the
\* ranks of all of them.
RanksAreSound(index) ==
  \A id \in EntryIds(index) :
    /\ RanksAre(index, id, Attribute(index, LAMBDA x : x.probability_order),
                Attribute(index, LAMBDA x : x.combinations))
    /\ index.kind = "words" =>
         RanksAre(index, id, Attribute(index, LAMBDA x : x.playability_order),
                  Attribute(index, LAMBDA x : x.playability))

\* The combinations of a word are the draws that spell it.
CombinationsAreDraws(index) ==
  \A id \in EntryIds(index) :
    index.entries[id].combinations = Cardinality(Draws(index.distribution, TilesOf(index, id)))

\* Two words are anagrams exactly if they are counted as such.
AnagramsAreCounted(index) ==
  \A id \in EntryIds(index) :
    index.entries[id].num_anagrams =
      Cardinality({i \in EntryIds(index) : \A t \in DOMAIN index.distribution :
                     Occurrences(TilesOf(index, i), t) = Occurrences(TilesOf(index, id), t)})

\* The hooks of a word are the inner hooks of others.
HooksAreInner(index) ==
  \A id \in EntryIds(index) :
    LET e == index.entries[id]
        w == TilesOf(index, id)
    IN  /\ e.has_front_inner_hook <=> \E i \in EntryIds(index) :
             w[1] \in index.entries[i].front_hooks /\ <<w[1]>> \o TilesOf(index, i) = w
        /\ e.has_back_inner_hook <=> \E i \in EntryIds(index) :
             Last(w) \in index.entries[i].back_hooks /\ TilesOf(index, i) \o <<Last(w)>> = w

IdsAreAlphabetical(index) ==
  \A id, i \in EntryIds(index) : i < id => Before(TilesOf(index, i), TilesOf(index, id))

\* What an index says of an entry is what its definition says.  (index.rs:
\* "there is one implementation of each".)
IndexIsSound(index) ==
  /\ RanksAreSound(index)
  /\ index.kind = "words" => /\ CombinationsAreDraws(index)
                             /\ AnagramsAreCounted(index)
                             /\ HooksAreInner(index)
  /\ IdsAreAlphabetical(index)
=============================================================================
