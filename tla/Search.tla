------------------------------- MODULE Search -------------------------------
(***************************************************************************)
(* The search engine (backend/src/search/engine.rs, and the matchers of    *)
(* pattern.rs): which entries of an index a tree of filter rows finds.     *)
(*                                                                         *)
(* A group is [op, children], a row is [kind, negated, ...] with the       *)
(* parameters of its kind; an open bound of a leave value is the empty     *)
(* set.  Rows are tested one candidate at a time; a group's limit rows     *)
(* rank what its other children found.  The engine keeps ids in ascending  *)
(* sequences and merges them; sets stand for those here.  It tests the     *)
(* cheap rows first, which changes nothing it finds, and gives up when its *)
(* deadline passes, which is left out.                                     *)
(***************************************************************************)
EXTENDS Lexicon

CONSTANTS
  Conditions,  \* the filter rows there are
  Depth        \* the levels of groups a tree may have (validate.rs MAX_DEPTH)

ASSUME SearchAssumption ==
  /\ Depth \in Nat
  /\ \A row \in Conditions : "op" \notin DOMAIN row

Inside(range, n) == range.min <= n /\ n <= range.max

-----------------------------------------------------------------------------
(* Patterns: sequences of tokens [tok |-> "tile", tile], "any", "star" or   *)
(* [tok |-> "set", tiles].                                                 *)

Takes(d, token, t) ==
  CASE token.tok = "tile" -> token.tile = t
    [] token.tok = "set"  -> t \in token.tiles
    [] token.tok = "any"  -> TRUE

At(pattern, toks) == {i \in DOMAIN pattern : pattern[i].tok \in toks}

\* The tiles a wildcard token stands for.
TilesFor(d, token) == IF token.tok = "set" THEN token.tiles ELSE DOMAIN d

\* An anagram pattern as counts of its tiles and slots for its wildcards, the
\* most constrained slot first.
PatternBag(d, pattern) ==
  LET tiles == At(pattern, {"tile"})
      size(i) == Cardinality(TilesFor(d, pattern[i]))
      order == InSequence(At(pattern, {"set", "any"}),
                          LAMBDA i, j : \/ size(i) < size(j)
                                        \/ size(i) = size(j) /\ i < j)
  IN  [literals |-> [t \in DOMAIN d |-> Cardinality({i \in tiles : pattern[i].tile = t})],
       total |-> Cardinality(tiles),
       slots |-> [k \in DOMAIN order |-> TilesFor(d, pattern[order[k]])],
       star  |-> At(pattern, {"star"}) # {}]

\* Mutant: each slot takes the first tile it accepts and never another.
FillsGreedily(slots, rem) ==
  LET after[k \in 0 .. Len(slots)] ==
        IF k = 0 THEN {rem}
        ELSE UNION {LET fit == {t \in DOMAIN r : r[t] > 0 /\ t \in slots[k]}
                    IN  IF fit = {} THEN {} ELSE {Without(r, Min(fit), 1)} :
                      r \in after[k - 1]}
  IN  after[Len(slots)] # {}

\* Every slot takes a remaining tile of its own.  The backtracking search tries
\* the tiles of a slot in turn: these are the remainders it may leave.
Fills(slots, rem) ==
  LET fit(r, k) == {t \in DOMAIN r : r[t] > 0 /\ t \in slots[k]}
      after[k \in 0 .. Len(slots)] ==
        IF k = 0 THEN {rem}
        ELSE UNION {{Without(r, t, 1) : t \in fit(r, k)} : r \in after[k - 1]}
  IN  after[Len(slots)] # {}

\* Every leftover tile goes into an accepting slot of its own: the sets of slots
\* the search may have used.
Placed(left, slots) ==
  LET used[k \in 0 .. Len(left)] ==
        IF k = 0 THEN {{}}
        ELSE UNION {{u \cup {s} : s \in {x \in DOMAIN slots \ u : left[k] \in slots[x]}} :
                      u \in used[k - 1]}
  IN  used[Len(left)] # {}

\* Anagram Match: exactly the pattern's tiles, with a star any others too.
Anagram(bag, counts, len) ==
  LET need == bag.total + Len(bag.slots)
      rem  == [t \in DOMAIN counts |-> counts[t] - bag.literals[t]]
  IN  /\ IF bag.star THEN len >= need ELSE len = need
      /\ \A t \in DOMAIN counts : rem[t] >= 0
      /\ Fills(bag.slots, rem)

\* The tiles beyond the pattern's own, in tile order.
Leftover(bag, counts) ==
  LET copies == UNION {{t} \X (1 .. counts[t] - bag.literals[t]) : t \in DOMAIN counts}
      order  == InSequence(copies, LAMBDA x, y : \/ x[1] < y[1]
                                                 \/ x[1] = y[1] /\ x[2] < y[2])
  IN  [k \in DOMAIN order |-> order[k][1]]

\* Subanagram Match: every tile can be taken from the pattern.
Subanagram(bag, counts, len) ==
  LET left == Leftover(bag, counts)
  IN  \/ bag.star
      \/ /\ len <= bag.total + Len(bag.slots)
         /\ Len(left) <= Len(bag.slots)
         /\ Placed(left, bag.slots)

\* Pattern Match: after each token, the numbers of tiles it may have reached.
InOrder(d, pattern, tiles) ==
  LET n == Len(tiles)
      reach[k \in 0 .. Len(pattern)] ==
        IF k = 0 THEN {0}
        ELSE IF pattern[k].tok = "star" THEN {j \in 0 .. n : \E i \in reach[k - 1] : i <= j}
        ELSE {j \in 1 .. n : j - 1 \in reach[k - 1] /\ Takes(d, pattern[k], tiles[j])}
  IN  n \in reach[Len(pattern)]

-----------------------------------------------------------------------------
(* Rows                                                                    *)

Lookup(index, tiles) == \E id \in EntryIds(index) : TilesOf(index, id) = tiles

\* An order filter reads the unique rank, or the ranks of all that tie.
InRanks(row, r) ==
  IF row.lax THEN r.max >= row.range.min /\ r.min <= row.range.max
  ELSE Inside(row.range, r.rank)

Percent(tiles, own) ==
  (100 * Cardinality({i \in DOMAIN own.tiles : own.tiles[i] \in tiles})) \div own.length

Hit(index, row, id) ==
  LET e == index.entries[id]
      d == index.distribution
  IN  CASE row.kind = "anagram_match" ->
             Anagram(PatternBag(d, row.pattern), e.own.counts, e.own.length)
        [] row.kind = "subanagram_match" ->
             Subanagram(PatternBag(d, row.pattern), e.own.counts, e.own.length)
        [] row.kind = "pattern_match" -> InOrder(d, row.pattern, e.own.tiles)
        [] row.kind \in {"length", "num_vowels", "num_unique_letters", "point_value"} ->
             Inside(row.range, e.own[row.kind])
        [] row.kind = "num_anagrams" -> Inside(row.range, e.num_anagrams)
        [] row.kind = "includes_letters" ->
             \A t \in DOMAIN d : e.own.counts[t] >= Occurrences(row.tiles, t)
        [] row.kind = "consists_of" -> Inside(row.range, Percent(row.tiles, e.own))
        [] row.kind = "in_word_list" -> e.own.tiles \in row.entries
        [] row.kind = "in_lexicon" -> Lookup(row.lexicon, e.own.tiles)
        [] row.kind = "takes_prefix" -> Lookup(index, row.tiles \o e.own.tiles)
        [] row.kind = "takes_suffix" -> Lookup(index, e.own.tiles \o row.tiles)
        [] row.kind = "front_inner_hook" -> e.has_front_inner_hook
        [] row.kind = "back_inner_hook" -> e.has_back_inner_hook
        [] row.kind = "part_of_speech" -> row.part \in e.pos
        [] row.kind = "definition" -> \E x \in e.definition : x.tag = row.text
        [] row.kind = "probability_order" -> InRanks(row, e.probability_order)
        [] row.kind = "playability_order" -> InRanks(row, e.playability_order)
        [] row.kind = "leave_value" ->
             /\ \A b \in row.min : e.value >= b
             /\ \A b \in row.max : e.value <= b

Test(index, row, id) == Hit(index, row, id) # row.negated

-----------------------------------------------------------------------------
(* Limits                                                                  *)

Limits == {"limit_by_probability_order", "limit_by_playability_order"}
INFINITY == 1000000       \* stands for u64::MAX

\* A leave has no playability: both limits rank leaves by combinations.
ValueOf(index, kind) ==
  [id \in EntryIds(index) |->
     IF index.kind = "words" /\ kind = "limit_by_playability_order"
     THEN index.entries[id].playability ELSE index.entries[id].combinations]

TieOf(index, a, b) ==
  IF index.kind = "words"
  THEN \/ index.entries[a].alphagram < index.entries[b].alphagram
       \/ /\ index.entries[a].alphagram = index.entries[b].alphagram
          /\ Before(TilesOf(index, a), TilesOf(index, b))
  ELSE Before(TilesOf(index, a), TilesOf(index, b))

\* The intersection of the ranges of rows, 1 to infinity when there is none.
Reduced(rows) ==
  [min |-> Max({1} \cup {r.range.min : r \in rows}),
   max |-> Min({INFINITY} \cup {r.range.max : r \in rows})]

\* Mutant: lax widening only stops at the end of the ranking.
WidensPastStrict(ranked, value, strict, s, e) ==
  LET Same(i) == value[ranked[i]] = value[ranked[i + 1]]
  IN  [s |-> Min({i \in 1 .. s : \A j \in i .. s - 1 : Same(j)}),
       e |-> Max({i \in e .. Len(ranked) : \A j \in e .. i - 1 : Same(j)})]

\* Widening from s down and from e up over neighbours of equal value, one
\* position at a time and never past the strict bounds.
Widened(ranked, value, strict, s, e) ==
  LET Same(i) == value[ranked[i]] = value[ranked[i + 1]]
      down(i) == \A j \in i .. s - 1 : j >= strict.min /\ Same(j)
      up(i)   == \A j \in e .. i - 1 : j + 1 <= strict.max /\ Same(j)
  IN  [s |-> Min({i \in 1 .. s : down(i)}),
       e |-> Max({i \in e .. Len(ranked) : up(i)})]

\* What the limit rows of one kind keep of a group's result.
Slice(index, result, kind, rows) ==
  LET ranked == Ranked(result, ValueOf(index, kind), LAMBDA a, b : TieOf(index, a, b))
      laxly  == {r \in rows : r.lax}
      strict == Reduced(rows \ laxly)
      lax    == Reduced(laxly)
      start  == Max({strict.min, lax.min})
      end    == Min({strict.max, lax.max})
      n      == Len(ranked)
      w      == IF laxly = {} THEN [s |-> start, e |-> Min({end, n})]
                ELSE Widened(ranked, ValueOf(index, kind), strict, start, Min({end, n}))
  IN  IF start <= end /\ start <= n /\ start >= 1
      THEN {ranked[i] : i \in w.s .. w.e} ELSE {}

\* Both kinds rank the same result, and what both keep is kept.
ApplyLimits(index, rows, result) ==
  {id \in result :
     \A kind \in {r.kind : r \in rows} :
        id \in Slice(index, result, kind, {r \in rows : r.kind = kind})}

-----------------------------------------------------------------------------
(* Groups                                                                  *)

IsGroup(node) == "op" \in DOMAIN node
GroupsIn(g)   == {c \in ToSet(g.children) : IsGroup(c)}
RowsIn(g)     == ToSet(g.children) \ GroupsIn(g)
LimitsIn(g)   == {r \in RowsIn(g) : r.kind \in Limits}
Predicates(g) == RowsIn(g) \ LimitsIn(g)

\* The groups of at most `depth` levels, each of at least one child
\* (validate.rs group).
GroupsTo(depth) ==
  LET to[n \in 0 .. depth] ==
        IF n = 0 THEN {}
        ELSE [op : {"and", "or"}, children : Seq(Conditions \cup to[n - 1]) \ {<<>>}]
  IN  to[depth]

\* A child group of an AND group gets what that group's rows accept, one of an
\* OR group its parent's candidates; neither is narrowed by siblings or by
\* limits.
EvalGroup(index, group, candidates) ==
  LET eval[n \in 0 .. Depth] ==
        [g \in GroupsTo(n) |-> [from \in SUBSET EntryIds(index) |->
           LET rows    == Predicates(g)
               groups  == GroupsIn(g)
               passing == {id \in from : \A r \in rows : Test(index, r, id)}
               result ==
                 IF g.op = "and"
                 THEN {id \in passing : \A c \in groups : id \in eval[n - 1][c][passing]}
                 ELSE IF rows \cup groups = {} THEN from
                 ELSE {id \in from : \/ \E r \in rows : Test(index, r, id)
                                     \/ \E c \in groups : id \in eval[n - 1][c][from]}
           IN  ApplyLimits(index, LimitsIn(g), result)]]
  IN  eval[Depth][group][candidates]

\* The rows a top AND group may start from: literal anagrams without Not.
Literals(g) ==
  {r \in Predicates(g) : /\ r.kind = "anagram_match"
                         /\ ~ r.negated
                         /\ \A i \in DOMAIN r.pattern : r.pattern[i].tok = "tile"}

\* The last of the literal rows, as the loop leaves it.
LastLiteral(g) ==
  LET at == {i \in DOMAIN g.children : g.children[i] \in Literals(g)}
      p  == g.children[Max(at)].pattern
  IN  Canonical([i \in DOMAIN p |-> p[i].tile])

\* What evaluation starts from: all entries, or those a top AND group's Length
\* rows and one literal anagram leave.  A word is looked up by its alphagram,
\* a leave by itself.
Shortcut(index, root) ==
  LET lengths == {r \in Predicates(root) : r.kind = "length" /\ ~ r.negated}
      inLength(id) == \A r \in lengths : Inside(r.range, index.entries[id].own.length)
      key(id) == IF index.kind = "words"
                 THEN index.alphagrams[index.entries[id].alphagram]
                 ELSE TilesOf(index, id)
  IN  IF root.op # "and" THEN EntryIds(index)
      ELSE {id \in EntryIds(index) :
              /\ inLength(id)
              /\ Literals(root) # {} => key(id) = LastLiteral(root)}

RunIds(index, root) == EvalGroup(index, root, Shortcut(index, root))

\* The questions: alphagrams, words or leaves, each once and in order.
Questions(index, type, ids) ==
  IF type = "anagram"
  THEN LET found == InSequence({index.entries[id].alphagram : id \in ids}, <)
       IN  [i \in DOMAIN found |-> index.alphagrams[found[i]]]
  ELSE LET found == InSequence(ids, <)
       IN  [i \in DOMAIN found |-> TilesOf(index, found[i])]

-----------------------------------------------------------------------------
(* What a search means (PLAN.md: Groups, Filter reference)                 *)

\* A pattern takes a word if its tokens can be laid against the tiles: in any
\* order for an anagram, each tile from a token of its own for a subanagram,
\* and from left to right, a star over any stretch, for a pattern match.
LaysAgainst(d, row, tiles) ==
  LET p     == row.pattern
      plain == At(p, {"tile", "set", "any"})
      star  == At(p, {"star"}) # {}
      n     == Len(tiles)
  IN  CASE row.kind = "anagram_match" ->
             /\ star \/ Cardinality(plain) = n
             /\ \E f \in Injection(plain, DOMAIN tiles) :
                  \A i \in plain : Takes(d, p[i], tiles[f[i]])
        [] row.kind = "subanagram_match" ->
             \/ star
             \/ \E f \in Injection(DOMAIN tiles, plain) :
                  \A i \in DOMAIN tiles : Takes(d, p[f[i]], tiles[i])
        [] row.kind = "pattern_match" ->
             \E cut \in [0 .. Len(p) -> 0 .. n] :
               /\ cut[0] = 0
               /\ cut[Len(p)] = n
               /\ \A i \in DOMAIN p :
                    IF p[i].tok = "star" THEN cut[i - 1] <= cut[i]
                    ELSE cut[i] = cut[i - 1] + 1 /\ Takes(d, p[i], tiles[cut[i]])

\* The matchers take a word exactly if some assignment of its tiles to the
\* pattern's tokens does (pattern.rs: the counts, the slots most constrained
\* first, and the two backtracking searches are only a faster way to find one).
PatternsTryEveryWay(index, row) ==
  \A id \in EntryIds(index) :
     Hit(index, row, id) <=> LaysAgainst(index.distribution, row, TilesOf(index, id))

\* What the limits of a group keep: the ranks that all strict rows allow, of
\* them those that all rows allow, and with a lax row also those that tie with
\* one of these.
Kept(index, result, rows) ==
  LET kinds == {r.kind : r \in rows}
      rank(kind, id) ==
        LET value == ValueOf(index, kind)
        IN  1 + Cardinality({o \in result : \/ value[o] > value[id]
                                            \/ value[o] = value[id] /\ TieOf(index, o, id)})
      of(kind) == {r \in rows : r.kind = kind}
      core(kind) == {id \in result : \A r \in of(kind) : Inside(r.range, rank(kind, id))}
      keeps(kind, id) ==
        \/ id \in core(kind)
        \/ /\ \E r \in of(kind) : r.lax
           /\ \A r \in of(kind) : ~ r.lax => Inside(r.range, rank(kind, id))
           /\ \E o \in core(kind) : ValueOf(index, kind)[o] = ValueOf(index, kind)[id]
  IN  {id \in result : \A kind \in kinds : keeps(kind, id)}

Means(index, group) ==
  LET means[n \in 0 .. Depth] ==
        [g \in GroupsTo(n) |-> [from \in SUBSET EntryIds(index) |->
           LET rows  == Predicates(g)
               inner == IF g.op = "and"
                        THEN {id \in from : \A r \in rows : Test(index, r, id)} ELSE from
               parts == {{id \in from : Test(index, r, id)} : r \in rows}
                          \cup {means[n - 1][c][inner] : c \in GroupsIn(g)}
               all   == IF parts = {} THEN from
                        ELSE IF g.op = "and" THEN {id \in from : \A P \in parts : id \in P}
                        ELSE {id \in from : \E P \in parts : id \in P}
           IN  Kept(index, all, LimitsIn(g))]]
  IN  means[Depth][group][EntryIds(index)]

\* With no limit anywhere a tree is a formula, and an entry is found if it
\* satisfies it: the candidates a nested group starts from make no difference.
Satisfies(index, group, id) ==
  LET holds[n \in 0 .. Depth] ==
        [c \in Conditions \cup GroupsTo(n) |->
           IF ~ IsGroup(c) THEN Test(index, c, id)
           ELSE IF c.op = "and" THEN \A x \in ToSet(c.children) : holds[n - 1][x]
           ELSE \E x \in ToSet(c.children) : holds[n - 1][x]]
  IN  holds[Depth][group]

HasLimits(group) ==
  LET has[n \in 0 .. Depth] ==
        [c \in Conditions \cup GroupsTo(n) |->
           IF IsGroup(c) THEN \E x \in ToSet(c.children) : has[n - 1][x]
           ELSE c.kind \in Limits]
  IN  has[Depth][group]

\* A search finds what its tree means, whatever the shortcut, the nesting and
\* the order of its rows, and asks each question once and in alphabetical order
\* (engine.rs run_ids, shortcut_candidates, eval_group, apply_limits, questions).
SearchFindsItsMeaning(index, type, root) ==
  LET ids  == RunIds(index, root)
      keys == Questions(index, type, ids)
  IN  /\ ids = Means(index, root)
      /\ ~ HasLimits(root) => ids = {id \in EntryIds(index) : Satisfies(index, root, id)}
      /\ \A i, j \in DOMAIN keys : i < j => Before(keys[i], keys[j])
      /\ \A id \in ids : \E i \in DOMAIN keys :
           Canonical(keys[i]) = Canonical(TilesOf(index, id))
=============================================================================
