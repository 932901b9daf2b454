------------------------------ MODULE Filters ------------------------------
(***************************************************************************)
(* A filter tree from the request to its rows in the database and back     *)
(* (backend/src/search/wire.rs, validate.rs and store.rs, and the CHECKs   *)
(* of migrations/0001_initial.sql on the tables).                          *)
(*                                                                         *)
(* A group is [op, children], a row is [type, given]: `given` maps the     *)
(* field names present to their values, "negated" among them.  Texts are   *)
(* what validation tells apart:                                            *)
(*   "ok"       canonical, tiles of the distribution                       *)
(*   "blank"    holds a blank          "unknown"  holds an unknown tile    *)
(*   "syntax"   not in canonical form  "empty", "long"                     *)
(*   "unsorted" a leave out of tile order (entries only)                   *)
(* A value of the wrong JSON type is WRONG; NONE is Rust's None.           *)
(***************************************************************************)
EXTENDS Integers, Sequences, FiniteSets, SequencesExt, FiniteSetsExt, Functions

CONSTANTS
  MAX_ROWS, MAX_GROUPS, MAX_DEPTH,   \* validate.rs: 100, 100 and 4
  MAX_WORD_LIST_ENTRIES,             \* of a whole tree
  NONE, WRONG,
  COLUMN_MAX,    \* what the CHECKs on ids and positions allow: 99
  INT_BITS       \* the width of a stored bound: an i32

ASSUME FiltersAssumption ==
  /\ {MAX_ROWS, MAX_GROUPS, MAX_DEPTH, MAX_WORD_LIST_ENTRIES} \subseteq Nat \ {0}
  /\ COLUMN_MAX = MAX_GROUPS - 1
  /\ COLUMN_MAX = MAX_ROWS - 1
  /\ INT_BITS \in Nat \ {0}

QuizTypes == {"anagram", "definition", "leave_value"}
IsLeave(q) == q = "leave_value"

Patterns == {"anagram_match", "pattern_match", "subanagram_match"}
Ranges   == {"length", "num_vowels", "num_unique_letters", "point_value", "num_anagrams"}
LimitTypes   == {"limit_by_probability_order", "limit_by_playability_order"}
Orders   == {"probability_order", "playability_order"} \cup LimitTypes
Affixes  == {"takes_prefix", "takes_suffix"}
Hooks    == {"front_inner_hook", "back_inner_hook"}

Negatable == Patterns \cup Affixes \cup Hooks \cup
             {"in_lexicon", "in_word_list", "includes_letters", "part_of_speech",
              "definition"}

AppliesTo(type, q) ==
  IF IsLeave(q)
  THEN type \notin Affixes \cup Hooks \cup
         {"in_lexicon", "playability_order", "limit_by_playability_order",
          "part_of_speech", "definition"}
  ELSE type # "leave_value"

Fields(type) ==
  CASE type \in Patterns -> {"pattern"}
    [] type \in Ranges \cup {"leave_value"} -> {"min", "max"}
    [] type \in Orders -> {"min", "max", "lax"}
    [] type = "consists_of" -> {"tiles", "min", "max"}
    [] type \in Affixes \cup {"includes_letters"} -> {"tiles"}
    [] type = "in_lexicon" -> {"lexicon"}
    [] type = "in_word_list" -> {"entries"}
    [] type = "part_of_speech" -> {"part_of_speech"}
    [] type = "definition" -> {"text"}
    [] type \in Hooks -> {}

IsGroupNode(node) == "op" \in DOMAIN node
IsRowNode(node)   == "type" \in DOMAIN node

\* Every node of a tree with its path from the top, in the order the
\* validator and the store walk it.
RECURSIVE Walk(_, _)
Walk(node, path) ==
  <<[node |-> node, path |-> path]>> \o
  (IF ~ IsGroupNode(node) THEN <<>>
   ELSE FlattenSeq([i \in DOMAIN node.children |->
                      Walk(node.children[i], Append(path, i - 1))]))

GroupsOf(tree) == SelectSeq(Walk(tree, <<>>), LAMBDA x : IsGroupNode(x.node))
RowsOf(tree)   == SelectSeq(Walk(tree, <<>>), LAMBDA x : ~ IsGroupNode(x.node))

-----------------------------------------------------------------------------
(* wire.rs                                                                 *)

\* Only the fields a type uses, and all of them.
ParseRow(row) ==
  LET wanted == Fields(row.type) \cup {"negated"}
      given  == DOMAIN row.given
  IN  (given \ wanted) \cup (wanted \ given)
        \cup {f \in given \cap wanted : row.given[f] = WRONG}

\* A child has `op` or `type`, never both; the errors of a tree by path.
ParseTree(tree) ==
  UNION {LET x == Walk(tree, <<>>)[i]
         IN  {x.path} \X
             (IF IsGroupNode(x.node) = IsRowNode(x.node) THEN {"type"}
              ELSE IF IsRowNode(x.node) THEN ParseRow(x.node)
              ELSE IF x.node.op \in {"and", "or"} THEN {} ELSE {"op"})
         : i \in DOMAIN Walk(tree, <<>>)}

-----------------------------------------------------------------------------
(* validate.rs.  `target` is NONE for a saved search, else what the        *)
(* lexicon or its leaves allow: [max_value, max_num_anagrams,              *)
(* max_order_rank, count].                                                 *)

Floor(type) == IF type \in Orders \cup {"length"} THEN 1 ELSE 0

\* The ceiling of a range, NONE where only a target has one.
Ceiling(type, q, target) ==
  LET tiles == IF IsLeave(q) THEN 6 ELSE 15
  IN  CASE type \in {"length", "num_vowels", "num_unique_letters"} -> tiles
        [] type = "consists_of" -> 100
        [] target = NONE -> NONE
        [] type = "point_value" -> tiles * target.max_value
        [] type = "num_anagrams" -> target.max_num_anagrams
        [] type \in LimitTypes -> target.count
        [] type \in Orders -> target.max_order_rank

U32_MAX == 2 ^ INT_BITS - 1

RangeErrors(type, min, max, q, target) ==
  LET floor == Floor(type)
      ceil  == Ceiling(type, q, target)
      outside == {f \in {"min", "max"} :
                    LET v == IF f = "min" THEN min ELSE max
                    IN  v < floor \/ (ceil # NONE /\ v > ceil)}
                 \cup (IF min > max THEN {"min"} ELSE {})
  IN  IF outside # {} THEN outside
      ELSE IF ceil # NONE /\ min = floor /\ max = ceil THEN {"min"}
      ELSE IF max > U32_MAX THEN {"max"}
      ELSE {}

\* Patterns and tiles: syntax always, tiles only against a target.
TextError(text, q, target) ==
  \/ text \in {"long", "syntax", "empty"}
  \/ text = "blank" /\ ~ IsLeave(q)
  \/ text = "unknown" /\ target # NONE

\* An entry a target does not know is ignored; one for a saved search is
\* only looked at for its syntax.
EntryError(entry, q, target) ==
  \/ entry = "long"
  \/ entry = "blank" /\ ~ IsLeave(q)
  \/ target = NONE /\ entry \in {"empty", "syntax"}
  \/ target # NONE /\ IsLeave(q) /\ entry = "unsorted"

FieldErrors(row, q, target) ==
  LET g == row.given
      t == row.type
  IN  CASE t \in Patterns ->
             IF TextError(g.pattern, q, target) THEN {"pattern"} ELSE {}
        [] t \in Ranges \cup Orders -> RangeErrors(t, g.min, g.max, q, target)
        [] t = "consists_of" ->
             (IF TextError(g.tiles, q, target) THEN {"tiles"} ELSE {})
               \cup RangeErrors(t, g.min, g.max, q, target)
        [] t \in Affixes \cup {"includes_letters"} ->
             IF TextError(g.tiles, q, target) THEN {"tiles"} ELSE {}
        [] t = "in_lexicon" ->
             IF \/ g.lexicon \in {"empty", "long"}
                \/ target # NONE /\ g.lexicon \in {"missing", "foreign"}
             THEN {"lexicon"} ELSE {}
        [] t = "in_word_list" ->
             IF \E i \in DOMAIN g.entries : EntryError(g.entries[i], q, target)
             THEN {"entries"} ELSE {}
        [] t = "definition" -> IF g.text \in {"empty", "long"} THEN {"text"} ELSE {}
        [] t = "leave_value" ->
             IF \/ g.min = NONE /\ g.max = NONE
                \/ g.min # NONE /\ g.max # NONE /\ g.min > g.max
             THEN {"min"} ELSE {}
        [] OTHER -> {}

RowErrors(row, q, target) ==
  IF ~ AppliesTo(row.type, q) THEN {"type"}
  ELSE FieldErrors(row, q, target)
         \cup (IF row.given.negated /\ row.type \notin Negatable THEN {"negated"} ELSE {})

\* The row that takes the tree's entries past their limit.
TooManyEntries(tree) ==
  LET rows == RowsOf(tree)
      n(i) == IF rows[i].node.type = "in_word_list"
              THEN Len(rows[i].node.given.entries) ELSE 0
      total(i) == MapThenSumSet(n, 1 .. i)
  IN  {<<rows[i].path, "entries">> :
         i \in {j \in DOMAIN rows : /\ total(j - 1) <= MAX_WORD_LIST_ENTRIES
                                    /\ total(j) > MAX_WORD_LIST_ENTRIES}}

\* Mutant: only the rows are counted.
NoGroupLimit(tree) == {}

TooManyGroups(tree) ==
  {<<GroupsOf(tree)[i].path, "op">> : i \in DOMAIN GroupsOf(tree) \cap {MAX_GROUPS + 1}}
TooManyRows(tree) ==
  {<<RowsOf(tree)[i].path, "type">> : i \in DOMAIN RowsOf(tree) \cap {MAX_ROWS + 1}}

Validate(tree, q, target) ==
  TooManyGroups(tree) \cup TooManyRows(tree) \cup TooManyEntries(tree)
  \cup UNION {LET x == GroupsOf(tree)[i]
              IN  (IF Len(x.path) + 1 > MAX_DEPTH THEN {<<x.path, "op">>} ELSE {})
                    \cup (IF x.node.children = <<>> THEN {<<x.path, "children">>} ELSE {})
              : i \in DOMAIN GroupsOf(tree)}
  \cup UNION {{RowsOf(tree)[i].path} \X RowErrors(RowsOf(tree)[i].node, q, target)
              : i \in DOMAIN RowsOf(tree)}

\* A request is looked at as JSON first, its parameters only then.
Accepts(tree, q, target) == ParseTree(tree) = {} /\ Validate(tree, q, target) = {}

-----------------------------------------------------------------------------
(* store.rs                                                                *)

\* A 64-bit bound stored as a 32-bit one.
AsI32(n) == LET half == 2 ^ (INT_BITS - 1)
            IN  ((n + half) % (2 * half)) - half

Parent(path) == Front(path)
IdAt(seq, path) == CHOOSE i \in DOMAIN seq : seq[i].path = path
Order(path) == IF path = <<>> THEN 0 ELSE Last(path)

\* What of a row's parameters goes where; NONE where nothing does.
Column(row, f) == IF f \in DOMAIN row.given THEN row.given[f] ELSE NONE

CondRow(row) ==
  LET int(f) == IF row.type # "leave_value" /\ f \in DOMAIN row.given
                THEN AsI32(row.given[f]) ELSE NONE
      leave(f) == IF row.type = "leave_value" /\ row.given[f] # NONE
                  THEN row.given[f] ELSE NONE
      texts == {"pattern", "tiles", "text", "lexicon"} \cap DOMAIN row.given
  IN  [type |-> row.type,
       negated |-> row.given.negated,
       text |-> IF texts = {} THEN NONE ELSE row.given[CHOOSE f \in texts : TRUE],
       part |-> Column(row, "part_of_speech"),
       min |-> int("min"), max |-> int("max"),
       leave_min |-> leave("min"), leave_max |-> leave("max"),
       lax |-> Column(row, "lax")]

GroupRows(groups) ==
  {[id |-> i - 1,
    parent |-> IF groups[i].path = <<>> THEN NONE
               ELSE IdAt(groups, Parent(groups[i].path)) - 1,
    op |-> groups[i].node.op,
    order |-> Order(groups[i].path)] : i \in DOMAIN groups}

\* Groups and rows numbered in the order of the walk; the entries of a list
\* once each.  A cascade's In Lexicon row holds the lexicon's id, a saved
\* search's its name: here both are the text.
InsertSpec(tree) ==
  LET groups == GroupsOf(tree)
      rows   == RowsOf(tree)
      listed == {i \in DOMAIN rows : rows[i].node.type = "in_word_list"}
  IN  [groups |-> GroupRows(groups),
       conditions |->
         {[position |-> i - 1,
           group |-> IdAt(groups, Parent(rows[i].path)) - 1,
           order |-> Order(rows[i].path),
           cond |-> CondRow(rows[i].node)] : i \in DOMAIN rows},
       words |-> UNION {{i - 1} \X ToSet(rows[i].node.given.entries) : i \in listed}]

\* What the tables' CHECKs and keys let in.
Storable(spec) ==
  /\ \A g \in spec.groups : /\ g.id \in 0 .. COLUMN_MAX
                            /\ g.order \in 0 .. COLUMN_MAX
                            /\ (g.id = 0) <=> (g.parent = NONE)
  /\ \A c \in spec.conditions :
       /\ c.position \in 0 .. COLUMN_MAX
       /\ c.order \in 0 .. COLUMN_MAX
       /\ c.cond.text \notin {"empty", "long"}
       /\ c.cond.negated => c.cond.type \in Negatable
       /\ c.cond.min # NONE => 0 <= c.cond.min /\ c.cond.min <= c.cond.max /\ c.cond.max >= 0
       /\ c.cond.type = "consists_of" => c.cond.max <= 100
       /\ c.cond.type = "leave_value" => {c.cond.leave_min, c.cond.leave_max} # {NONE}
  /\ \A w \in spec.words : w[2] \notin {"empty", "long"}

\* A row as it is read back; entries come in the database's order, so only
\* which there are is kept.
LoadRow(spec, c) ==
  LET cond == c.cond
      value(f) ==
        CASE f \in {"pattern", "tiles", "text", "lexicon"} -> cond.text
          [] f = "part_of_speech" -> cond.part
          [] f = "lax" -> cond.lax
          [] f = "negated" -> cond.negated
          [] f = "entries" -> {w[2] : w \in {x \in spec.words : x[1] = c.position}}
          [] f = "min" /\ cond.type = "leave_value" ->
               IF cond.leave_min = NONE THEN NONE ELSE cond.leave_min
          [] f = "max" /\ cond.type = "leave_value" ->
               IF cond.leave_max = NONE THEN NONE ELSE cond.leave_max
          [] f = "min" -> cond.min
          [] f = "max" -> cond.max
  IN  [type |-> cond.type,
       given |-> [f \in Fields(cond.type) \cup {"negated"} |-> value(f)]]

RECURSIVE LoadGroup(_, _)
LoadGroup(spec, id) ==
  LET group == CHOOSE g \in spec.groups : g.id = id
      kids  == {[order |-> g.order, group |-> TRUE, of |-> g] :
                  g \in {x \in spec.groups : x.parent = id}}
               \cup {[order |-> c.order, group |-> FALSE, of |-> c] :
                  c \in {x \in spec.conditions : x.group = id}}
      sorted == SetToSortSeq(kids, LAMBDA a, b : a.order < b.order)
  IN  [op |-> group.op,
       children |-> [i \in DOMAIN sorted |->
         IF sorted[i].group THEN LoadGroup(spec, sorted[i].of.id)
         ELSE LoadRow(spec, sorted[i].of)]]

-----------------------------------------------------------------------------

\* A tree with each list of entries as the set of them.
RECURSIVE Unordered(_)
Unordered(node) ==
  IF IsGroupNode(node)
  THEN [node EXCEPT !.children = [i \in DOMAIN @ |-> Unordered(@[i])]]
  ELSE IF node.type = "in_word_list"
  THEN [node EXCEPT !.given.entries = ToSet(@)]
  ELSE node

\* A stored tree is read back as it was sent, groups in groups and rows between
\* them in their places, so a saved search finds what it found and Start over
\* copies what was chosen (store.rs flatten, insert_spec, load_spec); a search
\* that runs on a target can also be saved.
SpecsReadBack(tree, q, target) ==
  Accepts(tree, q, target) =>
    /\ Storable(InsertSpec(tree))
    /\ LoadGroup(InsertSpec(tree), 0) = Unordered(tree)
    /\ Accepts(tree, q, NONE)
=============================================================================
