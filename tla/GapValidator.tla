---------------------------- MODULE GapValidator ----------------------------
(***************************************************************************)
(* The check that a gap the review reported is about something that exists *)
(* (validation/gap_validator.py): files, lines, symbols, duplicates, and   *)
(* claims about tools whose results are cached.  A gap is a record         *)
(*   topic   what its text says; texts that difflib finds more than 0.7    *)
(*           alike are pairs of topics in Similar                          *)
(*   refs    the file references in the text                               *)
(*   tool    the tool whose outcome the text is about, or NoTool           *)
(***************************************************************************)
EXTENDS Naturals, FiniteSets, Sequences

CONSTANTS
    Lines,          \* [file of the project -> its number of lines]
    Known,          \* symbols that occur in some source file
    Similar,        \* pairs of topics; symmetric, seldom transitive
    NoLine, NoSymbol, NoTool

FileKeys(gap) == {ref.file : ref \in gap.refs}

(* Two gaps that name files are compared only if they share one. *)
Comparable(g, h) ==
    \/ FileKeys(g) = {} \/ FileKeys(h) = {}
    \/ FileKeys(g) \cap FileKeys(h) # {}

Alike(g, h) == Comparable(g, h) /\ <<g.topic, h.topic>> \in Similar

(* find_duplicates: an earlier gap that is not a duplicate itself is alike. *)
Duplicate(gaps) ==
    LET dup[j \in DOMAIN gaps] ==
            \E i \in 1 .. j - 1 : ~dup[i] /\ Alike(gaps[i], gaps[j])
    IN  dup

Holds(ref) ==
    /\ ref.file \in DOMAIN Lines
    /\ ref.line # NoLine => ref.line \in 1 .. Lines[ref.file]
    /\ ref.symbol # NoSymbol => ref.symbol \in Known

(* results: [tool that was run -> whether it passed]. *)
Refuted(gap, results) == gap.tool \in DOMAIN results /\ results[gap.tool]

(* invalid_gaps of validate_gaps; duplicates are among them.                *)
Invalid(gaps, results) ==
    LET dup == Duplicate(gaps)
    IN  {i \in DOMAIN gaps :
            \/ dup[i]
            \/ gaps[i].refs = {} /\ Refuted(gaps[i], results)
            \/ \E ref \in gaps[i].refs : ~Holds(ref)}

InvalidCount(gaps, results) == Cardinality(Invalid(gaps, results))
=============================================================================
