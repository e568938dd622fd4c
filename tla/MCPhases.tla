------------------------------ MODULE MCPhases ------------------------------
(***************************************************************************)
(* A small instance of Phases for TLC: two milestones with a retry and a   *)
(* resumed run.  A gap is unlike the others, about a file that is or is    *)
(* not there, or about the lint that a gate has run.                       *)
(***************************************************************************)
EXTENDS Phases

Files == [present |-> 2]
Symbols == {}
Same == {<<t, t>> : t \in {"a", "b", "c", "d", "lint"}}

About(file) == {[file |-> file, line |-> NoLine, symbol |-> NoSymbol]}
Real(t)  == [topic |-> t, refs |-> About("present"), tool |-> NoTool]
Bogus(t) == [topic |-> t, refs |-> About("absent"), tool |-> NoTool]
Lint     == [topic |-> "lint", refs |-> {}, tool |-> "lint"]

Report(kind, critical, important, gaps) ==
    [kind |-> kind, critical |-> critical, important |-> important,
     tests |-> TRUE, lint |-> TRUE, gaps |-> gaps]

(* Not JSON, no object, one critical gap twice, and a real one with three   *)
(* that are invented and a claim about lint.                                *)
ReportsOfInterest ==
    {Report("garbled", 0, 0, <<>>), Report("array", 0, 0, <<>>),
     Report("object", 1, 0, <<Real("a"), Real("a")>>),
     Report("object", 5, 0, <<Real("a"), Bogus("b"), Bogus("c"), Bogus("d"), Lint>>)}
=============================================================================
