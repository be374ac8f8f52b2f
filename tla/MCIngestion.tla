----------------------------- MODULE MCIngestion -----------------------------
(***************************************************************************)
(* A document and a module.  The cap is 3 lines and the window 2 (60 and   *)
(* 40 in the code).  The versions share chunks with each other, or are     *)
(* longer, shorter, not there; one has text before its first header, a     *)
(* section longer than the cap and blank lines; one module does not parse. *)
(***************************************************************************)
EXTENDS Ingestion

MCCorpus == <<"doc", "module">>
MCTypes == [doc |-> "markdown", module |-> "python"]

Doc(lines) == [lines |-> lines, parses |-> FALSE]
Module(lines, parses) == [lines |-> lines, parses |-> parses]

TwoSections == Doc(<<Header, "a", Header, "b">>)
OneFunction == Module(<<"a", Def, "a">>, TRUE)

MCDisks == {[doc |-> TwoSections, module |-> OneFunction]}

MCEdits ==
  [doc |-> {TwoSections,
            Doc(<<Header, "a", "c", Header, "b">>),
            Doc(<<"a", Header, "b", "b", Blank, Blank, Blank, Blank>>), None},
   module |-> {OneFunction, Module(<<"a", Def, "a", "b", Def>>, FALSE), Module(<<Def, "a">>, TRUE)}]

RunSymmetry == Permutations(Runs)
=============================================================================
