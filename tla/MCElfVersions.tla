--------------------------- MODULE MCElfVersions ---------------------------
(* Files with two dynamic symbols behind the empty first one. *)
EXTENDS ElfVersions

\* Reserved, internal, external and hidden numbers, and one that int() refuses.
Raws == {0, 1, 2, 3, 32770, 32771, 65280}

Versyms == {NoSection} \cup {<<0>> \o s : s \in BoundedSeq(Raws, 2)}

\* A definition's number may be missing (<<3>>), needs come in any order; with the
\* hidden bit, the last number is one that int() refuses.
Verdefs == {NoSection, <<1>>, <<1, 2>>, <<2, 1>>, <<3>>}
Verneeds == {NoSection, <<2>>, <<3>>, <<3, 2>>, <<4, 3>>, <<32512>>}

Names == {<<NoName, a, <<"symbol">>>> : a \in {<<"symbol">>, <<"def", 2>>, NoName}}

Relocs == {<<>>, <<[sym |-> 0, table |-> "dynsym"], [sym |-> 1, table |-> "dynsym"]>>,
           <<[sym |-> 2, table |-> "dynsym"], [sym |-> 1, table |-> "symtab"],
             [sym |-> 7, table |-> "symtab"]>>}

MCFiles == [versym : Versyms, verdef : Verdefs, verneed : Verneeds,
            dt_versym : BOOLEAN, names : Names, relocs : Relocs]

=============================================================================
