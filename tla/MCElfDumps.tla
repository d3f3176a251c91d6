----------------------------- MODULE MCElfDumps -----------------------------
(* Small sections for the dumps of readelf.py. *)
EXTENDS ElfDumps

Section(data) == [found |-> TRUE, nobits |-> FALSE, addr |-> 4096, data |-> data]

\* What _section_from_spec may give for a section that has nothing to dump.
Absent == [Section(<<>>) EXCEPT !.found = FALSE]
NoBits == [Section(<<>>) EXCEPT !.nobits = TRUE]

MCHexes == {Absent, NoBits}
             \cup {Section([i \in 1..n |-> "other"]) : n \in 0..50}

MCStrings == {Absent, NoBits}
               \cup {Section(data) : data \in BoundedSeq(Bytes, 5)}

MCArangeses == BoundedSeq([cu : 1..3, range : 1..2], 4)

MCPubnames == BoundedSeq([cu : 1..2, names : BoundedSeq({"a", "b", "c"}, 2)], 3)

\* Sections as compilers write them: a set for each unit that has names, no name
\* twice in a set, but perhaps in the sets of two units, as a common type is.
Ordinary == {sets \in MCPubnames :
  /\ \A k \in DOMAIN sets : sets[k].names # <<>> /\ IsInjective(sets[k].names)
  /\ \A j, k \in DOMAIN sets : sets[j].cu = sets[k].cu => j = k}
NoInput == {}

=============================================================================
