------------------------------ MODULE ElfDumps ------------------------------
(***************************************************************************)
(* The dumps of RTOS-firmware/.local/bin/readelf.py, the script of the     *)
(* firmware's tool chain that shows what is in a binary: hex and string    *)
(* dump of a section, and the DWARF tables that are printed in groups.     *)
(* Each dump is a loop over an input; a step is one pass of the loop, and  *)
(* out is what has been printed, with wording and number formats left out. *)
(***************************************************************************)
EXTENDS Integers, Sequences, FiniteSetsExt, SequencesExt

CONSTANTS Hexes,      \* what display_hex_dump may be given
          Strings,    \* what display_string_dump may be given
          Arangeses,  \* what _dump_debug_aranges may be given
          Pubnames,   \* what _dump_debug_namelut may be given
          NoOffset,   \* Python's None, in prev_offset
          MaxDies     \* bound: DIEs that _dump_debug_info is given

VARIABLES
  display,   \* the loop that runs
  input,     \* what it runs over
  pos,       \* bytes, entries or DIEs it has dealt with
  out,       \* the lines printed
  done

\* Variables of single dumps.
VARIABLES
  die_depth,     \* _dump_debug_info
  open,          \* the same: lines of the DIEs whose children are being read
  prev_offset    \* _dump_debug_aranges

vars == <<display, input, pos, out, done, die_depth, open, prev_offset>>

\* A byte: NUL; 32 to 126; 127, which only the string dump takes for a
\* character; anything else.
Bytes == {"nul", "text", "del", "other"}

\* The section that the number or name in section_spec stands for, if found;
\* nobits ones have no data.
Sections == [found : BOOLEAN, nobits : BOOLEAN, addr : Nat, data : Seq(Bytes)]

ASSUME DumpsAssumption ==
  /\ Hexes \subseteq Sections
  /\ Strings \subseteq Sections
  /\ Arangeses \subseteq Seq([cu : Nat, range : Nat])
  /\ Pubnames \subseteq Seq([cu : Nat, names : Seq(STRING)])
  /\ NoOffset \notin Nat
  /\ MaxDies \in Nat

Init ==
  /\ \/ display = "hex"     /\ input \in Hexes
     \/ display = "string"  /\ input \in Strings
     \/ display = "info"    /\ input = <<>>
     \/ display = "aranges" /\ input \in Arangeses
     \/ display = "names"   /\ input \in Pubnames
  /\ pos = 0
  /\ out = <<>>
  /\ done = FALSE
  /\ die_depth = 0
  /\ open = <<>>
  /\ prev_offset = NoOffset

-----------------------------------------------------------------------------
(* The dumps of a section. *)

section == input

\* display_hex_dump and display_string_dump, before their loops.
NothingToDump ==
  /\ display \in {"hex", "string"}
  /\ ~done
  /\ ~section.found \/ section.nobits
  /\ done' = TRUE
  /\ UNCHANGED <<display, input, pos, out, die_depth, open, prev_offset>>

Dumps(what) == /\ display = what
               /\ ~done
               /\ section.found /\ ~section.nobits

\* Mutant: every line is taken to be full.
FullLines ==
  /\ Dumps("hex")
  /\ pos < Len(section.data)
  /\ out' = Append(out, [addr |-> section.addr + pos, first |-> pos, bytes |-> 16])
  /\ pos' = pos + 16
  /\ UNCHANGED <<display, input, done, die_depth, open, prev_offset>>

\* One line of display_hex_dump: where it starts and how many bytes it shows.
HexLine ==
  /\ Dumps("hex")
  /\ pos < Len(section.data)
  /\ LET bytesleft == Len(section.data) - pos
         linebytes == IF bytesleft > 16 THEN 16 ELSE bytesleft
     IN  /\ out' = Append(out, [addr |-> section.addr + pos, first |-> pos,
                                bytes |-> linebytes])
         /\ pos' = pos + linebytes
  /\ UNCHANGED <<display, input, done, die_depth, open, prev_offset>>

HexEnds ==
  /\ Dumps("hex")
  /\ pos >= Len(section.data)
  /\ done' = TRUE
  /\ UNCHANGED <<display, input, pos, out, die_depth, open, prev_offset>>

Printable(i) == section.data[i + 1] \in {"text", "del"}

Starts == {i \in pos..Len(section.data) - 1 : Printable(i)}

\* The next NUL, or the end.
EndOf(i) == Min({j \in i..Len(section.data) - 1 : section.data[j + 1] = "nul"}
                  \cup {Len(section.data)})

\* Mutant: the search for the next string goes on behind the next byte.
StepsOver ==
  /\ Dumps("string")
  /\ Starts # {}
  /\ LET dataptr == Min(Starts)
     IN  /\ out' = Append(out, [first |-> dataptr, end |-> EndOf(dataptr)])
         /\ pos' = dataptr + 1
  /\ UNCHANGED <<display, input, done, die_depth, open, prev_offset>>

\* One string of display_string_dump: the bytes from first up to end.
StringLine ==
  /\ Dumps("string")
  /\ Starts # {}
  /\ LET dataptr == Min(Starts)
     IN  /\ out' = Append(out, [first |-> dataptr, end |-> EndOf(dataptr)])
         /\ pos' = EndOf(dataptr)
  /\ UNCHANGED <<display, input, done, die_depth, open, prev_offset>>

StringsEnd ==
  /\ Dumps("string")
  /\ Starts = {}
  /\ done' = TRUE
  /\ UNCHANGED <<display, input, pos, out, die_depth, open, prev_offset>>

-----------------------------------------------------------------------------
(* _dump_debug_info.  CU.iter_DIEs gives a DIE, then, if it has children,  *)
(* those with all below them, then a null DIE; open are the DIEs that this *)
(* serialisation is inside of, innermost first.                            *)

\* Mutant: the counter goes up for every DIE that is not null.
DepthCountsDies(kind, depth) == IF kind = "null" THEN depth - 1 ELSE depth + 1

\* Mutant: a DIE with children does not deepen.
DepthOnlyFalls(kind, depth) == IF kind = "null" THEN depth - 1 ELSE depth

DepthAfter(kind, depth) == CASE kind = "null"   -> depth - 1
                             [] kind = "parent" -> depth + 1
                             [] kind = "leaf"   -> depth

\* One DIE; a DIE inside of none is the first of a unit, for which die_depth
\* starts from 0.
DieLine(kind) ==
  LET depth == IF open = <<>> THEN 0 ELSE die_depth
  IN  /\ display = "info" /\ ~done
      /\ open = <<>> => kind # "null"
      /\ out' = Append(out, [depth |-> depth,
                             parent |-> IF open = <<>> THEN 0 ELSE Head(open)])
      /\ pos' = pos + 1
      /\ open' = CASE kind = "null"   -> Tail(open)
                   [] kind = "parent" -> <<pos + 1>> \o open
                   [] kind = "leaf"   -> open
      /\ pos' + Len(open') <= MaxDies
      /\ die_depth' = DepthAfter(kind, depth)
      /\ UNCHANGED <<display, input, done, prev_offset>>

InfoEnds ==
  /\ display = "info" /\ ~done
  /\ open = <<>>
  /\ done' = TRUE
  /\ UNCHANGED <<display, input, pos, out, die_depth, open, prev_offset>>

-----------------------------------------------------------------------------
(* _dump_debug_aranges: entries [cu, range] in the order of the section.   *)

Heading(cu)  == <<"header", cu>>
Entry(value) == <<"entry", value>>
Zeros        == <<"zeros">>

\* Mutant: the offset of the entry before is not kept.
KeepsNoOffset ==
  /\ display = "aranges" /\ ~done
  /\ pos < Len(input)
  /\ LET entry == input[pos + 1]
     IN  out' = out \o (IF entry # input[1] THEN <<Zeros>> ELSE <<>>)
                    \o <<Heading(entry.cu), Entry(entry)>>
  /\ pos' = pos + 1
  /\ UNCHANGED <<display, input, done, die_depth, open, prev_offset>>

ArangesLine ==
  /\ display = "aranges" /\ ~done
  /\ pos < Len(input)
  /\ LET entry == input[pos + 1]
         terminator == IF entry # input[1] THEN <<Zeros>> ELSE <<>>
         heading == IF prev_offset # entry.cu
                    THEN Append(terminator, Heading(entry.cu)) ELSE <<>>
     IN  /\ out' = out \o Append(heading, Entry(entry))
         /\ prev_offset' = entry.cu
  /\ pos' = pos + 1
  /\ UNCHANGED <<display, input, done, die_depth, open>>

ArangesEnd ==
  /\ display = "aranges" /\ ~done
  /\ pos = Len(input)
  /\ out' = IF input = <<>> THEN out ELSE Append(out, Zeros)
  /\ done' = TRUE
  /\ UNCHANGED <<display, input, pos, die_depth, open, prev_offset>>

-----------------------------------------------------------------------------
(* _dump_debug_namelut: sets [cu, names] in the order of the section.      *)

\* What the section says of each name, in its order.
Pairs == FlattenSeq([k \in DOMAIN input |->
           [i \in DOMAIN input[k].names |->
              [name |-> input[k].names[i], cu |-> input[k].cu]]])

SameName(i, j) == Pairs[i].name = Pairs[j].name

\* An assignment to an OrderedDict: a name that comes again keeps its place and
\* takes the new value.
Put(items, pair) ==
  IF \E k \in DOMAIN items : items[k].name = pair.name
  THEN [k \in DOMAIN items |-> IF items[k].name = pair.name THEN pair ELSE items[k]]
  ELSE Append(items, pair)

\* namelut.items(), of the dictionary that the pairs have been put in.
Items == LET entries[i \in 0..Len(Pairs)] ==
               IF i = 0 THEN <<>> ELSE Put(entries[i - 1], Pairs[i])
         IN  entries[Len(Pairs)]

\* Mutant: a group has one item.
GroupOfOne(items) == pos + 1

\* The last item of the group of items with one cu_ofs that starts behind pos.
GroupEnd(items) ==
  Max({k \in pos + 1..Len(items) :
         \A j \in pos + 1..k : items[j].cu = items[pos + 1].cu})

HeadersUsed == Cardinality({k \in DOMAIN out : out[k][1] = "header"})

\* izip pairs the next header of the section with the next group.
NamesGroup ==
  /\ display = "names" /\ ~done
  /\ pos < Len(Items)
  /\ HeadersUsed < Len(input)
  /\ pos' = GroupEnd(Items)
  /\ out' = out \o <<Heading(input[HeadersUsed + 1].cu)>>
                \o [k \in 1..pos' - pos |-> Entry(Items[pos + k])]
  /\ UNCHANGED <<display, input, done, die_depth, open, prev_offset>>

NamesEnd ==
  /\ display = "names" /\ ~done
  /\ pos = Len(Items) \/ HeadersUsed = Len(input)
  /\ done' = TRUE
  /\ UNCHANGED <<display, input, pos, out, die_depth, open, prev_offset>>

-----------------------------------------------------------------------------

Finished == done /\ UNCHANGED vars

Next ==
  \/ NothingToDump
  \/ HexLine \/ HexEnds
  \/ StringLine \/ StringsEnd
  \/ \E kind \in {"parent", "leaf", "null"} : DieLine(kind)
  \/ InfoEnds
  \/ ArangesLine \/ ArangesEnd
  \/ NamesGroup \/ NamesEnd
  \/ Finished

Spec == Init /\ [][Next]_vars

-----------------------------------------------------------------------------

\* Type correctness of the counters that the loops of readelf.py move by more
\* than one: no position is past the data, no depth is below zero.
TypeOK ==
  /\ display \in {"hex", "string", "info", "aranges", "names"}
  /\ pos \in Nat
  /\ display \in {"hex", "string"} => pos <= Len(section.data)
  /\ display = "aranges" => pos <= Len(input)
  /\ display = "names" => pos <= Len(Pairs)
  /\ die_depth \in Nat
  /\ done \in BOOLEAN

\* The hex dump shows every byte once: a line starts, in the data as in its
\* address, where the line before has ended, and what has been shown is never
\* more than the section has and in the end all of it (dataptr, addr and
\* linebytes at a section's last, shorter line).
HexLinesTile ==
  display = "hex" =>
    /\ \A k \in DOMAIN out :
         /\ out[k].first = IF k = 1 THEN 0 ELSE out[k - 1].first + out[k - 1].bytes
         /\ out[k].addr = section.addr + out[k].first
         /\ out[k].first + out[k].bytes <= Len(section.data)
    /\ done /\ section.found /\ ~section.nobits /\ out # <<>>
         => LET last == Last(out) IN last.first + last.bytes = Len(section.data)
    /\ done /\ section.found /\ ~section.nobits /\ out = <<>> => section.data = <<>>

\* The string dump shows every character once, each string up to the NUL that
\* ends it or the end of the section and never the end of another one: a
\* string's first byte is the first character since the last NUL.
StringsAreWhole ==
  display = "string" /\ done /\ section.found /\ ~section.nobits =>
    /\ \A i \in 0..Len(section.data) - 1 : Printable(i) =>
         Cardinality({k \in DOMAIN out : i \in out[k].first..out[k].end - 1}) = 1
    /\ \A k \in DOMAIN out :
         /\ out[k].end # Len(section.data) => section.data[out[k].end + 1] = "nul"
         /\ \A i \in out[k].first..out[k].end - 1 : section.data[i + 1] # "nul"
         /\ \A i \in 0..out[k].first - 1 :
              Printable(i) => \E j \in i..out[k].first - 1 : section.data[j + 1] = "nul"

\* The counter that _dump_debug_info prints is the nesting depth: the first DIE
\* of a unit is at 0 and every other one deeper by one than its parent, the
\* null DIE that ends its children included.
DepthIsNesting ==
  display = "info" =>
    \A k \in DOMAIN out :
      out[k].depth = IF out[k].parent = 0 THEN 0 ELSE out[out[k].parent].depth + 1

CuSet(cu) == {k \in DOMAIN input : input[k].cu = cu}

\* The entries of a unit are together.  A unit with an empty set, of which
\* _get_entries keeps nothing, is not in the input at all.
OneSetPerUnit ==
  \A i, j, k \in DOMAIN input :
    i < j /\ j < k /\ input[i].cu = input[k].cu => input[j].cu = input[i].cu

\* Of such a section the aranges dump prints each unit's ranges as a table of its
\* own: a header for each unit with ranges and only one, under it the unit's
\* ranges and then the zeros that end a table, although readelf.py keeps no more
\* than the offset of the entry before and writes the zeros of a table with the
\* header of the next.
ArangesGrouped ==
  display = "aranges" /\ done /\ OneSetPerUnit =>
    /\ \A k \in DOMAIN out : out[k][1] = "header" =>
         /\ k = 1 \/ out[k - 1] = Zeros
         /\ \E n \in 1..Len(out) - k - 1 :
              /\ out[k + n + 1] = Zeros
              /\ {out[k + i] : i \in 1..n} = {Entry(input[j]) : j \in CuSet(out[k][2])}
              /\ n = Cardinality(CuSet(out[k][2]))
    /\ \A j \in DOMAIN input :
         Cardinality({k \in DOMAIN out : out[k] = Heading(input[j].cu)}) = 1

\* The lines of each set of names under a header of its own.
Groups == [k \in DOMAIN input |->
            <<Heading(input[k].cu)>> \o
            [i \in DOMAIN input[k].names |->
               Entry([name |-> input[k].names[i], cu |-> input[k].cu])]]

\* No name comes twice in the section, no set is empty, and neighbours are sets
\* of different units.
Separable ==
  /\ \A i, j \in DOMAIN Pairs : SameName(i, j) => i = j
  /\ \A k \in DOMAIN input : input[k].names # <<>>
  /\ \A k \in DOMAIN input : k > 1 => input[k].cu # input[k - 1].cu

\* The pubnames and pubtypes dumps, which have lost the set that a name came from
\* and pair the headers with runs of equal offsets in a dictionary, show what is
\* in the section, each set under its header, for these sections and no others.
NamesUnderTheirHeader ==
  display = "names" /\ done => (out = FlattenSeq(Groups) <=> Separable)

\* "An ordered dictionary is used to preserve the CU order (i.e, items are stored
\* on a per-CU basis (as it was originally in the .debug_* section)"
\* (namelut.py:29), so that every name readelf.py prints under a header is of the
\* header's unit.
NamesPerUnit ==
  display = "names" =>
    \A h, e \in DOMAIN out :
      /\ h < e /\ out[h][1] = "header"
      /\ \A k \in h + 1..e : out[k][1] = "entry"
      => out[h][2] = out[e][2].cu

=============================================================================
