---------------------------- MODULE ElfVersions ----------------------------
(***************************************************************************)
(* The versions of dynamic symbols in RTOS-firmware/.local/bin/readelf.py: *)
(* the three displays that look a symbol's version up print one line a     *)
(* step, in main's order.  The program catches ELFError only; any other    *)
(* exception ends it with what it has printed.                             *)
(***************************************************************************)
EXTENDS Integers, Sequences, FiniteSetsExt, SequencesExt

CONSTANT Files   \* what the program may be given; see file

VARIABLES
  file,    \* [versym, verdef, verneed: what the section has, or NoSection;
           \*  dt_versym: whether the dynamic section has that tag;
           \*  names: the names of the dynamic symbols;
           \*  relocs: [sym, table], what relocations refer to]
  todo,    \* displays to run, the first one is running
  pos,     \* entries it has shown
  out,     \* lines printed
  raised   \* an exception has ended the program

vars == <<file, todo, pos, out, raised>>

\* Sections are sequences of numbers: versym of the raw 16 bits of a symbol,
\* verdef of vd_ndx, verneed of the vna_other of all its auxiliary entries.
\* The name of an entry stands for the entry: <<section, number>>.
NoSection == <<-1>>
Has(section) == section # NoSection
NoName == <<>>

\* A relocation refers to a symbol of either table by its number.
ASSUME FilesAssumption ==
  \A f \in Files :
    /\ {f.versym, f.verdef, f.verneed} \subseteq Seq(Nat) \cup {NoSection}
    /\ f.dt_versym \in BOOLEAN
    /\ f.names \in Seq(ToSet(f.names))
    /\ f.relocs \in Seq([sym : Nat, table : {"dynsym", "symtab"}])

\* The order in which main runs the displays that it is asked for.
Order == [symbols |-> 1, relocs |-> 2, versions |-> 3]
Displays == DOMAIN Order

Init ==
  /\ file \in Files
  /\ todo \in {s \in BoundedSeq(Displays, 3) :
               \A i, j \in DOMAIN s : i < j => Order[s[i]] < Order[s[j]]}
  /\ pos = 0
  /\ out = <<>>
  /\ raised = FALSE

-----------------------------------------------------------------------------

\* _init_versioninfo: the kind of versioning.
Kind == CASE file.dt_versym -> "GNU"
          [] ~file.dt_versym /\ (Has(file.verneed) \/ Has(file.verdef)) -> "Solaris"
          [] OTHER -> "unversioned"

\* The top bit of a raw value, and the first of those that are reserved.
HiddenBit == 32768
LoReserve == 65280

\* Mutant: the bit for hidden stays in the index.
KeepsHiddenBit(raw) == raw

IndexIn(raw) == IF Kind = "GNU" THEN raw % HiddenBit ELSE raw
HiddenIn(raw) == Kind = "GNU" /\ raw >= HiddenBit

\* get_version of the two tables: the entries with that number.
DefsOf(index) == {k \in DOMAIN file.verdef : file.verdef[k] = index}

\* Mutant: the table of needs is taken to be in the order of its numbers.
NeedAt(index) == {k \in DOMAIN file.verneed :
                    k = index - Max({1, IF Has(file.verdef) THEN Len(file.verdef) ELSE 0})}

NeedsOf(index) == {k \in DOMAIN file.verneed : file.verneed[k] = index}

Absent == [found |-> "absent"]
Raises == [found |-> "raises"]
Version(index, name, from, hidden) ==
  [found |-> "found", index |-> index, name |-> name, from |-> from, hidden |-> hidden]

\* The two numbers of versym that are read as a word, and the two of which
\* int() then makes a ValueError.
Reserved == {0, 1}
Unreadable == {LoReserve, LoReserve + 1}

\* _symbol_version: None is Absent; a lookup that comes back with None is
\* unpacked, and a section that is None is asked, so that both raise.
SymbolVersion(nsym) ==
  IF ~Has(file.versym) \/ nsym >= Len(file.versym) THEN Absent
  ELSE LET raw == file.versym[nsym + 1]
           index == IndexIn(raw)
           hidden == HiddenIn(raw)
           internal == Has(file.verdef) /\ index <= Len(file.verdef)
       IN  CASE raw \in Reserved -> Version(raw, NoName, "word", FALSE)
             [] raw \in Unreadable -> Raises
             [] raw \notin Reserved \cup Unreadable /\ internal ->
                  IF DefsOf(index) = {} THEN Raises
                  ELSE Version(index, <<"def", file.verdef[Min(DefsOf(index))]>>, "def", hidden)
             [] raw \notin Reserved \cup Unreadable /\ ~internal ->
                  IF ~Has(file.verneed) \/ NeedsOf(index) = {} THEN Raises
                  ELSE Version(index, <<"need", file.verneed[Min(NeedsOf(index))]>>, "need", hidden)

-----------------------------------------------------------------------------

Runs(display) == ~raised /\ todo # <<>> /\ Head(todo) = display

Raise == raised' = TRUE /\ UNCHANGED <<file, todo, pos, out>>

Show(sym, name, mark) ==
  /\ out' = Append(out, [display |-> Head(todo), sym |-> sym, name |-> name, mark |-> mark])
  /\ pos' = pos + 1
  /\ UNCHANGED <<file, todo, raised>>

NextDisplay == todo' = Tail(todo) /\ pos' = 0 /\ UNCHANGED <<file, out, raised>>

\* What display_symbol_tables writes behind a name: nothing if the version is
\* the name or a word, @name (index), @name or @@name.
Suffix(version, name) ==
  CASE version.name = name \/ version.from = "word" -> "nothing"
    [] version.name # name /\ version.from = "need" -> "external"
    [] version.name # name /\ version.from = "def" ->
         IF version.hidden THEN "hidden" ELSE "default"

\* One symbol of .dynsym in display_symbol_tables, which subscripts the version
\* without asking whether it is None.
SymbolLine ==
  /\ Runs("symbols") /\ pos < Len(file.names)
  /\ LET version == SymbolVersion(pos)
         name == file.names[pos + 1]
     IN  \/ Kind # "GNU" /\ Show(pos, NoName, "nothing")
         \/ Kind = "GNU" /\ version.found # "found" /\ Raise
         \/ /\ Kind = "GNU" /\ version.found = "found"
            /\ Show(pos,
                    IF Suffix(version, name) = "nothing" THEN NoName ELSE version.name,
                    Suffix(version, name))

SymbolsEnd == Runs("symbols") /\ pos = Len(file.names) /\ NextDisplay

\* One relocation in display_relocations.  Symbol 0 is no symbol; a symbol with
\* no name is shown by its section's name; every other one has its number
\* looked up in versym, whichever table the number is of.
RelocLine ==
  /\ Runs("relocs") /\ pos < Len(file.relocs)
  /\ LET rel == file.relocs[pos + 1]
         version == SymbolVersion(rel.sym)
         unnamed == rel.table = "dynsym" /\ file.names[rel.sym + 1] = NoName
     IN  \/ (rel.sym = 0 \/ unnamed) /\ Show(rel.sym, NoName, "plain")
         \/ rel.sym # 0 /\ ~unnamed /\ version.found = "raises" /\ Raise
         \/ /\ rel.sym # 0 /\ ~unnamed /\ version.found # "raises"
            /\ Show(rel.sym, IF version.found = "found" THEN version.name ELSE NoName, "plain")

RelocsEnd == Runs("relocs") /\ pos = Len(file.relocs) /\ NextDisplay

\* One entry of versym in display_version_info; the lists of the other two
\* sections, which look nothing up, are left out.
VersionLine ==
  /\ Runs("versions") /\ Kind # "unversioned"
  /\ Has(file.versym) /\ pos < Len(file.versym)
  /\ LET version == SymbolVersion(pos)
     IN  \/ version.found = "raises" /\ Raise
         \/ /\ version.found = "found"
            /\ Show(pos, version.name, IF version.hidden THEN "hidden" ELSE "plain")

VersionsEnd ==
  /\ Runs("versions")
  /\ Kind = "unversioned" \/ ~Has(file.versym) \/ pos = Len(file.versym)
  /\ NextDisplay

Finished == (raised \/ todo = <<>>) /\ UNCHANGED vars

Next ==
  \/ SymbolLine \/ SymbolsEnd
  \/ RelocLine \/ RelocsEnd
  \/ VersionLine \/ VersionsEnd
  \/ Finished

Spec == Init /\ [][Next]_vars

-----------------------------------------------------------------------------

Numbers(section) == IF Has(section) THEN ToSet(section) ELSE {}

\* What GNU ld writes: a raw value for every symbol; definitions numbered from
\* 1 without a gap, needs with the numbers behind them, each table in any order;
\* no symbol with a number that neither table has or that is reserved.
WellFormed ==
  LET defs == Numbers(file.verdef)
      needs == Numbers(file.verneed)
  IN  /\ file.dt_versym /\ Has(file.versym)
      /\ Len(file.versym) = Len(file.names)
      /\ Has(file.verdef) => defs = 1..Len(file.verdef)
      /\ Has(file.verneed) => IsInjective(file.verneed)
      /\ \A need \in needs : need > Max(defs \cup {1})
      /\ \A raw \in ToSet(file.versym) :
           \/ raw \in Reserved
           \/ raw < LoReserve /\ raw % HiddenBit \in (defs \cup needs) \ {1}

Unversioned == /\ ~Has(file.versym) /\ ~Has(file.verdef) /\ ~Has(file.verneed)
               /\ ~file.dt_versym

\* The entry that a symbol's number belongs to.
EntryOf(sym) ==
  LET number == file.versym[sym + 1] % HiddenBit
  IN  CASE number \in Reserved -> NoName
        [] number \notin Reserved /\ Has(file.verdef) /\ DefsOf(number) # {} -> <<"def", number>>
        [] OTHER -> <<"need", number>>

\* Every version printed is the name of the entry with the symbol's number, for
\* the symbols, the versions and the relocations against .dynsym (those against
\* another table are looked up by an index that is not theirs, and left out):
\* readelf.py decides by the number of definitions which table to
\* ask, and by the top bit what is hidden (readelf.py:875-890).  The symbols
\* display says for each whether it is of another file, hidden or the default.
VersionsAreTheirEntries ==
  WellFormed => \A k \in DOMAIN out :
    LET line == out[k]
        entry == EntryOf(line.sym)
        hidden == file.versym[line.sym + 1] >= HiddenBit
    IN  CASE line.display = "symbols" ->
               IF entry = NoName \/ entry = file.names[line.sym + 1]
               THEN line.mark = "nothing"
               ELSE /\ line.name = entry
                    /\ line.mark = "external" <=> entry[1] = "need"
                    /\ line.mark = "hidden" <=> entry[1] = "def" /\ hidden
          [] line.display = "relocs" ->
               (\A j \in DOMAIN file.relocs :
                  file.relocs[j].sym = line.sym => file.relocs[j].table = "dynsym")
                 => line.name \in {NoName, entry}
          [] line.display = "versions" ->
               /\ line.name = entry
               /\ line.mark = "hidden" <=> hidden

\* On a file that a linker writes, with versions or without, no display dies of
\* an exception that main does not catch, although a missing version is None
\* and is subscripted and unpacked (readelf.py:383, 883, 888), and each prints
\* every entry it is there for.
DumpsAreComplete ==
  WellFormed \/ Unversioned =>
    /\ ~raised
    /\ \A d \in Displays :
         Runs(d) => Cardinality({k \in DOMAIN out : out[k].display = d}) = pos

=============================================================================
