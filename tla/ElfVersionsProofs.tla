------------------------- MODULE ElfVersionsProofs -------------------------
(***************************************************************************)
(* The version lookups of readelf.py, proved for every file: on a file     *)
(* that a linker writes the number of definitions and the top bit of a     *)
(* number are enough to find the entry it belongs to, and no display dies. *)
(***************************************************************************)
EXTENDS ElfVersions, SequenceTheorems, FiniteSetTheorems, TLAPS

\* An entry's name, or none.
EntryNames == {NoName} \cup ({"def", "need"} \X Nat)

Marks == {"nothing", "plain", "external", "hidden", "default"}

Lines == [display : Displays, sym : Nat, name : EntryNames, mark : Marks]

\* What every variable holds; a display is asked for once.
TypeInv ==
  /\ file \in Files
  /\ todo \in Seq(Displays)
  /\ \A i, j \in 1..Len(todo) : todo[i] = todo[j] => i = j
  /\ pos \in Nat
  /\ out \in Seq(Lines)
  /\ raised \in BOOLEAN

\* The lines of a display.
LinesOf(lines, d) == {k \in DOMAIN lines : lines[k].display = d}

\* The display that runs has printed as many lines as it has dealt with entries
\* and those behind it none.
CountInv ==
  /\ todo # <<>> => Cardinality(LinesOf(out, todo[1])) = pos
  /\ \A i \in 2..Len(todo) : LinesOf(out, todo[i]) = {}

\* What VersionsAreTheirEntries says of one line.
RightLine(line) ==
  LET entry == EntryOf(line.sym)
      hidden == file.versym[line.sym + 1] >= HiddenBit
  IN  CASE line.display = "symbols" ->
             IF entry = NoName \/ entry = file.names[line.sym + 1]
             THEN line.mark = "nothing"
             ELSE /\ line.name = entry
                  /\ line.mark = "external" <=> entry[1] = "need"
                  /\ line.mark = "hidden" <=> entry[1] = "def" /\ hidden
        [] line.display = "relocs" ->
             (\A j \in DOMAIN file.relocs :
                file.relocs[j].sym = line.sym => file.relocs[j].table = "dynsym")
               => line.name \in {NoName, entry}
        [] line.display = "versions" ->
             /\ line.name = entry
             /\ line.mark = "hidden" <=> hidden

LineInv == WellFormed => \A k \in DOMAIN out : RightLine(out[k])

\* No lookup has raised.
CalmInv == WellFormed \/ Unversioned => ~raised

USE FilesAssumption DEF FilesAssumption

-----------------------------------------------------------------------------
(* Smallest and largest numbers. *)

LEMMA MinOf ==
  ASSUME NEW S \in SUBSET Nat, S # {}
  PROVE  Min(S) \in S /\ \A y \in S : Min(S) <= y
<1>1. PICK x \in S : \A y \in S : <<y, x>> \notin OpToRel(<, Nat)
  BY NatLessThanWellFounded, WFMin, Zenon
<1>2. \A y \in S : ~(y < x)
  BY <1>1, Zenon DEF OpToRel
<1>3. \A y \in S : x <= y
  BY <1>2
<1>4. QED BY <1>3 DEF Min

LEMMA MaxIs ==
  ASSUME NEW S \in SUBSET Nat, NEW n \in S, \A y \in S : y <= n
  PROVE  Max(S) = n
<1>1. n \in S /\ \A y \in S : n >= y
  OBVIOUS
<1>2. Max(S) \in S /\ \A y \in S : Max(S) >= y
  BY <1>1, Zenon DEF Max
<1>3. Max(S) >= n /\ n >= Max(S) /\ Max(S) \in Nat /\ n \in Nat
  BY <1>2
<1> QED BY <1>3

-----------------------------------------------------------------------------
(* A lookup. *)

\* The tables that a section gives.
LEMMA FileTypes ==
  ASSUME file \in Files
  PROVE  /\ Has(file.versym) => file.versym \in Seq(Nat)
         /\ Has(file.verdef) => file.verdef \in Seq(Nat)
         /\ Has(file.verneed) => file.verneed \in Seq(Nat)
         /\ file.dt_versym \in BOOLEAN
         /\ Len(file.names) \in Nat
         /\ file.relocs \in Seq([sym : Nat, table : {"dynsym", "symtab"}])
         /\ Len(file.relocs) \in Nat
<1>1. /\ {file.versym, file.verdef, file.verneed} \subseteq Seq(Nat) \cup {NoSection}
      /\ file.dt_versym \in BOOLEAN
      /\ file.names \in Seq(ToSet(file.names))
      /\ file.relocs \in Seq([sym : Nat, table : {"dynsym", "symtab"}])
  OBVIOUS
<1> HIDE FilesAssumption
<1>2. Len(file.names) \in Nat /\ Len(file.relocs) \in Nat
  BY <1>1, LenProperties
<1> QED BY <1>1, <1>2 DEF Has

LEMMA KindOfFile ==
  /\ WellFormed => Kind = "GNU"
  /\ Unversioned => Kind = "unversioned"
<1>1. WellFormed => file.dt_versym
  BY Zenon DEF WellFormed
<1>2. file.dt_versym => Kind = "GNU"
  BY Zenon DEF Kind
<1>3. ~file.dt_versym /\ ~Has(file.verneed) /\ ~Has(file.verdef) => Kind = "unversioned"
  BY Zenon DEF Kind
<1> QED BY <1>1, <1>2, <1>3 DEF Unversioned

\* What _symbol_version answers, case by case.
Internal(index) == Has(file.verdef) /\ index <= Len(file.verdef)
Given(n) == Has(file.versym) /\ ~(n >= Len(file.versym))

LEMMA LookupCases ==
  ASSUME NEW n, NEW raw, raw = file.versym[n + 1], NEW index, index = IndexIn(raw)
  PROVE  /\ ~Given(n) => SymbolVersion(n) = Absent
         /\ Given(n) /\ raw \in Reserved
              => SymbolVersion(n) = Version(raw, NoName, "word", FALSE)
         /\ Given(n) /\ raw \notin Reserved /\ raw \in Unreadable
              => SymbolVersion(n) = Raises
         /\ Given(n) /\ raw \notin Reserved \cup Unreadable /\ Internal(index)
              => SymbolVersion(n) =
                   IF DefsOf(index) = {} THEN Raises
                   ELSE Version(index, <<"def", file.verdef[Min(DefsOf(index))]>>, "def",
                                HiddenIn(raw))
         /\ Given(n) /\ raw \notin Reserved \cup Unreadable /\ ~Internal(index)
              => SymbolVersion(n) =
                   IF ~Has(file.verneed) \/ NeedsOf(index) = {} THEN Raises
                   ELSE Version(index, <<"need", file.verneed[Min(NeedsOf(index))]>>,
                                "need", HiddenIn(raw))
<1>1. ~Given(n) => SymbolVersion(n) = Absent
  BY Zenon DEF SymbolVersion, Given
<1>2. ASSUME Given(n), raw \in Reserved
      PROVE  SymbolVersion(n) = Version(raw, NoName, "word", FALSE)
  <2>1. raw \notin Unreadable
    BY <1>2, SMT DEF Reserved, Unreadable, LoReserve
  <2> QED BY <1>2, <2>1, Zenon DEF SymbolVersion, Given
<1>3. ASSUME Given(n), raw \notin Reserved, raw \in Unreadable
      PROVE  SymbolVersion(n) = Raises
  BY <1>3, Zenon DEF SymbolVersion, Given
<1>4. ASSUME Given(n), raw \notin Reserved \cup Unreadable, Internal(index)
      PROVE  SymbolVersion(n) =
               IF DefsOf(index) = {} THEN Raises
               ELSE Version(index, <<"def", file.verdef[Min(DefsOf(index))]>>, "def",
                            HiddenIn(raw))
  BY <1>4, Zenon DEF SymbolVersion, Given, Internal
<1>5. ASSUME Given(n), raw \notin Reserved \cup Unreadable, ~Internal(index)
      PROVE  SymbolVersion(n) =
               IF ~Has(file.verneed) \/ NeedsOf(index) = {} THEN Raises
               ELSE Version(index, <<"need", file.verneed[Min(NeedsOf(index))]>>, "need",
                            HiddenIn(raw))
  BY <1>5, Zenon DEF SymbolVersion, Given, Internal
<1> QED BY <1>1, <1>2, <1>3, <1>4, <1>5, Zenon

\* The entry that a lookup finds is one of the table.
LEMMA EntryFound ==
  ASSUME file \in Files, NEW index \in Nat
  PROVE  /\ Has(file.verdef) /\ DefsOf(index) # {}
              => file.verdef[Min(DefsOf(index))] = index
         /\ Has(file.verneed) /\ NeedsOf(index) # {}
              => file.verneed[Min(NeedsOf(index))] = index
<1>1. ASSUME Has(file.verdef), DefsOf(index) # {}
      PROVE  file.verdef[Min(DefsOf(index))] = index
  <2>1. DOMAIN file.verdef = 1..Len(file.verdef) /\ Len(file.verdef) \in Nat
    BY <1>1, FileTypes, LenProperties
  <2>2. DefsOf(index) \in SUBSET Nat
    BY <2>1 DEF DefsOf
  <2>3. Min(DefsOf(index)) \in DefsOf(index)
    BY <1>1, <2>2, MinOf
  <2> QED BY <2>3, Zenon DEF DefsOf
<1>2. ASSUME Has(file.verneed), NeedsOf(index) # {}
      PROVE  file.verneed[Min(NeedsOf(index))] = index
  <2>1. DOMAIN file.verneed = 1..Len(file.verneed) /\ Len(file.verneed) \in Nat
    BY <1>2, FileTypes, LenProperties
  <2>2. NeedsOf(index) \in SUBSET Nat
    BY <2>1 DEF NeedsOf
  <2>3. Min(NeedsOf(index)) \in NeedsOf(index)
    BY <1>2, <2>2, MinOf
  <2> QED BY <2>3, Zenon DEF NeedsOf
<1> QED BY <1>1, <1>2

\* Whatever the file, a version that is found is that of an entry or of none.
Found(version) ==
  \E index \in Nat, name \in EntryNames, from \in {"word", "def", "need"},
     hidden \in BOOLEAN : version = Version(index, name, from, hidden)

LEMMA LookupTypes ==
  ASSUME file \in Files, NEW n \in Nat
  PROVE  \/ SymbolVersion(n) = Absent
         \/ SymbolVersion(n) = Raises
         \/ Found(SymbolVersion(n))
<1> HIDE FilesAssumption
<1>1. CASE ~Given(n)
  BY <1>1, LookupCases, Zenon
<1>2. CASE Given(n)
  <2>1. file.versym \in Seq(Nat) /\ Len(file.versym) \in Nat
    BY <1>2, FileTypes, LenProperties DEF Given
  <2>2. n + 1 \in 1..Len(file.versym)
    BY <1>2, <2>1 DEF Given
  <2>3. PICK raw \in Nat : raw = file.versym[n + 1]
    BY <2>1, <2>2, ElementOfSeq
  <2>4. PICK index \in Nat : index = IndexIn(raw)
    BY DEF IndexIn, HiddenBit
  <2>5. HiddenIn(raw) \in BOOLEAN /\ FALSE \in BOOLEAN
    BY DEF HiddenIn
  <2>6. /\ NoName \in EntryNames
        /\ <<"def", index>> \in EntryNames /\ <<"need", index>> \in EntryNames
    BY DEF EntryNames
  <2>7. CASE raw \in Reserved
    <3>1. SymbolVersion(n) = Version(raw, NoName, "word", FALSE)
      BY <1>2, <2>3, <2>4, <2>7, LookupCases, Zenon
    <3> QED BY <2>3, <2>5, <2>6, <3>1, Zenon DEF Found
  <2>8. CASE raw \notin Reserved /\ raw \in Unreadable
    BY <1>2, <2>3, <2>4, <2>8, LookupCases, Zenon
  <2>9. CASE raw \notin Reserved \cup Unreadable /\ Internal(index)
    <3>1. SymbolVersion(n) =
            IF DefsOf(index) = {} THEN Raises
            ELSE Version(index, <<"def", file.verdef[Min(DefsOf(index))]>>, "def",
                         HiddenIn(raw))
      BY <1>2, <2>3, <2>4, <2>9, LookupCases, Zenon
    <3>2. DefsOf(index) # {} => file.verdef[Min(DefsOf(index))] = index
      BY <2>9, EntryFound DEF Internal
    <3> QED BY <2>4, <2>5, <2>6, <3>1, <3>2, Zenon DEF Found
  <2>10. CASE raw \notin Reserved \cup Unreadable /\ ~Internal(index)
    <3>1. SymbolVersion(n) =
            IF ~Has(file.verneed) \/ NeedsOf(index) = {} THEN Raises
            ELSE Version(index, <<"need", file.verneed[Min(NeedsOf(index))]>>, "need",
                         HiddenIn(raw))
      BY <1>2, <2>3, <2>4, <2>10, LookupCases, Zenon
    <3>2. Has(file.verneed) /\ NeedsOf(index) # {}
            => file.verneed[Min(NeedsOf(index))] = index
      BY EntryFound
    <3> QED BY <2>4, <2>5, <2>6, <3>1, <3>2, Zenon DEF Found
  <2> QED BY <2>7, <2>8, <2>9, <2>10, Zenon
<1> QED BY <1>1, <1>2

\* The tables of a file that a linker writes: definitions up to a number, needs
\* above it, and in one of them the number of every symbol.
LEMMA LinkedTables ==
  ASSUME file \in Files, WellFormed, NEW n \in Nat, n < Len(file.versym),
         NEW raw, raw = file.versym[n + 1], raw \notin Reserved
  PROVE  /\ raw \in Nat /\ raw \notin Unreadable
         /\ \E index \in Nat :
              /\ index = raw % HiddenBit /\ index \notin Reserved
              /\ Internal(index) => DefsOf(index) # {}
              /\ ~Internal(index) => /\ Has(file.verneed) /\ NeedsOf(index) # {}
                                     /\ Has(file.verdef) => DefsOf(index) = {}
<1> HIDE FilesAssumption
<1> DEFINE defs == Numbers(file.verdef)
           needs == Numbers(file.verneed)
<1>1. /\ Has(file.versym)
      /\ Has(file.verdef) => defs = 1..Len(file.verdef)
      /\ \A need \in needs : need > Max(defs \cup {1})
      /\ \A r \in ToSet(file.versym) :
           r \in Reserved \/ (r < LoReserve /\ r % HiddenBit \in (defs \cup needs) \ {1})
  BY Zenon DEF WellFormed
<1>2. /\ file.versym \in Seq(Nat) /\ Len(file.versym) \in Nat
      /\ DOMAIN file.versym = 1..Len(file.versym)
      /\ Has(file.verdef) => /\ file.verdef \in Seq(Nat) /\ Len(file.verdef) \in Nat
                             /\ DOMAIN file.verdef = 1..Len(file.verdef)
      /\ Has(file.verneed) => /\ file.verneed \in Seq(Nat)
                              /\ DOMAIN file.verneed = 1..Len(file.verneed)
                              /\ \A k \in DOMAIN file.verneed : file.verneed[k] \in Nat
  <2>1. /\ file.versym \in Seq(Nat)
        /\ Has(file.verdef) => file.verdef \in Seq(Nat)
        /\ Has(file.verneed) => file.verneed \in Seq(Nat)
    BY <1>1, FileTypes, Zenon
  <2>2. \A s \in Seq(Nat) : /\ Len(s) \in Nat /\ DOMAIN s = 1..Len(s)
                            /\ \A k \in DOMAIN s : s[k] \in Nat
    OBVIOUS
  <2> QED BY <2>1, <2>2, Zenon
<1>3. n + 1 \in DOMAIN file.versym
  BY <1>2
<1>4. raw \in Nat /\ raw \in ToSet(file.versym)
  BY <1>2, <1>3 DEF ToSet
<1>5. raw < LoReserve /\ raw % HiddenBit \in (defs \cup needs) \ {1}
  BY <1>1, <1>4, Zenon
<1>6. PICK index \in Nat : index = raw % HiddenBit
  BY <1>4, SMT DEF HiddenBit
<1>7. raw \notin Unreadable
  BY <1>4, <1>5, SMT DEF Unreadable, LoReserve
<1>8. PICK top \in Nat :
        /\ top >= 1 /\ top = Max(defs \cup {1})
        /\ \A d \in defs : d \in Nat /\ d >= 1 /\ d <= top
        /\ Has(file.verdef) => Len(file.verdef) <= top
  <2>1. CASE Has(file.verdef) /\ Len(file.verdef) >= 1
    <3>1. defs = 1..Len(file.verdef) /\ Len(file.verdef) \in Nat
      BY <1>1, <1>2, <2>1
    <3> HIDE DEF defs
    <3>2. defs \cup {1} \in SUBSET Nat /\ Len(file.verdef) \in defs \cup {1}
          /\ \A y \in defs \cup {1} : y <= Len(file.verdef)
      BY <2>1, <3>1
    <3>3. Max(defs \cup {1}) = Len(file.verdef)
      BY <3>2, MaxIs
    <3> QED BY <2>1, <3>1, <3>3
  <2>2. CASE ~(Has(file.verdef) /\ Len(file.verdef) >= 1)
    <3>1. defs = {}
      <4>1. ~Has(file.verdef) => defs = {}
        BY DEF Numbers
      <4> HIDE DEF defs
      <4> QED BY <1>1, <1>2, <2>2, <4>1
    <3>2. defs \cup {1} \in SUBSET Nat /\ 1 \in defs \cup {1}
          /\ \A y \in defs \cup {1} : y <= 1
      BY <3>1
    <3>3. Max(defs \cup {1}) = 1
      <4> HIDE DEF defs
      <4> QED BY <3>2, MaxIs
    <3> HIDE DEF defs
    <3> QED BY <1>2, <2>2, <3>1, <3>3
  <2> QED BY <2>1, <2>2
<1>9. \A need \in needs : need \in Nat /\ need > top
  <2>1. \A need \in needs : need \in Nat
    BY <1>2 DEF ToSet, Numbers
  <2>2. \A need \in needs : need > top
    BY <1>1, <1>8, Zenon
  <2> QED BY <2>1, <2>2, Zenon
<1>10. index \notin Reserved /\ (index \in defs \/ index \in needs)
  <2>1. index # 1 /\ (index \in defs \/ index \in needs)
    BY <1>5, <1>6, Zenon
  <2>2. index >= 1
    <3> HIDE DEF needs, defs
    <3>1. index \in defs => index >= 1
      BY <1>8
    <3>2. index \in needs => index > top
      BY <1>9
    <3> QED BY <1>8, <2>1, <3>1, <3>2
  <2>3. index \notin Reserved
    BY <2>1, <2>2, SMT DEF Reserved
  <2> QED BY <2>1, <2>3, Zenon
<1>11. ASSUME Internal(index) PROVE DefsOf(index) # {}
  <2>1. index \in defs
    <3>1. Len(file.verdef) <= top /\ index <= Len(file.verdef)
      <4>1. Has(file.verdef) /\ index <= Len(file.verdef)
        BY <1>11, Zenon DEF Internal
      <4>2. Has(file.verdef) => Len(file.verdef) <= top
        BY <1>8, Zenon
      <4> QED BY <4>1, <4>2, Zenon
    <3>2. index \in needs => index > top
      BY <1>9, Zenon
    <3> HIDE DEF needs, defs
    <3>3. Len(file.verdef) \in Nat
      BY <1>2, <1>11 DEF Internal
    <3> QED BY <1>8, <1>10, <3>1, <3>2, <3>3
  <2> QED BY <2>1, <1>11, Zenon DEF ToSet, DefsOf, Numbers, Internal
<1>12. ASSUME ~Internal(index)
       PROVE  /\ Has(file.verneed) /\ NeedsOf(index) # {}
              /\ Has(file.verdef) => DefsOf(index) = {}
  <2>1. index \notin defs
    <3>1. CASE Has(file.verdef)
      <4>1. ~(index <= Len(file.verdef)) /\ defs = 1..Len(file.verdef)
        BY <1>1, <1>12, <3>1, Zenon DEF Internal
      <4> HIDE DEF defs
      <4> QED BY <4>1
    <3>2. CASE ~Has(file.verdef)
      BY <3>2, Zenon DEF Numbers
    <3> QED BY <3>1, <3>2
  <2>2. index \in needs
    BY <1>10, <2>1, Zenon
  <2>3. Has(file.verneed) /\ NeedsOf(index) # {}
    BY <2>2, Zenon DEF ToSet, NeedsOf, Numbers
  <2>4. Has(file.verdef) => DefsOf(index) = {}
    BY <2>1, Zenon DEF ToSet, DefsOf, Numbers
  <2> QED BY <2>3, <2>4
<1> QED
  BY <1>4, <1>6, <1>7, <1>10, <1>11, <1>12, Zenon

LEMMA EntryCases ==
  ASSUME NEW n, NEW number, number = file.versym[n + 1] % HiddenBit
  PROVE  /\ number \in Reserved => EntryOf(n) = NoName
         /\ number \notin Reserved /\ Has(file.verdef) /\ DefsOf(number) # {}
              => EntryOf(n) = <<"def", number>>
         /\ number \notin Reserved /\ ~(Has(file.verdef) /\ DefsOf(number) # {})
              => EntryOf(n) = <<"need", number>>
<1>1. number \in Reserved => EntryOf(n) = NoName
  BY Zenon DEF EntryOf
<1>2. number \notin Reserved /\ Has(file.verdef) /\ DefsOf(number) # {}
        => EntryOf(n) = <<"def", number>>
  BY Zenon DEF EntryOf
<1>3. number \notin Reserved /\ ~(Has(file.verdef) /\ DefsOf(number) # {})
        => EntryOf(n) = <<"need", number>>
  BY Zenon DEF EntryOf
<1> QED BY <1>1, <1>2, <1>3

\* On such a file a symbol's version is the entry with its number.
RightVersion(n, version) ==
  /\ version.found = "found" /\ version.name = EntryOf(n)
  /\ version.hidden <=> file.versym[n + 1] >= HiddenBit
  /\ \/ EntryOf(n) = NoName /\ version.from = "word"
     \/ \E number \in Nat, table \in {"def", "need"} :
          EntryOf(n) = <<table, number>> /\ version.from = table

LEMMA LookupIsEntry ==
  ASSUME file \in Files, WellFormed, NEW n \in Nat, n < Len(file.versym)
  PROVE  RightVersion(n, SymbolVersion(n))
<1> HIDE FilesAssumption
<1>1. /\ Has(file.versym) /\ Kind = "GNU" /\ file.versym \in Seq(Nat)
      /\ Len(file.versym) \in Nat
  <2>1. Has(file.versym)
    BY Zenon DEF WellFormed
  <2> QED BY <2>1, KindOfFile, FileTypes, LenProperties
<1>2. n + 1 \in 1..Len(file.versym) /\ Given(n)
  BY <1>1 DEF Given
<1>3. PICK raw \in Nat : raw = file.versym[n + 1]
  BY <1>1, <1>2, ElementOfSeq
<1>4. HiddenIn(raw) <=> raw >= HiddenBit
  BY <1>1, Zenon DEF HiddenIn
<1>5. IndexIn(raw) = raw % HiddenBit
  BY <1>1, Zenon DEF IndexIn
<1>6. CASE raw \in Reserved
  <2>1. SymbolVersion(n) = Version(raw, NoName, "word", FALSE)
    BY <1>2, <1>3, <1>6, LookupCases, Zenon
  <2>2. raw % HiddenBit \in Reserved /\ ~(raw >= HiddenBit)
    BY <1>6, SMT DEF Reserved, HiddenBit
  <2>3. EntryOf(n) = NoName
    BY <1>3, <2>2, EntryCases, Zenon
  <2> DEFINE version == SymbolVersion(n)
  <2>4. /\ version.found = "found" /\ version.name = NoName
        /\ version.from = "word" /\ version.hidden = FALSE
    BY <2>1, SMT DEF Version
  <2> HIDE DEF version
  <2>5. version.hidden <=> file.versym[n + 1] >= HiddenBit
    BY <1>3, <2>2, <2>4, Zenon
  <2>6. RightVersion(n, version)
    BY <2>3, <2>4, <2>5, Zenon DEF RightVersion
  <2> QED BY <2>6, Zenon DEF version
<1>7. CASE raw \notin Reserved
  <2>1. raw \notin Unreadable
    BY <1>3, <1>7, LinkedTables, Zenon
  <2>2. PICK index \in Nat :
          /\ index = raw % HiddenBit /\ index \notin Reserved
          /\ Internal(index) => DefsOf(index) # {}
          /\ ~Internal(index) => /\ Has(file.verneed) /\ NeedsOf(index) # {}
                                 /\ Has(file.verdef) => DefsOf(index) = {}
    BY <1>3, <1>7, LinkedTables, Zenon
  <2>3. CASE Internal(index)
    <3>1. SymbolVersion(n) =
            Version(index, <<"def", file.verdef[Min(DefsOf(index))]>>, "def", HiddenIn(raw))
      BY <1>2, <1>3, <1>5, <1>7, <2>1, <2>2, <2>3, LookupCases, Zenon
    <3>2. EntryOf(n) = <<"def", index>>
      BY <1>3, <2>2, <2>3, EntryCases, Zenon DEF Internal
    <3>3. file.verdef[Min(DefsOf(index))] = index
      BY <2>2, <2>3, EntryFound, Zenon DEF Internal
    <3> DEFINE version == SymbolVersion(n)
    <3>4. version = Version(index, <<"def", index>>, "def", HiddenIn(raw))
      BY <3>1, <3>3, Zenon
    <3>5. /\ version.found = "found" /\ version.name = <<"def", index>>
          /\ version.from = "def" /\ version.hidden = HiddenIn(raw)
      BY <3>4, SMT DEF Version
    <3> HIDE DEF version
    <3>6. version.hidden <=> file.versym[n + 1] >= HiddenBit
      BY <1>3, <1>4, <3>5, Zenon
    <3>7. RightVersion(n, version)
      BY <3>2, <3>5, <3>6, Zenon DEF RightVersion
    <3> QED BY <3>7, Zenon DEF version
  <2>4. CASE ~Internal(index)
    <3>1. SymbolVersion(n) =
            Version(index, <<"need", file.verneed[Min(NeedsOf(index))]>>, "need",
                    HiddenIn(raw))
      BY <1>2, <1>3, <1>5, <1>7, <2>1, <2>2, <2>4, LookupCases, Zenon
    <3>2. EntryOf(n) = <<"need", index>>
      BY <1>3, <2>2, <2>4, EntryCases, Zenon
    <3>3. file.verneed[Min(NeedsOf(index))] = index
      BY <2>2, <2>4, EntryFound, Zenon
    <3> DEFINE version == SymbolVersion(n)
    <3>4. version = Version(index, <<"need", index>>, "need", HiddenIn(raw))
      BY <3>1, <3>3, Zenon
    <3>5. /\ version.found = "found" /\ version.name = <<"need", index>>
          /\ version.from = "need" /\ version.hidden = HiddenIn(raw)
      BY <3>4, SMT DEF Version
    <3> HIDE DEF version
    <3>6. version.hidden <=> file.versym[n + 1] >= HiddenBit
      BY <1>3, <1>4, <3>5, Zenon
    <3>7. RightVersion(n, version)
      BY <3>2, <3>5, <3>6, Zenon DEF RightVersion
    <3> QED BY <3>7, Zenon DEF version
  <2> QED BY <2>3, <2>4
<1> QED BY <1>6, <1>7

-----------------------------------------------------------------------------
(* Types. *)

LEMMA DisplayNames ==
  /\ Displays = {"symbols", "relocs", "versions"}
  /\ \A d \in Displays : Order[d] \in Nat
<1>1. Displays = {"symbols", "relocs", "versions"}
  BY DEF Displays, Order
<1>2. \A d \in {"symbols", "relocs", "versions"} : Order[d] \in Nat
  BY DEF Order
<1> QED BY <1>1, <1>2

LEMMA InitTypes == Init => TypeInv
<1> HIDE FilesAssumption
<1> SUFFICES ASSUME Init PROVE TypeInv
  OBVIOUS
<1>1. file \in Files /\ pos \in Nat /\ out \in Seq(Lines) /\ raised \in BOOLEAN
  BY EmptySeq DEF Init
<1>2. PICK m \in 0..3 : todo \in [1..m -> Displays]
  <2>1. todo \in BoundedSeq(Displays, 3)
    BY Zenon DEF Init
  <2>2. todo \in UNION {[1..m -> Displays] : m \in 0..3}
    BY <2>1, Zenon DEF BoundedSeq, SeqOf
  <2> QED BY <2>2
<1>3. todo \in Seq(Displays) /\ DOMAIN todo = 1..m /\ Len(todo) = m
  BY <1>2
<1>4. \A i, j \in 1..m : i < j => Order[todo[i]] < Order[todo[j]]
  BY <1>3, Zenon DEF Init
<1>5. ASSUME NEW i \in 1..Len(todo), NEW j \in 1..Len(todo), todo[i] = todo[j]
      PROVE  i = j
  <2>1. Order[todo[i]] \in Nat /\ Order[todo[j]] \in Nat
    BY <1>2, <1>3, DisplayNames
  <2>2. ~(i < j) /\ ~(j < i)
    BY <1>3, <1>4, <1>5, <2>1
  <2> QED BY <1>3, <2>2
<1> QED BY <1>1, <1>3, <1>5 DEF TypeInv

\* The line that a step adds.
LineOf(sym, name, mark) ==
  [display |-> Head(todo), sym |-> sym, name |-> name, mark |-> mark]

Adds(sym, name, mark) ==
  ~raised /\ todo # <<>> /\ Show(sym, name, mark)

\* A step raises, adds a line or ends a display.
LEMMA StepCases ==
  ASSUME TypeInv, [Next]_vars
  PROVE  \/ UNCHANGED vars
         \/ ~raised /\ Raise
         \/ \E sym \in Nat, name \in EntryNames, mark \in Marks : Adds(sym, name, mark)
         \/ ~raised /\ todo # <<>> /\ NextDisplay
<1> HIDE FilesAssumption
<1>1. file \in Files /\ pos \in Nat
  BY DEF TypeInv
<1>2. NoName \in EntryNames
  BY DEF EntryNames
<1>3. \A m \in {"nothing", "plain", "external", "hidden", "default"} : m \in Marks
  BY DEF Marks
<1>4. ASSUME NEW n \in Nat, SymbolVersion(n).found = "found"
      PROVE  /\ SymbolVersion(n).name \in EntryNames
             /\ SymbolVersion(n).from \in {"word", "def", "need"}
             /\ SymbolVersion(n).hidden \in BOOLEAN
  <2>1. SymbolVersion(n) # Absent /\ SymbolVersion(n) # Raises
    BY <1>4 DEF Absent, Raises
  <2>2. Found(SymbolVersion(n))
    BY <1>1, <2>1, LookupTypes, Zenon
  <2>3. PICK index \in Nat, name \in EntryNames, from \in {"word", "def", "need"},
             hidden \in BOOLEAN : SymbolVersion(n) = Version(index, name, from, hidden)
    BY <2>2, Zenon DEF Found
  <2> QED BY <2>3 DEF Version
<1>5. CASE SymbolLine
  <2> DEFINE version == SymbolVersion(pos)
             name == file.names[pos + 1]
  <2>1. CASE Kind # "GNU" /\ Show(pos, NoName, "nothing")
    BY <1>1, <1>2, <1>3, <1>5, <2>1, Zenon DEF SymbolLine, Runs, Adds
  <2>2. CASE Kind = "GNU" /\ version.found # "found" /\ Raise
    BY <1>5, <2>2, Zenon DEF SymbolLine, Runs
  <2>3. CASE /\ version.found = "found"
             /\ Show(pos,
                     IF Suffix(version, name) = "nothing" THEN NoName ELSE version.name,
                     Suffix(version, name))
    <3>1. version.name \in EntryNames /\ version.from \in {"word", "def", "need"}
          /\ version.hidden \in BOOLEAN
      BY <1>1, <1>4, <2>3
    <3> HIDE DEF version, name
    <3>2. Suffix(version, name) \in Marks
      <4>1. CASE version.name = name \/ version.from = "word"
        BY <1>3, <4>1, Zenon DEF Suffix
      <4>2. CASE version.name # name /\ version.from = "need"
        <5>1. version.from # "word" /\ version.from # "def"
          BY <4>2
        <5> QED BY <1>3, <4>2, <5>1, Zenon DEF Suffix
      <4>3. CASE version.name # name /\ version.from = "def"
        <5>1. version.from # "word" /\ version.from # "need"
          BY <4>3
        <5> QED BY <1>3, <4>3, <5>1, Zenon DEF Suffix
      <4> QED BY <3>1, <4>1, <4>2, <4>3
    <3>3. (IF Suffix(version, name) = "nothing" THEN NoName ELSE version.name)
            \in EntryNames
      BY <1>2, <3>1
    <3> QED BY <1>1, <1>5, <2>3, <3>2, <3>3, Zenon DEF SymbolLine, Runs, Adds
  <2> QED BY <1>5, <2>1, <2>2, <2>3, Zenon DEF SymbolLine
<1>6. CASE RelocLine
  <2> DEFINE rel == file.relocs[pos + 1]
             version == SymbolVersion(rel.sym)
  <2>1. rel \in [sym : Nat, table : {"dynsym", "symtab"}]
    <3>1. /\ file.relocs \in Seq([sym : Nat, table : {"dynsym", "symtab"}])
          /\ Len(file.relocs) \in Nat
      BY <1>1, FileTypes
    <3>2. pos + 1 \in 1..Len(file.relocs)
      BY <1>1, <1>6, <3>1 DEF RelocLine
    <3> QED BY <3>1, <3>2, ElementOfSeq
  <2>2. rel.sym \in Nat
    BY <2>1
  <2>3. CASE Show(rel.sym, NoName, "plain")
    BY <1>2, <1>3, <1>6, <2>2, <2>3, Zenon DEF RelocLine, Runs, Adds
  <2>4. CASE Raise
    BY <1>6, <2>4, Zenon DEF RelocLine, Runs
  <2>5. CASE Show(rel.sym,
                  IF version.found = "found" THEN version.name ELSE NoName, "plain")
    <3>1. (IF version.found = "found" THEN version.name ELSE NoName) \in EntryNames
      BY <1>2, <1>4, <2>2, Zenon
    <3> QED BY <1>3, <1>6, <2>2, <2>5, <3>1, Zenon DEF RelocLine, Runs, Adds
  <2> QED BY <1>6, <2>3, <2>4, <2>5, Zenon DEF RelocLine
<1>7. CASE VersionLine
  <2> DEFINE version == SymbolVersion(pos)
  <2>1. CASE Raise
    BY <1>7, <2>1, Zenon DEF VersionLine, Runs
  <2>2. CASE /\ version.found = "found"
             /\ Show(pos, version.name, IF version.hidden THEN "hidden" ELSE "plain")
    <3>1. version.name \in EntryNames
      BY <1>1, <1>4, <2>2, Zenon
    <3>2. (IF version.hidden THEN "hidden" ELSE "plain") \in Marks
      BY <1>3, Zenon
    <3> QED BY <1>1, <1>7, <2>2, <3>1, <3>2, Zenon DEF VersionLine, Runs, Adds
  <2> QED BY <1>7, <2>1, <2>2, Zenon DEF VersionLine
<1>8. CASE SymbolsEnd \/ RelocsEnd \/ VersionsEnd
  BY <1>8, Zenon DEF SymbolsEnd, RelocsEnd, VersionsEnd, Runs
<1>9. CASE Finished \/ UNCHANGED vars
  BY <1>9, Zenon DEF Finished
<1> QED BY <1>5, <1>6, <1>7, <1>8, <1>9, Zenon DEF Next

LEMMA NextTypes == TypeInv /\ [Next]_vars => TypeInv'
<1> HIDE FilesAssumption
<1> SUFFICES ASSUME TypeInv, [Next]_vars PROVE TypeInv'
  OBVIOUS
<1>1. CASE UNCHANGED vars
  BY <1>1 DEF TypeInv, vars
<1>2. CASE Raise
  BY <1>2 DEF TypeInv, Raise
<1>3. ASSUME NEW sym \in Nat, NEW name \in EntryNames, NEW mark \in Marks,
             Adds(sym, name, mark)
      PROVE  TypeInv'
  <2>1. todo # <<>> /\ todo \in Seq(Displays)
    BY <1>3 DEF Adds, TypeInv
  <2>2. Head(todo) \in Displays
    BY <2>1
  <2>3. LineOf(sym, name, mark) \in Lines
    BY <2>2 DEF LineOf, Lines
  <2>4. Append(out, LineOf(sym, name, mark)) \in Seq(Lines)
    BY <2>3, AppendProperties DEF TypeInv
  <2>5. out' \in Seq(Lines) /\ pos' = pos + 1 /\ UNCHANGED <<file, todo, raised>>
    BY <1>3, <2>4, Zenon DEF Adds, Show, LineOf
  <2> QED BY <2>5 DEF TypeInv
<1>4. CASE todo # <<>> /\ NextDisplay
  <2>1. todo \in Seq(Displays) /\ todo # <<>> /\ Len(todo) \in Nat
    BY <1>4 DEF TypeInv
  <2>2. /\ Tail(todo) \in Seq(Displays) /\ Len(Tail(todo)) = Len(todo) - 1
        /\ \A i \in 1..Len(Tail(todo)) : Tail(todo)[i] = todo[i + 1]
    BY <2>1, HeadTailProperties
  <2>3. \A i, j \in 1..Len(Tail(todo)) : Tail(todo)[i] = Tail(todo)[j] => i = j
    BY <2>1, <2>2 DEF TypeInv
  <2>4. todo' = Tail(todo) /\ pos' = 0 /\ UNCHANGED <<file, out, raised>>
    BY <1>4, Zenon DEF NextDisplay
  <2> QED BY <2>2, <2>3, <2>4 DEF TypeInv
<1> QED BY <1>1, <1>2, <1>3, <1>4, StepCases, Zenon

-----------------------------------------------------------------------------
(* How many lines each display has printed. *)

LEMMA OneMoreLine ==
  ASSUME NEW lines \in Seq(Lines), NEW line, NEW d
  PROVE  /\ Cardinality(LinesOf(lines, d)) \in Nat
         /\ line.display = d => Cardinality(LinesOf(Append(lines, line), d))
                                  = Cardinality(LinesOf(lines, d)) + 1
         /\ line.display # d => LinesOf(Append(lines, line), d) = LinesOf(lines, d)
<1> HIDE FilesAssumption
<1> DEFINE more == Append(lines, line)
<1>1. Len(lines) \in Nat /\ DOMAIN lines = 1..Len(lines)
  BY LenProperties
<1>2. /\ DOMAIN more = 1..(Len(lines) + 1)
      /\ \A k \in 1..Len(lines) : more[k] = lines[k]
      /\ more[Len(lines) + 1] = line
  BY <1>1
<1> HIDE DEF more
<1>3. IsFiniteSet(LinesOf(lines, d)) /\ Len(lines) + 1 \notin LinesOf(lines, d)
  <2>1. IsFiniteSet(1..Len(lines))
    BY <1>1, FS_Interval
  <2>2. LinesOf(lines, d) \subseteq 1..Len(lines)
    BY <1>1 DEF LinesOf
  <2> QED BY <1>1, <2>1, <2>2, FS_Subset
<1>4. line.display = d => LinesOf(more, d) = LinesOf(lines, d) \cup {Len(lines) + 1}
  BY <1>1, <1>2 DEF LinesOf
<1>5. line.display # d => LinesOf(more, d) = LinesOf(lines, d)
  BY <1>1, <1>2 DEF LinesOf
<1>6. Cardinality(LinesOf(lines, d)) \in Nat
  BY <1>3, FS_CardinalityType
<1>7. Cardinality(LinesOf(lines, d) \cup {Len(lines) + 1})
        = Cardinality(LinesOf(lines, d)) + 1
  BY <1>3, FS_AddElement
<1> QED BY <1>4, <1>5, <1>6, <1>7, Zenon DEF more

LEMMA InitCount == Init => CountInv
<1>1. Init => \A d : LinesOf(out, d) = {}
  BY DEF Init, LinesOf
<1> QED BY <1>1, FS_EmptySet DEF Init, CountInv

LEMMA NextCount == TypeInv /\ CountInv /\ [Next]_vars => CountInv'
<1> HIDE FilesAssumption
<1> SUFFICES ASSUME TypeInv, CountInv, [Next]_vars PROVE CountInv'
  OBVIOUS
<1>1. CASE UNCHANGED vars
  BY <1>1 DEF CountInv, vars
<1>2. CASE Raise
  BY <1>2 DEF CountInv, Raise
<1>3. ASSUME NEW sym \in Nat, NEW name \in EntryNames, NEW mark \in Marks,
             Adds(sym, name, mark)
      PROVE  CountInv'
  <2>1. todo # <<>> /\ todo \in Seq(Displays) /\ out \in Seq(Lines) /\ Len(todo) \in Nat
    BY <1>3 DEF Adds, TypeInv
  <2>2. PICK line : line = LineOf(sym, name, mark)
    OBVIOUS
  <2>3. line.display = todo[1]
    BY <2>1, <2>2 DEF LineOf
  <2>4. out' = Append(out, line) /\ pos' = pos + 1 /\ todo' = todo
    BY <1>3, <2>2, Zenon DEF Adds, Show, LineOf
  <2>5. Cardinality(LinesOf(out, todo[1])) = pos
    BY <2>1 DEF CountInv
  <2>6. Cardinality(LinesOf(out', todo[1])) = pos + 1
    BY <2>1, <2>3, <2>4, <2>5, OneMoreLine
  <2>7. ASSUME NEW i \in 2..Len(todo)
        PROVE  LinesOf(out', todo[i]) = {}
    <3>1. todo[i] # todo[1]
      BY <2>1 DEF TypeInv
    <3>2. LinesOf(out', todo[i]) = LinesOf(out, todo[i])
      BY <2>1, <2>3, <2>4, <3>1, OneMoreLine, Zenon
    <3> QED BY <3>2 DEF CountInv
  <2> QED BY <2>4, <2>6, <2>7 DEF CountInv
<1>4. CASE todo # <<>> /\ NextDisplay
  <2>1. todo \in Seq(Displays) /\ todo # <<>> /\ Len(todo) \in Nat
    BY <1>4 DEF TypeInv
  <2>2. /\ Tail(todo) \in Seq(Displays) /\ Len(Tail(todo)) = Len(todo) - 1
        /\ \A i \in 1..Len(Tail(todo)) : Tail(todo)[i] = todo[i + 1]
    BY <2>1, HeadTailProperties
  <2>3. \A i \in 1..Len(Tail(todo)) : LinesOf(out, Tail(todo)[i]) = {}
    <3>1. ASSUME NEW i \in 1..Len(Tail(todo))
          PROVE  LinesOf(out, Tail(todo)[i]) = {}
      <4>1. i + 1 \in 2..Len(todo) /\ Tail(todo)[i] = todo[i + 1]
        BY <2>1, <2>2
      <4>2. \A j \in 2..Len(todo) : LinesOf(out, todo[j]) = {}
        BY Zenon DEF CountInv
      <4> QED BY <4>1, <4>2
    <3> QED BY <3>1
  <2>4. Tail(todo) # <<>> => 1 \in 1..Len(Tail(todo))
    BY <2>2
  <2>5. todo' = Tail(todo) /\ pos' = 0 /\ out' = out
    BY <1>4, Zenon DEF NextDisplay
  <2>6. Tail(todo) # <<>> => Cardinality(LinesOf(out, Tail(todo)[1])) = 0
    BY <2>3, <2>4, FS_EmptySet
  <2>7. \A i \in 2..Len(Tail(todo)) : LinesOf(out, Tail(todo)[i]) = {}
    <3>1. \A i \in 2..Len(Tail(todo)) : i \in 1..Len(Tail(todo))
      OBVIOUS
    <3> QED BY <2>3, <3>1, Zenon
  <2> QED BY <2>5, <2>6, <2>7, Zenon DEF CountInv
<1> QED BY <1>1, <1>2, <1>3, <1>4, StepCases, Zenon

-----------------------------------------------------------------------------
(* What is printed on a file that a linker writes. *)

\* Unversioned, every lookup answers None.
LEMMA NoVersions ==
  ASSUME Unversioned, NEW n
  PROVE  SymbolVersion(n) = Absent
<1>1. ~Has(file.versym)
  BY Zenon DEF Unversioned
<1> QED BY <1>1, Zenon DEF SymbolVersion

\* On such a file no step raises.
LEMMA NoRaise ==
  ASSUME TypeInv, Next, WellFormed \/ Unversioned, ~raised
  PROVE  ~raised'
<1> HIDE FilesAssumption
<1>1. file \in Files /\ pos \in Nat
  BY DEF TypeInv
<1>2. Absent.found = "absent"
  BY DEF Absent
<1>3. ASSUME NEW n \in Nat PROVE SymbolVersion(n).found # "raises"
  <2>1. CASE Unversioned
    <3>1. SymbolVersion(n).found = "absent"
      BY <1>2, <2>1, NoVersions, Zenon
    <3> QED BY <3>1
  <2>2. CASE WellFormed /\ n < Len(file.versym)
    <3>1. SymbolVersion(n).found = "found"
      BY <1>1, <2>2, LookupIsEntry, Zenon DEF RightVersion
    <3> QED BY <3>1
  <2>3. CASE WellFormed /\ ~(n < Len(file.versym))
    <3>1. Has(file.versym)
      BY <2>3, Zenon DEF WellFormed
    <3>2. Len(file.versym) \in Nat
      BY <1>1, <3>1, FileTypes, LenProperties
    <3>3. n >= Len(file.versym)
      BY <2>3, <3>2
    <3>4. SymbolVersion(n) = Absent
      BY <3>3, Zenon DEF SymbolVersion
    <3>5. SymbolVersion(n).found = "absent"
      BY <1>2, <3>4, Zenon
    <3> QED BY <3>5
  <2> QED BY <2>1, <2>2, <2>3
<1>4. CASE SymbolLine
  <2>1. Kind = "GNU" => SymbolVersion(pos).found = "found"
    <3>1. CASE Unversioned
      BY <3>1, KindOfFile
    <3>2. CASE WellFormed
      <4>1. pos < Len(file.names) /\ Len(file.versym) = Len(file.names)
        BY <1>4, <3>2, Zenon DEF SymbolLine, WellFormed
      <4>2. pos < Len(file.versym)
        BY <4>1, Zenon
      <4> QED BY <1>1, <3>2, <4>2, LookupIsEntry, Zenon DEF RightVersion
    <3> QED BY <3>1, <3>2
  <2> QED BY <1>4, <2>1, Zenon DEF SymbolLine, Show
<1>5. CASE RelocLine
  <2> DEFINE rel == file.relocs[pos + 1]
  <2>1. rel \in [sym : Nat, table : {"dynsym", "symtab"}]
    <3>1. /\ file.relocs \in Seq([sym : Nat, table : {"dynsym", "symtab"}])
          /\ Len(file.relocs) \in Nat
      BY <1>1, FileTypes
    <3>2. pos + 1 \in 1..Len(file.relocs)
      BY <1>1, <1>5, <3>1 DEF RelocLine
    <3> QED BY <3>1, <3>2, ElementOfSeq
  <2>2. SymbolVersion(rel.sym).found # "raises"
    <3>1. rel.sym \in Nat
      BY <2>1
    <3> QED BY <1>3, <3>1, Zenon
  <2> QED BY <1>5, <2>2, Zenon DEF RelocLine, Show
<1>6. CASE VersionLine
  BY <1>1, <1>3, <1>6, Zenon DEF VersionLine, Show
<1>7. CASE SymbolsEnd \/ RelocsEnd \/ VersionsEnd
  BY <1>7, Zenon DEF SymbolsEnd, RelocsEnd, VersionsEnd, NextDisplay
<1>8. CASE Finished
  BY <1>8, Zenon DEF Finished, vars
<1> QED BY <1>4, <1>5, <1>6, <1>7, <1>8, Zenon DEF Next

\* What a file is does not change.
LEMMA SameFile ==
  ASSUME TypeInv, [Next]_vars
  PROVE  /\ file' = file
         /\ WellFormed' <=> WellFormed
         /\ Unversioned' <=> Unversioned
<1> HIDE FilesAssumption
<1>1. file' = file
  <2>1. UNCHANGED vars => file' = file
    BY DEF vars
  <2>2. Raise => file' = file
    BY DEF Raise
  <2>3. \A sym \in Nat, name \in EntryNames, mark \in Marks :
          Adds(sym, name, mark) => file' = file
    BY DEF Adds, Show
  <2>4. NextDisplay => file' = file
    BY DEF NextDisplay
  <2> QED BY <2>1, <2>2, <2>3, <2>4, StepCases, Zenon
<1>2. WellFormed' <=> WellFormed
  BY <1>1, Zenon DEF WellFormed
<1>3. Unversioned' <=> Unversioned
  BY <1>1, Zenon DEF Unversioned
<1> QED BY <1>1, <1>2, <1>3

LEMMA NextCalm == TypeInv /\ CalmInv /\ [Next]_vars => CalmInv'
<1> SUFFICES ASSUME TypeInv, CalmInv, [Next]_vars PROVE CalmInv'
  OBVIOUS
<1>1. (WellFormed' \/ Unversioned') => WellFormed \/ Unversioned
  BY SameFile, Zenon
<1>2. WellFormed \/ Unversioned => ~raised'
  <2>1. CASE UNCHANGED vars
    BY <2>1, Zenon DEF CalmInv, vars
  <2>2. CASE Next
    BY <2>2, NoRaise, Zenon DEF CalmInv
  <2> QED BY <2>1, <2>2, Zenon
<1> QED BY <1>1, <1>2, Zenon DEF CalmInv

\* Such a file's entries, as LookupIsEntry names them.
LEMMA EntryShapes ==
  ASSUME NEW n, NEW version, RightVersion(n, version)
  PROVE  /\ version.name = EntryOf(n)
         /\ EntryOf(n) = NoName => version.from = "word"
         /\ EntryOf(n) # NoName =>
              /\ version.from \in {"def", "need"}
              /\ EntryOf(n)[1] = version.from
<1>1. version.name = EntryOf(n)
  BY Zenon DEF RightVersion
<1>2. CASE EntryOf(n) = NoName /\ version.from = "word"
  BY <1>1, <1>2, Zenon
<1>3. CASE \E number \in Nat, table \in {"def", "need"} :
             EntryOf(n) = <<table, number>> /\ version.from = table
  <2>1. PICK number \in Nat, table \in {"def", "need"} :
          EntryOf(n) = <<table, number>> /\ version.from = table
    BY <1>3, Zenon
  <2>2. EntryOf(n) # NoName /\ EntryOf(n)[1] = table
    BY <2>1 DEF NoName
  <2> QED BY <1>1, <2>1, <2>2, Zenon
<1> QED BY <1>2, <1>3, Zenon DEF RightVersion

\* The line that a step prints is right.
LEMMA LineIsRight ==
  ASSUME TypeInv, WellFormed, Next,
         NEW line, out' = Append(out, line), out' # out
  PROVE  RightLine(line)
<1> HIDE FilesAssumption
<1>1. file \in Files /\ pos \in Nat
  BY DEF TypeInv
<1>2. ASSUME NEW sym, NEW name, NEW mark, Show(sym, name, mark)
      PROVE  line = LineOf(sym, name, mark)
  <2>1. Append(out, line) = Append(out, LineOf(sym, name, mark))
    BY <1>2, Zenon DEF Show, LineOf
  <2>2. out \in Seq(Lines)
    BY DEF TypeInv
  <2> QED BY <2>1, <2>2
<1>3. CASE SymbolLine
  <2> DEFINE version == SymbolVersion(pos)
             name == file.names[pos + 1]
             mark == Suffix(version, name)
  <2>1. RightVersion(pos, version)
    <3>1. pos < Len(file.names) /\ Len(file.versym) = Len(file.names)
      BY <1>3, Zenon DEF SymbolLine, WellFormed
    <3>2. pos < Len(file.versym)
      BY <3>1, Zenon
    <3> QED BY <1>1, <3>2, LookupIsEntry, Zenon
  <2>2. Show(pos, IF mark = "nothing" THEN NoName ELSE version.name, mark)
    <3>1. Kind = "GNU"
      BY KindOfFile
    <3>2. ~Raise
      BY Zenon DEF Raise
    <3> QED BY <1>3, <3>1, <3>2, Zenon DEF SymbolLine
  <2>3. PICK shown : shown = IF mark = "nothing" THEN NoName ELSE version.name
    OBVIOUS
  <2>4. line = LineOf(pos, shown, mark)
    BY <1>2, <2>2, <2>3, Zenon
  <2>5. line.display = "symbols" /\ line.sym = pos /\ line.name = shown /\ line.mark = mark
    <3>1. Head(todo) = "symbols"
      BY <1>3, Zenon DEF SymbolLine, Runs
    <3> HIDE DEF mark
    <3> QED BY <2>4, <3>1 DEF LineOf
  <2> DEFINE entry == EntryOf(pos)
             hidden == file.versym[pos + 1] >= HiddenBit
  <2>6. /\ version.name = entry
        /\ entry = NoName => version.from = "word"
        /\ entry # NoName => version.from \in {"def", "need"} /\ entry[1] = version.from
    BY <2>1, EntryShapes, Zenon
  <2>7. version.hidden <=> hidden
    BY <2>1, Zenon DEF RightVersion
  <2> HIDE DEF version, entry, hidden
  <2>8. CASE entry = NoName \/ entry = name
    <3>1. mark = "nothing"
      <4>1. version.name = name \/ version.from = "word"
        BY <2>6, <2>8, Zenon
      <4>2. ~(version.name # name /\ version.from = "need")
            /\ ~(version.name # name /\ version.from = "def")
        BY <4>1
      <4> QED BY <4>1, <4>2, Zenon DEF Suffix
    <3> QED BY <2>5, <2>8, <3>1, Zenon DEF RightLine, entry
  <2>9. CASE entry # NoName /\ entry # name /\ version.from = "need"
    <3>1. version.from # "word" /\ version.from # "def"
      BY <2>9
    <3>2. mark = "external"
      BY <2>6, <2>9, <3>1, Zenon DEF Suffix
    <3> HIDE DEF mark
    <3>3. shown = entry /\ entry[1] = "need"
      BY <2>3, <2>6, <2>9, <3>2
    <3>4. line.name = entry /\ (line.mark = "external" <=> entry[1] = "need")
          /\ (line.mark = "hidden" <=> entry[1] = "def" /\ hidden)
      BY <2>5, <3>2, <3>3
    <3> QED BY <2>5, <2>9, <3>4, Zenon DEF RightLine, entry, hidden
  <2>10. CASE entry # NoName /\ entry # name /\ version.from = "def"
    <3>1. version.from # "word" /\ version.from # "need"
      BY <2>10
    <3>2. mark = IF version.hidden THEN "hidden" ELSE "default"
      BY <2>6, <2>10, <3>1, Zenon DEF Suffix
    <3> HIDE DEF mark
    <3>3. shown = entry /\ entry[1] = "def"
      BY <2>3, <2>6, <2>10, <3>2
    <3>4. (mark = "hidden" <=> hidden) /\ mark # "external"
      <4>1. CASE version.hidden
        BY <2>7, <3>2, <4>1
      <4>2. CASE ~version.hidden
        BY <2>7, <3>2, <4>2
      <4> QED BY <4>1, <4>2
    <3>5. line.name = entry /\ (line.mark = "external" <=> entry[1] = "need")
          /\ (line.mark = "hidden" <=> entry[1] = "def" /\ hidden)
      BY <2>5, <3>3, <3>4
    <3> QED BY <2>5, <2>10, <3>5, Zenon DEF RightLine, entry, hidden
  <2> QED BY <2>6, <2>8, <2>9, <2>10
<1>4. CASE RelocLine
  <2> DEFINE rel == file.relocs[pos + 1]
             version == SymbolVersion(rel.sym)
  <2>1. rel \in [sym : Nat, table : {"dynsym", "symtab"}]
    <3>1. /\ file.relocs \in Seq([sym : Nat, table : {"dynsym", "symtab"}])
          /\ Len(file.relocs) \in Nat
      BY <1>1, FileTypes
    <3>2. pos + 1 \in 1..Len(file.relocs)
      BY <1>1, <1>4, <3>1 DEF RelocLine
    <3> QED BY <3>1, <3>2, ElementOfSeq
  <2>2. rel.sym \in Nat
    BY <2>1
  <2>3. version.found = "found" => version.name = EntryOf(rel.sym)
    <3>1. CASE rel.sym < Len(file.versym)
      BY <1>1, <2>2, <3>1, LookupIsEntry, EntryShapes, Zenon
    <3>2. CASE ~(rel.sym < Len(file.versym))
      <4>1. Has(file.versym)
        BY Zenon DEF WellFormed
      <4>2. Len(file.versym) \in Nat
        BY <1>1, <4>1, FileTypes, LenProperties
      <4>3. rel.sym >= Len(file.versym)
        BY <2>2, <3>2, <4>2
      <4>4. version = Absent
        BY <4>3, Zenon DEF SymbolVersion
      <4> QED BY <4>4 DEF Absent
    <3> QED BY <3>1, <3>2
  <2>4. ~Raise
    BY Zenon DEF Raise
  <2>5. PICK shown \in {NoName, EntryOf(rel.sym)} : Show(rel.sym, shown, "plain")
    <3>1. CASE Show(rel.sym, NoName, "plain")
      BY <3>1, Zenon
    <3>2. CASE Show(rel.sym,
                    IF version.found = "found" THEN version.name ELSE NoName, "plain")
      BY <2>3, <3>2, Zenon
    <3> QED BY <1>4, <2>4, <3>1, <3>2, Zenon DEF RelocLine
  <2>6. line = LineOf(rel.sym, shown, "plain")
    BY <1>2, <2>5, Zenon
  <2>7. line.display = "relocs" /\ line.sym = rel.sym /\ line.name = shown
    <3>1. Head(todo) = "relocs"
      BY <1>4, Zenon DEF RelocLine, Runs
    <3> HIDE DEF rel
    <3> QED BY <2>6, <3>1 DEF LineOf
  <2>8. line.display # "symbols" /\ line.display # "versions"
    BY <2>7
  <2> HIDE DEF rel
  <2> QED BY <2>5, <2>7, <2>8, Zenon DEF RightLine
<1>5. CASE VersionLine
  <2> DEFINE version == SymbolVersion(pos)
  <2>1. RightVersion(pos, version)
    <3>1. pos < Len(file.versym)
      BY <1>5, Zenon DEF VersionLine
    <3> QED BY <1>1, <3>1, LookupIsEntry, Zenon
  <2>2. PICK mark : mark = IF version.hidden THEN "hidden" ELSE "plain"
    OBVIOUS
  <2>3. Show(pos, version.name, mark)
    <3>1. ~Raise
      BY Zenon DEF Raise
    <3> QED BY <1>5, <2>2, <3>1, Zenon DEF VersionLine
  <2>4. line = LineOf(pos, version.name, mark)
    BY <1>2, <2>3, Zenon
  <2> DEFINE hidden == file.versym[pos + 1] >= HiddenBit
  <2>5. version.name = EntryOf(pos) /\ (version.hidden <=> hidden)
    BY <2>1, Zenon DEF RightVersion
  <2> HIDE DEF version, hidden
  <2>6. line.display = "versions" /\ line.sym = pos /\ line.name = version.name
        /\ line.mark = mark
    <3>1. Head(todo) = "versions"
      BY <1>5, Zenon DEF VersionLine, Runs
    <3> QED BY <2>4, <3>1 DEF LineOf
  <2>7. mark = "hidden" <=> hidden
    <3>1. CASE version.hidden
      BY <2>2, <2>5, <3>1
    <3>2. CASE ~version.hidden
      BY <2>2, <2>5, <3>2
    <3> QED BY <3>1, <3>2
  <2>8. line.display # "symbols" /\ line.display # "relocs"
    BY <2>6
  <2> QED BY <2>5, <2>6, <2>7, <2>8, Zenon DEF RightLine, hidden
<1>6. CASE SymbolsEnd \/ RelocsEnd \/ VersionsEnd \/ Finished
  BY <1>6, Zenon DEF SymbolsEnd, RelocsEnd, VersionsEnd, NextDisplay, Finished, vars
<1> QED BY <1>3, <1>4, <1>5, <1>6, Zenon DEF Next

LEMMA NextLine == TypeInv /\ LineInv /\ [Next]_vars => LineInv'
<1> HIDE FilesAssumption
<1> SUFFICES ASSUME TypeInv, LineInv, [Next]_vars, WellFormed'
             PROVE  LineInv'
  BY Zenon DEF LineInv
<1>1. WellFormed /\ file' = file
  BY SameFile, Zenon
<1>2. PICK lines : lines = out'
  OBVIOUS
<1>3. \A k \in DOMAIN out : RightLine(out[k])
  BY <1>1, Zenon DEF LineInv
<1>4. ASSUME out' = out
      PROVE  \A k \in DOMAIN lines : RightLine(lines[k])
  BY <1>2, <1>3, <1>4, Zenon
<1>5. ASSUME NEW line, out' = Append(out, line), out' # out
      PROVE  \A k \in DOMAIN lines : RightLine(lines[k])
  <2>1. Next
    BY <1>5, Zenon DEF vars
  <2>2. RightLine(line)
    BY <1>1, <1>5, <2>1, LineIsRight, Zenon
  <2>3. out \in Seq(Lines)
    BY DEF TypeInv
  <2>4. \A k \in DOMAIN lines :
          lines[k] = line \/ (k \in DOMAIN out /\ lines[k] = out[k])
    BY <1>2, <1>5, <2>3
  <2> QED BY <1>3, <2>2, <2>4, Zenon
<1>6. out' = out \/ \E line : out' = Append(out, line)
  <2>1. UNCHANGED vars \/ Raise \/ NextDisplay => out' = out
    BY DEF vars, Raise, NextDisplay
  <2>2. \A sym, name, mark : Adds(sym, name, mark) => \E line : out' = Append(out, line)
    BY Zenon DEF Adds, Show
  <2> QED BY <2>1, <2>2, StepCases, Zenon
<1>7. \A k \in DOMAIN lines : RightLine(lines[k])
  BY <1>2, <1>3, <1>4, <1>5, <1>6, Zenon
<1>8. ASSUME NEW k \in DOMAIN out' PROVE RightLine(out[k])'
  <2>1. PICK line : line = lines[k] /\ line = out'[k]
    BY <1>2
  <2>2. RightLine(line)
    BY <1>2, <1>7, <1>8, <2>1, Zenon
  <2> QED BY <1>1, <2>1, <2>2, ZenonT(60) DEF RightLine, EntryOf, DefsOf
<1> QED BY <1>8, Zenon DEF LineInv

-----------------------------------------------------------------------------
(* The results. *)

\* Whatever files there are, every version that a display prints of a file (but
\* for relocations against another table than .dynsym)
\* that a linker writes is the entry with the symbol's number, said to be
\* hidden, external or the default as it is (readelf.py:383-399, 875-890).
THEOREM VersionsKeepTheirEntries == Spec => []VersionsAreTheirEntries
<1>1. Init => TypeInv /\ LineInv
  <2>1. Init => LineInv
    BY DEF Init, LineInv
  <2> QED BY <2>1, InitTypes
<1>2. TypeInv /\ LineInv /\ [Next]_vars => TypeInv' /\ LineInv'
  BY NextTypes, NextLine
<1>3. LineInv => VersionsAreTheirEntries
  BY Zenon DEF LineInv, RightLine, VersionsAreTheirEntries
<1> QED BY <1>1, <1>2, <1>3, PTL DEF Spec

\* Whatever files there are, no display of a file that a linker writes, with
\* versions or without, dies of a lookup that came back with nothing, and each
\* has printed one line for every entry it has dealt with.
THEOREM DumpsComplete == Spec => []DumpsAreComplete
<1>1. Init => TypeInv /\ CountInv /\ CalmInv
  <2>1. Init => CalmInv
    BY Zenon DEF Init, CalmInv
  <2> QED BY <2>1, InitTypes, InitCount
<1>2. TypeInv /\ CountInv /\ CalmInv /\ [Next]_vars => (TypeInv /\ CountInv /\ CalmInv)'
  BY NextTypes, NextCount, NextCalm
<1>3. TypeInv /\ CountInv /\ CalmInv => DumpsAreComplete
  <2> SUFFICES ASSUME TypeInv, CountInv, CalmInv, WellFormed \/ Unversioned
               PROVE  /\ ~raised
                      /\ \A d \in Displays : Runs(d) =>
                           Cardinality({k \in DOMAIN out : out[k].display = d}) = pos
    BY Zenon DEF DumpsAreComplete
  <2>1. ~raised
    BY Zenon DEF CalmInv
  <2>2. ASSUME NEW d \in Displays, Runs(d)
        PROVE  Cardinality(LinesOf(out, d)) = pos
    <3>1. todo # <<>> /\ Head(todo) = d
      BY <2>2, Zenon DEF Runs
    <3>2. Head(todo) = todo[1]
      BY <3>1 DEF TypeInv
    <3> QED BY <3>1, <3>2, Zenon DEF CountInv
  <2> QED BY <2>1, <2>2, Zenon DEF LinesOf
<1> QED BY <1>1, <1>2, <1>3, PTL DEF Spec

=============================================================================
