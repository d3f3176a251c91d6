--------------------------- MODULE ElfDumpsProofs ---------------------------
(***************************************************************************)
(* The loops of readelf.py, proved for every input: the hex dump's lines   *)
(* tile the section, the string dump's strings are whole, the counter of   *)
(* the debug dump is the nesting depth, and a table that is printed in     *)
(* groups has each group under its own header.                             *)
(***************************************************************************)
EXTENDS ElfDumps, SequenceTheorems, FiniteSetTheorems, TLAPS

HexLines == [addr : Nat, first : Nat, bytes : 1..16]

\* How the line at k follows the one before it.
Follows(k) ==
  /\ out[k].first = IF k = 1 THEN 0 ELSE out[k - 1].first + out[k - 1].bytes
  /\ out[k].addr = section.addr + out[k].first
  /\ out[k].first + out[k].bytes <= Len(section.data)

\* The hex dump goes on where its last line ended.
HexInv ==
  display = "hex" =>
    /\ input \in Sections
    /\ out \in Seq(HexLines)
    /\ pos \in 0..Len(section.data)
    /\ out = <<>> => pos = 0
    /\ out # <<>> => pos = out[Len(out)].first + out[Len(out)].bytes
    /\ \A k \in 1..Len(out) : Follows(k)
    /\ done /\ section.found /\ ~section.nobits => pos = Len(section.data)

DieLines == [depth : Nat, parent : Nat]

\* The depth of the line at k against that of its parent.
Nested(k) ==
  /\ out[k].parent \in 0..k - 1
  /\ out[k].depth = IF out[k].parent = 0 THEN 0 ELSE out[out[k].parent].depth + 1

\* The counter is the number of DIEs that are open, and so is the depth at
\* which each of them was printed, counted from the outermost.
InfoInv ==
  display = "info" =>
    /\ out \in Seq(DieLines)
    /\ pos = Len(out)
    /\ open \in Seq(Nat)
    /\ die_depth = Len(open)
    /\ \A i \in 1..Len(open) : /\ open[i] \in 1..Len(out)
                                /\ out[open[i]].depth = Len(open) - i
    /\ \A k \in 1..Len(out) : Nested(k)

-----------------------------------------------------------------------------
(* Numbers and sequences. *)

\* What Min and Max choose.
LEMMA MinOf ==
  ASSUME NEW S \in SUBSET Nat, S # {}
  PROVE  Min(S) \in S /\ \A y \in S : Min(S) <= y
<1>1. PICK x \in S : \A y \in S : <<y, x>> \notin OpToRel(<, Nat)
  BY NatLessThanWellFounded, WFMin, Zenon
<1>2. \A y \in S : ~(y < x)
  BY <1>1, Zenon DEF OpToRel
<1>3. \A y \in S : x <= y
  BY <1>2
<1>4. QED BY <1>3 DEF Min

LEMMA MaxOf ==
  ASSUME NEW S \in SUBSET Nat, S # {}, NEW n \in Nat, \A y \in S : y <= n
  PROVE  Max(S) \in S /\ \A y \in S : y <= Max(S)
<1> DEFINE below == {n - y : y \in S}
<1>1. \A y \in S : y \in Nat /\ n - y \in Nat /\ n - y \in below
  OBVIOUS
<1>2. below \in SUBSET Nat /\ below # {}
  BY <1>1
<1>3. Min(below) \in below /\ \A z \in below : Min(below) <= z
  <2> HIDE DEF below
  <2> QED BY <1>2, MinOf
<1>4. PICK x \in S : n - x = Min(below)
  BY <1>3
<1>5. \A y \in S : x >= y
  <2> SUFFICES ASSUME NEW y \in S PROVE x >= y
    OBVIOUS
  <2>1. Min(below) <= n - y
    BY <1>1, <1>3
  <2> HIDE DEF below
  <2>2. QED BY <1>1, <1>4, <2>1
<1>6. x \in S /\ \A y \in S : x >= y
  BY <1>5
<1>7. Max(S) \in S /\ \A y \in S : Max(S) >= y
  BY <1>6, Zenon DEF Max
<1>8. QED BY <1>1, <1>7

LEMMA NatInduct ==
  ASSUME NEW T, 0 \in T, \A n \in Nat : n \in T => n + 1 \in T
  PROVE  Nat \subseteq T
<1> DEFINE rest == Nat \ T
<1> SUFFICES ASSUME rest # {} PROVE FALSE
  OBVIOUS
<1>1. PICK m \in rest : \A y \in rest : m <= y
  BY MinOf
<1>2. m \in Nat /\ m # 0 /\ m \notin T
  BY <1>1
<1>3. m - 1 \in Nat /\ ~(m <= m - 1) /\ (m - 1) + 1 = m
  BY <1>2
<1>4. m - 1 \in T
  BY <1>1, <1>3
<1>5. QED BY <1>2, <1>3, <1>4

\* The sequences that FlattenSeq concatenates step by step.
Steps(s, f) ==
  /\ f[1] = s[1]
  /\ \A i \in 2..Len(s) : f[i] = f[i - 1] \o s[i]

LEMMA FlattenSteps ==
  ASSUME NEW S, NEW s \in Seq(Seq(S)), Len(s) # 0
  PROVE  \E f \in [1..Len(s) -> Seq(S)] : Steps(s, f) /\ FlattenSeq(s) = f[Len(s)]
<1> DEFINE N == Len(s)
           Good(g, n) == g = [i \in 1..n |-> IF i = 1 THEN s[i] ELSE g[i - 1] \o s[i]]
           T == {n \in Nat : n <= N => \E g \in [1..n -> Seq(S)] : Good(g, n)}
<1>0. N \in Nat /\ N >= 1 /\ s \in [1..N -> Seq(S)]
  BY LenProperties
<1>1. 0 \in T
  <2>1. [i \in 1..0 |-> <<>>] \in [1..0 -> Seq(S)]
    OBVIOUS
  <2>2. Good([i \in 1..0 |-> <<>>], 0)
    OBVIOUS
  <2> QED BY <2>1, <2>2
<1>2. ASSUME NEW n \in Nat, n \in T PROVE n + 1 \in T
  <2> HIDE DEF Good
  <2> SUFFICES ASSUME n + 1 <= N PROVE \E g \in [1..n+1 -> Seq(S)] : Good(g, n + 1)
    BY DEF T
  <2>0. n <= N
    BY <1>0
  <2>1. PICK g \in [1..n -> Seq(S)] : Good(g, n)
    BY <2>0, <1>2
  <2> USE DEF Good
  <2> DEFINE last == IF n = 0 THEN s[1] ELSE g[n] \o s[n + 1]
             h == [i \in 1..n + 1 |-> IF i <= n THEN g[i] ELSE last]
  <2>2. last \in Seq(S)
    BY <1>0, <2>1, ConcatProperties
  <2>3. h \in [1..n + 1 -> Seq(S)]
    <3>1. \A i \in 1..n + 1 : i <= n => g[i] \in Seq(S)
      OBVIOUS
    <3> HIDE DEF last, Good
    <3> QED BY <2>2, <3>1
  <2>4. ASSUME NEW i \in 1..n+1
        PROVE  h[i] = IF i = 1 THEN s[i] ELSE h[i - 1] \o s[i]
    <3>1. CASE i <= n
      <4> DEFINE Part(j) == IF j = 1 THEN s[j] ELSE g[j - 1] \o s[j]
      <4>1. g = [j \in 1..n |-> Part(j)]
        BY <2>1
      <4>2. i \in 1..n /\ h[i] = g[i] /\ (i # 1 => h[i - 1] = g[i - 1])
        BY <3>1
      <4> HIDE DEF Part, h
      <4>3. g[i] = Part(i)
        BY <4>1, <4>2
      <4>4. QED BY <4>2, <4>3 DEF Part
    <3>2. CASE i = n + 1
      BY <3>2
    <3>3. QED BY <3>1, <3>2
  <2>5. Good(h, n + 1)
    BY <2>4
  <2> QED BY <2>3, <2>5
<1>3. N \in T
  <2> HIDE DEF T, N
  <2> QED BY <1>0, <1>1, <1>2, NatInduct, Zenon
<1>4. \E g \in [1..N -> Seq(S)] : Good(g, N)
  <2> HIDE DEF Good
  <2> QED BY <1>0, <1>3
<1>5. \E f : Good(f, N)
  BY <1>4, Zenon
<1> DEFINE f == CHOOSE f : Good(f, N)
<1>6. Good(f, N)
  BY <1>5, Zenon
<1>7. FlattenSeq(s) = f[N]
  BY <1>0 DEF FlattenSeq
<1> HIDE DEF f
<1>8. /\ DOMAIN f = 1..N /\ f[1] = s[1]
      /\ \A i \in 2..N : f[i] = f[i - 1] \o s[i]
  <2> DEFINE Part(j) == IF j = 1 THEN s[j] ELSE f[j - 1] \o s[j]
  <2>1. f = [j \in 1..N |-> Part(j)]
    BY <1>6, Zenon
  <2> HIDE DEF Part, N
  <2>2. DOMAIN f = 1..N /\ \A j \in 1..N : f[j] = Part(j)
    BY <2>1
  <2>3. f[1] = s[1]
    BY <1>0, <2>2 DEF Part
  <2>4. ASSUME NEW i \in 2..N PROVE f[i] = f[i - 1] \o s[i]
    <3>1. i \in 1..N /\ i # 1
      BY <1>0
    <3>2. f[i] = Part(i)
      BY <2>2, <3>1
    <3> QED BY <3>1, <3>2 DEF Part
  <2> QED BY <2>2, <2>3, <2>4
<1>9. \A i \in 1..N : f[i] \in Seq(S)
  <2> DEFINE V == {n \in Nat : n + 1 \in 1..N => f[n + 1] \in Seq(S)}
  <2>1. 0 \in V
    BY <1>0, <1>8
  <2>2. ASSUME NEW n \in Nat, n \in V PROVE n + 1 \in V
    <3> SUFFICES ASSUME n + 2 \in 1..N PROVE f[n + 2] \in Seq(S)
      BY <1>0
    <3>1. n + 1 \in 1..N /\ n + 2 \in 2..N /\ (n + 2) - 1 = n + 1
      BY <1>0
    <3>2. f[n + 1] \in Seq(S) /\ s[n + 2] \in Seq(S)
      BY <1>0, <2>2, <3>1
    <3>3. f[n + 2] = f[n + 1] \o s[n + 2]
      BY <1>8, <3>1
    <3> QED BY <3>2, <3>3, ConcatProperties
  <2>3. Nat \subseteq V
    <3> HIDE DEF V
    <3> QED BY <2>1, <2>2, NatInduct, Zenon
  <2>4. ASSUME NEW i \in 1..N PROVE f[i] \in Seq(S)
    <3>1. i - 1 \in Nat /\ (i - 1) + 1 = i
      BY <1>0
    <3>2. i - 1 \in V
      BY <2>3, <3>1
    <3> QED BY <3>1, <3>2
  <2> QED BY <2>4
<1>10. f = [i \in 1..N |-> f[i]]
  BY <1>6
<1> QED BY <1>7, <1>8, <1>9, <1>10 DEF Steps

\* What the first h sequences give.
Flat(s, h) == FlattenSeq(SubSeq(s, 1, h))

\* Concatenation of one sequence more.
LEMMA FlatSteps ==
  ASSUME NEW S, NEW s \in Seq(Seq(S))
  PROVE  /\ Flat(s, 0) = <<>>
         /\ Flat(s, Len(s)) = FlattenSeq(s)
         /\ \A h \in 0..Len(s) : Flat(s, h) \in Seq(S)
         /\ \A h \in 0..Len(s) - 1 : Flat(s, h + 1) = Flat(s, h) \o s[h + 1]
<1> DEFINE N == Len(s)
<1>1. N \in Nat /\ \A i \in 1..N : s[i] \in Seq(S)
  BY LenProperties
<1>2. Flat(s, 0) = <<>>
  <2>1. SubSeq(s, 1, 0) = <<>>
    BY SubSeqEmpty
  <2> QED BY <2>1 DEF Flat, FlattenSeq
<1>3. Flat(s, N) = FlattenSeq(s)
  <2>1. SubSeq(s, 1, N) = s
    BY SubSeqFull
  <2> QED BY <2>1 DEF Flat
<1>6. Flat(s, 0) \in Seq(S)
  <2>1. <<>> \in Seq(S)
    BY EmptySeq
  <2> QED BY <1>2, <2>1
<1>4. CASE N = 0
  <2>1. /\ \A h \in 0..N : h = 0
        /\ \A h \in 0..N - 1 : FALSE
    BY <1>4
  <2> QED BY <1>2, <1>3, <1>6, <2>1
<1>5. CASE N # 0
  <2>1. PICK f \in [1..N -> Seq(S)] : Steps(s, f)
    BY <1>5, FlattenSteps
  <2>2. ASSUME NEW h \in 1..N PROVE Flat(s, h) = f[h]
    <3> DEFINE t == SubSeq(s, 1, h)
    <3>1. h \in Nat /\ h >= 1 /\ h <= N /\ h - 1 + 1 = h
      BY <1>1
    <3>2. t \in Seq(Seq(S)) /\ Len(t) = h /\ \A i \in 1..h : t[i] = s[i]
      <4>1. \A i \in 1..h : s[i] \in Seq(S)
        BY <1>1
      <4>2. /\ t \in Seq(Seq(S)) /\ Len(t) = (IF 1 <= h THEN h - 1 + 1 ELSE 0)
            /\ \A i \in 1..h - 1 + 1 : t[i] = s[1 + i - 1]
        BY <3>1, <4>1, SubSeqProperties
      <4> HIDE DEF t
      <4>3. \A i \in 1..h : 1 + i - 1 = i
        BY <3>1
      <4> QED BY <3>1, <4>2, <4>3
    <3> HIDE DEF t
    <3>3. PICK g \in [1..h -> Seq(S)] : Steps(t, g) /\ FlattenSeq(t) = g[h]
      <4>1. Len(t) # 0
        BY <3>1, <3>2
      <4>2. \E g \in [1..Len(t) -> Seq(S)] : Steps(t, g) /\ FlattenSeq(t) = g[Len(t)]
        BY <3>2, <4>1, FlattenSteps
      <4> QED BY <3>2, <4>2
    <3> DEFINE T == {n \in Nat : n + 1 \in 1..h => g[n + 1] = f[n + 1]}
    <3>4. 0 \in T
      BY <2>1, <3>1, <3>2, <3>3 DEF Steps
    <3>5. ASSUME NEW n \in Nat, n \in T PROVE n + 1 \in T
      <4> SUFFICES ASSUME n + 2 \in 1..h PROVE g[n + 2] = f[n + 2]
        BY <3>1
      <4>1. /\ n + 1 \in 1..h /\ n + 2 \in 2..h /\ n + 2 \in 2..N
            /\ (n + 2) - 1 = n + 1
        BY <1>1, <3>1
      <4>2. g[n + 1] = f[n + 1] /\ t[n + 2] = s[n + 2]
        BY <3>2, <3>5, <4>1
      <4>3. g[n + 2] = g[n + 1] \o t[n + 2]
        BY <3>2, <3>3, <4>1 DEF Steps
      <4>4. f[n + 2] = f[n + 1] \o s[n + 2]
        BY <2>1, <4>1 DEF Steps
      <4> QED BY <4>2, <4>3, <4>4
    <3>6. h - 1 \in T
      <4>1. h - 1 \in Nat
        BY <3>1
      <4> HIDE DEF T
      <4>2. Nat \subseteq T
        BY <3>4, <3>5, NatInduct, Zenon
      <4> QED BY <4>1, <4>2
    <3>7. g[h] = f[h]
      BY <3>1, <3>6
    <3> QED BY <3>3, <3>7 DEF Flat, t
  <2>3. ASSUME NEW h \in 0..N PROVE Flat(s, h) \in Seq(S)
    <3>1. CASE h = 0
      BY <1>6, <3>1
    <3>2. CASE h # 0
      <4>1. h \in 1..N
        BY <1>1, <3>2
      <4> QED BY <2>1, <2>2, <4>1
    <3> QED BY <3>1, <3>2
  <2>4. ASSUME NEW h \in 0..N - 1 PROVE Flat(s, h + 1) = Flat(s, h) \o s[h + 1]
    <3>1. h + 1 \in 1..N
      BY <1>1
    <3>2. CASE h = 0
      <4>1. Flat(s, h + 1) = s[1] /\ s[1] \in Seq(S)
        BY <1>1, <2>1, <2>2, <3>1, <3>2 DEF Steps
      <4>2. <<>> \o s[1] = s[1]
        BY <4>1, ConcatEmptySeq
      <4> QED BY <1>2, <3>2, <4>1, <4>2
    <3>3. CASE h # 0
      <4>1. h \in 1..N /\ h + 1 \in 2..N /\ (h + 1) - 1 = h
        BY <1>1, <3>3
      <4>2. f[h + 1] = f[h] \o s[h + 1]
        BY <2>1, <4>1 DEF Steps
      <4> QED BY <2>2, <3>1, <4>1, <4>2
    <3> QED BY <3>2, <3>3
  <2> QED BY <1>2, <1>3, <2>3, <2>4
<1> QED BY <1>4, <1>5

\* What the first h give is where the concatenation of all starts.
LEMMA FlatPrefix ==
  ASSUME NEW S, NEW s \in Seq(Seq(S)), NEW h \in 0..Len(s)
  PROVE  /\ Len(Flat(s, h)) <= Len(FlattenSeq(s))
         /\ \A k \in 1..Len(Flat(s, h)) : FlattenSeq(s)[k] = Flat(s, h)[k]
<1> DEFINE N == Len(s)
           Good(i) == /\ Len(Flat(s, i)) <= Len(FlattenSeq(s))
                      /\ \A k \in 1..Len(Flat(s, i)) : FlattenSeq(s)[k] = Flat(s, i)[k]
           T == {d \in Nat : d <= N => Good(N - d)}
<1>1. N \in Nat /\ h \in Nat /\ \A i \in 1..N : s[i] \in Seq(S)
  BY LenProperties
<1>2. \A i \in 0..N : Flat(s, i) \in Seq(S) /\ Len(Flat(s, i)) \in Nat
  BY FlatSteps, LenProperties
<1>3. 0 \in T
  <2>1. Flat(s, N) = FlattenSeq(s) /\ Len(Flat(s, N)) \in Nat
    BY <1>1, <1>2, FlatSteps
  <2>2. Good(N)
    BY <2>1
  <2>3. N - 0 = N
    BY <1>1
  <2> HIDE DEF Good
  <2> QED BY <2>2, <2>3
<1>4. ASSUME NEW d \in Nat, d \in T PROVE d + 1 \in T
  <2> SUFFICES ASSUME d + 1 <= N PROVE Good(N - (d + 1))
    OBVIOUS
  <2>1. PICK i \in 0..N - 1 : i = N - (d + 1) /\ i + 1 = N - d
    <3>1. N - (d + 1) \in 0..N - 1 /\ (N - (d + 1)) + 1 = N - d
      BY <1>1
    <3> HIDE DEF N
    <3> QED BY <3>1
  <2>2. Good(i + 1)
    <3>1. d <= N
      BY <1>1
    <3> HIDE DEF Good
    <3> QED BY <1>4, <2>1, <3>1
  <2>3. /\ Flat(s, i) \in Seq(S) /\ s[i + 1] \in Seq(S)
        /\ Len(Flat(s, i)) \in Nat /\ Len(s[i + 1]) \in Nat
        /\ Len(Flat(s, N)) \in Nat /\ Flat(s, N) = FlattenSeq(s)
    <3>1. i \in 0..N /\ i + 1 \in 1..N /\ N \in 0..N
      BY <1>1
    <3>2. s[i + 1] \in Seq(S)
      BY <1>1, <3>1
    <3>3. Len(s[i + 1]) \in Nat
      BY <3>2, LenProperties
    <3> QED BY <1>2, <3>1, <3>2, <3>3, FlatSteps
  <2>4. Flat(s, i + 1) = Flat(s, i) \o s[i + 1]
    BY FlatSteps
  <2>5. /\ Len(Flat(s, i + 1)) = Len(Flat(s, i)) + Len(s[i + 1])
        /\ \A k \in 1..Len(Flat(s, i)) : Flat(s, i + 1)[k] = Flat(s, i)[k]
    <3>1. PICK a \in Seq(S), b \in Seq(S), m \in Nat, n \in Nat :
            /\ a = Flat(s, i) /\ b = s[i + 1] /\ m = Len(a) /\ n = Len(b)
            /\ Flat(s, i + 1) = a \o b
      BY <2>3, <2>4
    <3>2. /\ Len(a \o b) = Len(a) + Len(b)
          /\ \A k \in 1..Len(a) + Len(b) :
               (a \o b)[k] = IF k <= Len(a) THEN a[k] ELSE b[k - Len(a)]
      BY ConcatProperties
    <3>3. \A k \in 1..m : k \in 1..m + n /\ k <= m
      OBVIOUS
    <3> QED BY <3>1, <3>2, <3>3
  <2>6. Good(i)
    <3>1. Len(Flat(s, i)) <= Len(FlattenSeq(s))
      <4>1. \A m, n, l \in Nat : m + n <= l => m <= l
        OBVIOUS
      <4>2. Len(Flat(s, i)) + Len(s[i + 1]) <= Len(FlattenSeq(s))
        BY <2>2, <2>5
      <4>3. Len(FlattenSeq(s)) \in Nat
        BY <2>3
      <4> QED BY <2>3, <4>1, <4>2, <4>3
    <3>2. ASSUME NEW k \in 1..Len(Flat(s, i)) PROVE FlattenSeq(s)[k] = Flat(s, i)[k]
      <4>1. k \in 1..Len(Flat(s, i + 1))
        <5>1. \A m, n \in Nat : k \in 1..m => k \in 1..m + n
          OBVIOUS
        <5> QED BY <2>3, <2>5, <5>1
      <4> QED BY <2>2, <2>5, <4>1
    <3> QED BY <3>1, <3>2
  <2> HIDE DEF Good
  <2> QED BY <2>1, <2>6
<1>5. N - h \in Nat /\ N - h <= N /\ N - (N - h) = h
  BY <1>1
<1>6. N - h \in T
  <2> HIDE DEF T
  <2>1. Nat \subseteq T
    BY <1>3, <1>4, NatInduct, Zenon
  <2> QED BY <1>5, <2>1
<1>7. Good(h)
  <2> HIDE DEF Good
  <2> QED BY <1>5, <1>6
<1> QED BY <1>7

-----------------------------------------------------------------------------

USE DumpsAssumption DEF DumpsAssumption

\* No step goes over to another dump.
LEMMA DisplayStays ==
  ASSUME [Next]_vars PROVE display' = display /\ input' = input
BY DEF Next, vars, NothingToDump, Dumps, HexLine, HexEnds, StringLine, StringsEnd,
       DieLine, InfoEnds, ArangesLine, ArangesEnd, NamesGroup, NamesEnd, Finished

-----------------------------------------------------------------------------
(* The hex dump. *)

LEMMA InitHex == Init => HexInv
<1> SUFFICES ASSUME Init, display = "hex" PROVE HexInv
  BY DEF HexInv
<1>1. input \in Sections
  BY DEF Init
<1>2. Len(section.data) \in Nat
  BY <1>1 DEF Sections, section
<1>3. out = <<>> /\ pos = 0 /\ done = FALSE
  BY DEF Init
<1> QED
  BY <1>1, <1>2, <1>3 DEF HexInv, section

LEMMA InitInfo == Init => InfoInv
  BY DEF Init, InfoInv

LEMMA LineBytes ==
  ASSUME NEW size \in Nat, NEW p \in Nat, p < size
  PROVE  LET n == IF size - p > 16 THEN 16 ELSE size - p
         IN  n \in 1..16 /\ p + n <= size
<1>1. CASE size - p > 16
  BY <1>1
<1>2. CASE ~(size - p > 16)
  BY <1>2
<1>3. QED BY <1>1, <1>2

\* A line of the hex dump goes on where the last one ended.
LEMMA HexLineHolds ==
  ASSUME HexInv, HexLine
  PROVE  HexInv'
<1>1. display = "hex" /\ display' = display /\ input' = input /\ done' = done /\ ~done
      /\ input \in Sections /\ out \in Seq(HexLines) /\ pos \in Nat
  BY DEF HexLine, Dumps, HexInv
<1>2. Len(section.data) \in Nat /\ section.addr \in Nat /\ section' = section
  BY <1>1 DEF Sections, section
<1>3. PICK n \in 1..16 : /\ pos + n <= Len(section.data)
                         /\ pos' = pos + n
                         /\ out' = Append(out, [addr |-> section.addr + pos,
                                               first |-> pos, bytes |-> n])
  <2> DEFINE linebytes == IF Len(section.data) - pos > 16
                          THEN 16 ELSE Len(section.data) - pos
  <2>1. pos < Len(section.data)
    BY DEF HexLine
  <2>2. linebytes \in 1..16 /\ pos + linebytes <= Len(section.data)
    BY <1>1, <1>2, <2>1, LineBytes
  <2>3. /\ pos' = pos + linebytes
        /\ out' = Append(out, [addr |-> section.addr + pos,
                              first |-> pos, bytes |-> linebytes])
    BY DEF HexLine
  <2> HIDE DEF linebytes
  <2> QED
    BY <2>2, <2>3
<1> DEFINE line == [addr |-> section.addr + pos, first |-> pos, bytes |-> n]
<1>4. line \in HexLines
  BY <1>1, <1>2, <1>3 DEF HexLines
<1>5. /\ out' \in Seq(HexLines) /\ Len(out') = Len(out) + 1 /\ Len(out) \in Nat
      /\ out'[Len(out) + 1] = line
      /\ \A k \in 1..Len(out) : out'[k] = out[k]
  BY <1>1, <1>3, <1>4, AppendProperties
<1>6. ASSUME NEW k \in 1..Len(out) PROVE Follows(k)'
  <2>1. Follows(k)
    BY <1>1 DEF HexInv
  <2>2. out'[k] = out[k] /\ (k # 1 => out'[k - 1] = out[k - 1])
    BY <1>5
  <2> QED
    BY <1>2, <2>1, <2>2 DEF Follows
<1>7. ASSUME NEW k, k = Len(out) + 1 PROVE Follows(k)'
  <2>1. CASE out = <<>>
    <3>1. k = 1 /\ pos = 0
      BY <1>1, <1>7, <2>1 DEF HexInv
    <3> QED
      BY <1>2, <1>3, <1>5, <1>7, <3>1 DEF Follows
  <2>2. CASE out # <<>>
    <3>1. Len(out) # 0 /\ pos = out[Len(out)].first + out[Len(out)].bytes
      BY <1>1, <2>2, EmptySeq DEF HexInv
    <3>2. k # 1 /\ k - 1 = Len(out)
      BY <1>5, <1>7, <3>1
    <3>3. out'[k].first = out'[k - 1].first + out'[k - 1].bytes
      BY <1>5, <1>7, <3>1, <3>2
    <3>4. /\ out'[k].addr = section'.addr + out'[k].first
          /\ out'[k].first + out'[k].bytes <= Len(section'.data)
      BY <1>2, <1>3, <1>5, <1>7
    <3> QED
      BY <3>2, <3>3, <3>4 DEF Follows
  <2> QED
    BY <2>1, <2>2
<1>8. \A k \in 1..Len(out') : Follows(k)'
  <2>1. \A k \in 1..Len(out') : k \in 1..Len(out) \/ k = Len(out) + 1
    BY <1>5
  <2> QED
    BY <1>6, <1>7, <2>1
<1> QED
  BY <1>1, <1>2, <1>3, <1>5, <1>8 DEF HexInv, section

\* The other steps leave the lines alone, and the dump ends at the end.
LEMMA HexStays ==
  ASSUME HexInv, [Next]_vars
  PROVE  HexInv'
<1>1. CASE HexLine
  BY <1>1, HexLineHolds
<1>2. CASE display # "hex"
  BY <1>2, DisplayStays DEF HexInv
<1>3. CASE NothingToDump \/ UNCHANGED vars
  BY <1>3 DEF HexInv, NothingToDump, vars, Follows, section
<1>4. CASE HexEnds
  <2>1. input \in Sections /\ Len(section.data) \in Nat
    BY <1>4 DEF HexEnds, Dumps, HexInv, Sections, section
  <2>2. pos = Len(section.data)
    BY <1>4, <2>1 DEF HexEnds, Dumps, HexInv
  <2> QED
    BY <1>4, <2>1, <2>2 DEF HexInv, HexEnds, Follows, section
<1> QED
  BY <1>1, <1>2, <1>3, <1>4
     DEF Next, vars, Dumps, StringLine, StringsEnd, DieLine, InfoEnds,
         ArangesLine, ArangesEnd, NamesGroup, NamesEnd, Finished

-----------------------------------------------------------------------------
(* The string dump. *)

StringLines == [first : Nat, end : Nat]
Size == Len(section.data)
Nul(i) == section.data[i + 1] = "nul"
InLine(i, k) == i \in out[k].first..out[k].end - 1

\* The line at k is a string up to its end, and not the end of another one.
Whole(k) ==
  /\ out[k].end <= pos
  /\ out[k].end # Size => Nul(out[k].end)
  /\ \A i \in out[k].first..out[k].end - 1 : ~Nul(i)
  /\ \A i \in 0..out[k].first - 1 :
       Printable(i) => \E j \in i..out[k].first - 1 : Nul(j)

OnOneLine(i) ==
  \E k \in 1..Len(out) : InLine(i, k) /\ \A l \in 1..Len(out) : InLine(i, l) => l = k

\* The scan stands at the start, at a NUL or at the end, and every character
\* before it is on one line.
StringInv ==
  display = "string" =>
    /\ input \in Sections
    /\ out \in Seq(StringLines)
    /\ pos \in 0..Size
    /\ pos \in {0, Size} \/ Nul(pos)
    /\ \A k \in 1..Len(out) : Whole(k)
    /\ \A i \in 0..pos - 1 : Printable(i) => OnOneLine(i)
    /\ done /\ section.found /\ ~section.nobits => Starts = {}

LEMMA InitString == Init => StringInv
<1> SUFFICES ASSUME Init, display = "string" PROVE StringInv
  BY DEF StringInv
<1>1. input \in Sections /\ out = <<>> /\ pos = 0 /\ done = FALSE
  BY DEF Init
<1>2. Size \in Nat
  BY <1>1 DEF Sections, section, Size
<1> QED
  BY <1>1, <1>2 DEF StringInv

\* EndOf is the next NUL, or the end of the data.
LEMMA EndIsNext ==
  ASSUME input \in Sections, NEW i \in Nat, i <= Size
  PROVE  /\ EndOf(i) \in i..Size
         /\ EndOf(i) # Size => Nul(EndOf(i))
         /\ \A j \in i..EndOf(i) - 1 : ~Nul(j)
<1> DEFINE E == {j \in i..Size - 1 : Nul(j)} \cup {Size}
<1>1. Size \in Nat
  BY DEF Sections, section, Size
<1>2. E \in SUBSET Nat /\ E # {} /\ EndOf(i) = Min(E)
  BY <1>1 DEF EndOf, Size, Nul
<1>3. EndOf(i) \in E /\ \A j \in E : EndOf(i) <= j
  <2> HIDE DEF E
  <2> QED BY <1>2, MinOf
<1>4. EndOf(i) \in i..Size /\ (EndOf(i) # Size => Nul(EndOf(i)))
  BY <1>1, <1>3
<1>5. ASSUME NEW j \in i..EndOf(i) - 1, Nul(j) PROVE FALSE
  <2>1. j \in E /\ ~(EndOf(i) <= j)
    BY <1>1, <1>4, <1>5
  <2> QED BY <1>3, <2>1
<1> QED BY <1>4, <1>5

\* A line covers the characters from the scan's position up to its end.
LEMMA StringLineHolds ==
  ASSUME StringInv, StringLine
  PROVE  StringInv'
<1>1. /\ display = "string" /\ display' = display /\ input' = input
      /\ done' = done /\ ~done /\ Starts # {}
      /\ out' = Append(out, [first |-> Min(Starts), end |-> EndOf(Min(Starts))])
      /\ pos' = EndOf(Min(Starts))
  BY DEF StringLine, Dumps
<1>2. /\ input \in Sections /\ out \in Seq(StringLines) /\ pos \in 0..Size
      /\ pos \in {0, Size} \/ Nul(pos)
      /\ \A k \in 1..Len(out) : Whole(k)
      /\ \A i \in 0..pos - 1 : Printable(i) => OnOneLine(i)
  BY <1>1 DEF StringInv
<1>3. Size \in Nat /\ Size' = Size /\ section' = section
  BY <1>1, <1>2 DEF Sections, section, Size
<1>4. PICK first \in Starts : first = Min(Starts) /\ \A i \in Starts : first <= i
  <2>1. Starts \in SUBSET Nat
    BY <1>2, <1>3 DEF Starts, Size
  <2> QED BY <1>1, <2>1, MinOf
<1>5. first \in pos..Size - 1 /\ first \in Nat /\ Printable(first)
  BY <1>2, <1>3, <1>4 DEF Starts, Size
<1>6. PICK end \in first..Size : /\ end \in Nat
                                 /\ end = EndOf(first)
                                 /\ end # Size => Nul(end)
                                 /\ \A j \in first..end - 1 : ~Nul(j)
  BY <1>2, <1>3, <1>5, EndIsNext
<1>7. ASSUME NEW i \in Nat, pos <= i, i < first PROVE ~Printable(i)
  <2>1. i \in pos..Size - 1
    BY <1>2, <1>3, <1>5, <1>7
  <2> QED BY <1>4, <1>5, <1>7, <2>1 DEF Starts, Size
<1>8. ~Nul(first)
  BY <1>5 DEF Nul, Printable
<1>9. pos = 0 \/ (Nul(pos) /\ pos < first)
  <2>1. pos # Size
    BY <1>2, <1>3, <1>5
  <2>2. pos # 0 => Nul(pos) /\ pos # first
    BY <1>2, <1>8, <2>1
  <2> QED BY <1>2, <1>3, <1>5, <2>2
<1>10. PICK line \in StringLines : /\ line.first = first /\ line.end = end
                                  /\ out' = Append(out, line) /\ pos' = end
  <2>1. [first |-> first, end |-> end] \in StringLines
    BY <1>5, <1>6 DEF StringLines
  <2> QED BY <1>1, <1>4, <1>6, <2>1
<1>11. PICK N \in Nat : /\ N = Len(out)
                       /\ out' \in Seq(StringLines) /\ Len(out') = N + 1
                       /\ out'[N + 1] = line
                       /\ \A k \in 1..N : out'[k] = out[k]
  BY <1>2, <1>10, AppendProperties, LenProperties
<1>12. ASSUME NEW i \in Nat PROVE (Printable(i))' = Printable(i) /\ (Nul(i))' = Nul(i)
  BY <1>3 DEF Printable, Nul
<1>13. \A k \in 1..N : out[k].first \in Nat /\ out[k].end \in Nat
  <2>1. \A k \in 1..N : out[k] \in StringLines
    BY <1>2, <1>11, ElementOfSeq
  <2> QED BY <2>1 DEF StringLines
<1>14. ASSUME NEW k \in 1..N PROVE Whole(k)'
  <2>1. Whole(k) /\ out'[k] = out[k] /\ out[k].first \in Nat /\ out[k].end \in Nat
    BY <1>2, <1>11, <1>13
  <2>2. out[k].end <= pos'
    BY <1>1, <1>10, <1>2, <1>3, <1>5, <1>6, <2>1 DEF Whole
  <2>3. Nul(out[k].end)' = Nul(out[k].end)
    BY <1>12, <2>1
  <2> QED
    BY <1>3, <1>12, <2>1, <2>2, <2>3 DEF Whole, Nul, Printable
<1>15. Whole(N + 1)'
  <2>1. out'[N + 1].first = first /\ out'[N + 1].end = end /\ pos' = end
    BY <1>1, <1>10, <1>11
  <2>2. (Size = end) \/ Nul(end)'
    BY <1>3, <1>6 DEF Nul
  <2>3. \A i \in first..end - 1 : ~Nul(i)'
    BY <1>3, <1>6 DEF Nul
  <2>4. ASSUME NEW i \in 0..first - 1, Printable(i)
        PROVE  \E j \in i..first - 1 : Nul(j)
    <3>1. i < pos
      BY <1>2, <1>3, <1>5, <1>7, <2>4
    <3>2. Nul(pos) /\ pos < first
      BY <1>2, <1>3, <1>9, <3>1
    <3>3. pos \in i..first - 1
      BY <1>2, <1>3, <1>5, <3>1, <3>2
    <3> QED BY <3>2, <3>3
  <2> QED
    BY <1>3, <1>6, <2>1, <2>2, <2>3, <2>4 DEF Whole, Nul, Printable
<1>16. \A k \in 1..Len(out') : Whole(k)'
  BY <1>11, <1>14, <1>15
<1>17. ASSUME NEW i \in 0..pos' - 1, Printable(i) PROVE OnOneLine(i)'
  <2>0. i \in Nat /\ pos \in Nat
    BY <1>2, <1>3, <1>6, <1>10
  <2>1. \A k \in 1..N : (InLine(i, k))' = InLine(i, k)
    BY <1>11 DEF InLine
  <2>2. InLine(i, N + 1)' <=> i \in first..end - 1
    BY <1>10, <1>11 DEF InLine
  <2>3. CASE i < pos
    <3>1. i \in 0..pos - 1
      BY <1>1, <1>10, <1>2, <1>3, <2>3
    <3>2. PICK k \in 1..N : InLine(i, k) /\ \A l \in 1..N : InLine(i, l) => l = k
      BY <1>2, <1>11, <1>17, <3>1 DEF OnOneLine
    <3>3. ~InLine(i, N + 1)'
      BY <1>1, <1>10, <1>2, <1>3, <1>5, <1>6, <2>2, <2>3
    <3>4. k \in 1..Len(out') /\ \A l \in 1..Len(out') : l \in 1..N \/ l = N + 1
      BY <1>11
    <3> QED
      BY <2>1, <3>2, <3>3, <3>4 DEF OnOneLine
  <2>4. CASE ~(i < pos)
    <3>1. i \in first..end - 1
      BY <1>1, <1>10, <1>2, <1>3, <1>5, <1>6, <1>7, <1>17, <2>4
    <3>2. ASSUME NEW k \in 1..N PROVE ~InLine(i, k)'
      <4>1. out[k].end <= pos
        BY <1>2, <1>11 DEF Whole
      <4>2. out[k].end \in Nat
        BY <1>13
      <4>3. ~InLine(i, k)
        BY <2>0, <2>4, <4>1, <4>2 DEF InLine
      <4> QED
        BY <2>1, <4>3
    <3>3. N + 1 \in 1..Len(out') /\ \A l \in 1..Len(out') : l \in 1..N \/ l = N + 1
      BY <1>11
    <3> QED
      BY <2>2, <3>1, <3>2, <3>3 DEF OnOneLine
  <2> QED BY <2>3, <2>4
<1>18. pos' \in 0..Size' /\ (pos' \in {0, Size'} \/ Nul(pos)')
  BY <1>1, <1>10, <1>3, <1>5, <1>6, <1>12 DEF Nul
<1> QED
  BY <1>1, <1>10, <1>2, <1>3, <1>11, <1>12, <1>16, <1>17, <1>18 DEF StringInv

LEMMA StringStays ==
  ASSUME StringInv, [Next]_vars
  PROVE  StringInv'
<1>1. CASE StringLine
  BY <1>1, StringLineHolds
<1>2. CASE display # "string"
  BY <1>2, DisplayStays DEF StringInv
<1>3. CASE display = "string" /\ (NothingToDump \/ StringsEnd \/ UNCHANGED vars)
  <2>1. /\ UNCHANGED <<display, input, out, pos>>
        /\ done' /\ section.found /\ ~section.nobits => done \/ Starts = {}
    BY <1>3 DEF NothingToDump, StringsEnd, vars
  <2>2. /\ section' = section /\ Size' = Size /\ Starts' = Starts
        /\ \A i : (Nul(i))' = Nul(i) /\ (Printable(i))' = Printable(i)
        /\ \A i : (OnOneLine(i))' = OnOneLine(i) /\ (Whole(i))' = Whole(i)
    BY <2>1 DEF section, Size, Starts, Nul, Printable, OnOneLine, InLine, Whole
  <2> QED
    BY <1>3, <2>1, <2>2 DEF StringInv
<1> QED
  BY <1>1, <1>2, <1>3
     DEF Next, vars, Dumps, HexLine, HexEnds, DieLine, InfoEnds, ArangesLine,
         ArangesEnd, NamesGroup, NamesEnd, Finished

-----------------------------------------------------------------------------
(* The debug dump. *)

\* One DIE is as deep as there are DIEs open.
LEMMA DieLineHolds ==
  ASSUME InfoInv, NEW kind \in {"parent", "leaf", "null"}, DieLine(kind)
  PROVE  InfoInv'
<1> DEFINE line == [depth |-> die_depth,
                    parent |-> IF open = <<>> THEN 0 ELSE Head(open)]
<1>1. /\ display = "info" /\ display' = display
      /\ out \in Seq(DieLines) /\ pos = Len(out) /\ Len(out) \in Nat
      /\ open \in Seq(Nat) /\ Len(open) \in Nat /\ die_depth = Len(open)
      /\ \A i \in 1..Len(open) : /\ open[i] \in 1..Len(out)
                                  /\ out[open[i]].depth = Len(open) - i
      /\ \A k \in 1..Len(out) : Nested(k)
  BY DEF DieLine, InfoInv
<1>2. open = <<>> => Len(open) = 0
  BY <1>1, EmptySeq
<1>3. open # <<>> => Len(open) \in Nat \ {0} /\ Head(open) = open[1]
  BY <1>1, EmptySeq, HeadTailProperties
<1>4. line \in DieLines
  BY <1>1, <1>3 DEF DieLines
<1>5. out' = Append(out, line)
  <2>1. CASE open = <<>>
    BY <1>1, <1>2, <2>1 DEF DieLine
  <2>2. CASE open # <<>>
    BY <2>2 DEF DieLine
  <2> QED
    BY <2>1, <2>2
<1>6. /\ out' \in Seq(DieLines) /\ Len(out') = Len(out) + 1
      /\ out'[Len(out) + 1] = line
      /\ \A k \in 1..Len(out) : out'[k] = out[k]
  BY <1>1, <1>4, <1>5, AppendProperties
<1>7. pos' = Len(out')
  BY <1>1, <1>6 DEF DieLine
<1>8. ASSUME NEW k \in 1..Len(out') PROVE Nested(k)'
  <2>1. CASE k \in 1..Len(out)
    <3>1. Nested(k) /\ out[k].parent \in 0..k - 1
      BY <1>1, <2>1 DEF Nested
    <3>2. out'[k] = out[k]
          /\ (out[k].parent # 0 => out'[out[k].parent] = out[out[k].parent])
      BY <1>1, <1>6, <2>1, <3>1
    <3> QED
      BY <3>1, <3>2 DEF Nested
  <2>2. CASE k = Len(out) + 1
    <3>1. CASE open = <<>>
      BY <1>1, <1>2, <1>6, <2>2, <3>1 DEF Nested
    <3>2. CASE open # <<>>
      <4>1. line.parent = open[1] /\ open[1] \in 1..Len(out)
            /\ out[open[1]].depth = Len(open) - 1 /\ line.depth = Len(open)
        BY <1>1, <1>3, <3>2
      <4>2. out'[k].parent = open[1] /\ out'[open[1]] = out[open[1]]
            /\ out'[k].depth = Len(open)
        BY <1>6, <2>2, <4>1
      <4> QED
        BY <1>1, <1>3, <2>2, <3>2, <4>1, <4>2 DEF Nested
    <3> QED
      BY <3>1, <3>2
  <2> QED
    BY <1>1, <1>6, <2>1, <2>2
<1>9. /\ open' \in Seq(Nat) /\ die_depth' = Len(open')
      /\ \A i \in 1..Len(open') : /\ open'[i] \in 1..Len(out')
                                   /\ out'[open'[i]].depth = Len(open') - i
  <2>1. CASE kind = "leaf"
    <3>1. open' = open /\ die_depth' = die_depth
      BY <1>1, <1>2, <2>1 DEF DieLine, DepthAfter
    <3> QED
      BY <1>1, <1>6, <3>1
  <2>2. CASE kind = "parent"
    <3>1. open' = <<Len(out) + 1>> \o open /\ die_depth' = Len(open) + 1
      BY <1>1, <1>2, <2>2 DEF DieLine, DepthAfter
    <3>2. /\ open' \in Seq(Nat) /\ Len(open') = Len(open) + 1
          /\ open'[1] = Len(out) + 1
          /\ \A i \in 1..Len(open) : open'[i + 1] = open[i]
      BY <1>1, <3>1, ConcatProperties
    <3>3. ASSUME NEW i \in 1..Len(open')
          PROVE  open'[i] \in 1..Len(out') /\ out'[open'[i]].depth = Len(open') - i
      <4>1. CASE i = 1
        BY <1>1, <1>6, <3>2, <4>1
      <4>2. CASE i # 1
        <5>1. i - 1 \in 1..Len(open) /\ i = (i - 1) + 1
          <6>1. Len(open) \in Nat
            BY <1>1, LenProperties
          <6>2. QED BY <3>2, <4>2, <6>1
        <5>2. open'[i] = open[i - 1]
          BY <3>2, <5>1
        <5>3. open[i - 1] \in 1..Len(out) /\ out[open[i - 1]].depth = Len(open) - (i - 1)
          BY <1>1, <5>1, Zenon
        <5>4. out'[open'[i]] = out[open[i - 1]] /\ open'[i] \in 1..Len(out')
          BY <1>1, <1>6, <5>2, <5>3
        <5>5. Len(open) - (i - 1) = Len(open') - i
          BY <1>1, <3>2, <5>1
        <5> QED
          BY <5>3, <5>4, <5>5
      <4> QED
        BY <4>1, <4>2
    <3> QED
      BY <3>1, <3>2, <3>3
  <2>3. CASE kind = "null"
    <3>1. open # <<>> /\ open' = Tail(open) /\ die_depth' = Len(open) - 1
      BY <1>1, <2>3 DEF DieLine, DepthAfter
    <3>2. /\ open' \in Seq(Nat) /\ Len(open') = Len(open) - 1
          /\ \A i \in 1..Len(open') : open'[i] = open[i + 1]
      BY <1>1, <3>1, HeadTailProperties
    <3>3. ASSUME NEW i \in 1..Len(open')
          PROVE  open'[i] \in 1..Len(out') /\ out'[open'[i]].depth = Len(open') - i
      <4>1. i + 1 \in 1..Len(open)
        BY <1>1, <3>2
      <4>2. open[i + 1] \in 1..Len(out) /\ out[open[i + 1]].depth = Len(open) - (i + 1)
        BY <1>1, <4>1
      <4>3. open'[i] = open[i + 1]
        BY <3>2
      <4>4. out'[open'[i]] = out[open[i + 1]] /\ open'[i] \in 1..Len(out')
        <5>1. open'[i] \in 1..Len(out)
          BY <4>2, <4>3
        <5>2. out'[open'[i]] = out[open'[i]]
          BY <1>6, <5>1
        <5>3. open'[i] \in 1..Len(out')
          BY <1>1, <1>6, <5>1
        <5> QED BY <4>3, <5>2, <5>3
      <4>5. Len(open) - (i + 1) = Len(open') - i
        BY <1>1, <3>2
      <4> QED
        BY <4>2, <4>4, <4>5
    <3> QED
      BY <3>1, <3>2, <3>3
  <2> QED
    BY <2>1, <2>2, <2>3
<1> QED
  BY <1>6, <1>7, <1>8, <1>9 DEF InfoInv

LEMMA InfoStays ==
  ASSUME InfoInv, [Next]_vars
  PROVE  InfoInv'
<1>1. ASSUME NEW kind \in {"parent", "leaf", "null"}, DieLine(kind) PROVE InfoInv'
  BY <1>1, DieLineHolds
<1>2. CASE display # "info"
  BY <1>2, DisplayStays DEF InfoInv
<1>3. CASE InfoEnds \/ UNCHANGED vars
  BY <1>3 DEF InfoInv, InfoEnds, vars, Nested
<1> QED
  BY <1>1, <1>2, <1>3
     DEF Next, vars, NothingToDump, Dumps, HexLine, HexEnds, StringLine,
         StringsEnd, ArangesLine, ArangesEnd, NamesGroup, NamesEnd, Finished

-----------------------------------------------------------------------------
(* The aranges dump. *)

Ranges == [cu : Nat, range : Nat]
ArangesLines == {Zeros} \cup {Heading(cu) : cu \in Nat} \cup {Entry(r) : r \in Ranges}

\* The entry at j is the first of its unit.
NewTable(j) == j = 1 \/ input[j].cu # input[j - 1].cu

\* The entry at j is printed at place[j], the first of a unit under a header
\* and, unless it is the first of all, behind the zeros of the table before.
Placed(place, j) ==
  /\ place[j] \in 1..Len(out)
  /\ out[place[j]] = Entry(input[j])
  /\ NewTable(j) => place[j] >= 2 /\ out[place[j] - 1] = Heading(input[j].cu)
  /\ j = 1 => place[j] = 2
  /\ j # 1 /\ NewTable(j) => /\ place[j] = place[j - 1] + 3
                             /\ out[place[j] - 2] = Zeros

\* The entries of a unit are printed without a line between them.
Together(place) ==
  \A i, j \in 1..pos :
    i < j /\ input[i].cu = input[j].cu => place[j] = place[i] + (j - i)

HeadersPlaced(place) ==
  \A k \in 1..Len(out) :
    out[k][1] = "header" => \E j \in 1..pos : NewTable(j) /\ k = place[j] - 1

\* The last table has its zeros when the dump is done.
Ended(place) ==
  IF done THEN /\ pos = Len(input)
               /\ pos # 0 => /\ Len(out) = place[pos] + 1
                             /\ out[Len(out)] = Zeros
  ELSE Len(out) = IF pos = 0 THEN 0 ELSE place[pos]

Printed(place) ==
  /\ \A j \in 1..pos : Placed(place, j)
  /\ Together(place)
  /\ HeadersPlaced(place)
  /\ Ended(place)

\* The offset that the dump keeps is that of the entry before, and what has
\* been printed has a place for every entry.
ArangesInv ==
  display = "aranges" /\ OneSetPerUnit =>
    /\ input \in Seq(Ranges)
    /\ out \in Seq(ArangesLines)
    /\ pos \in 0..Len(input)
    /\ prev_offset = IF pos = 0 THEN NoOffset ELSE input[pos].cu
    /\ \E place \in [1..pos -> Nat] : Printed(place)

LEMMA ShortAppends ==
  /\ \A a : Append(<<>>, a) = <<a>>
  /\ \A a, b : Append(<<a>>, b) = <<a, b>>
  /\ \A a, b, c : Append(<<a, b>>, c) = <<a, b, c>>
<1>1. \A a : Append(<<>>, a) = <<a>>
  OBVIOUS
<1>2. ASSUME NEW a, NEW b PROVE Append(<<a>>, b) = <<a, b>>
  <2>1. /\ <<a>> \in Seq({a, b}) /\ <<a, b>> \in Seq({a, b})
        /\ b \in {a, b} /\ Len(<<a, b>>) = 2
    OBVIOUS
  <2>2. Append(<<a>>, b) \in Seq({a, b}) /\ Len(Append(<<a>>, b)) = 2
        /\ \A i \in 1..2 : Append(<<a>>, b)[i] = <<a, b>>[i]
    BY <2>1, AppendProperties
  <2> QED BY <2>1, <2>2, SeqEqual
<1>3. ASSUME NEW a, NEW b, NEW c PROVE Append(<<a, b>>, c) = <<a, b, c>>
  <2>1. /\ <<a, b>> \in Seq({a, b, c}) /\ <<a, b, c>> \in Seq({a, b, c})
        /\ c \in {a, b, c} /\ Len(<<a, b, c>>) = 3
    OBVIOUS
  <2>2. Append(<<a, b>>, c) \in Seq({a, b, c}) /\ Len(Append(<<a, b>>, c)) = 3
        /\ \A i \in 1..3 : Append(<<a, b>>, c)[i] = <<a, b, c>>[i]
    BY <2>1, AppendProperties
  <2> QED BY <2>1, <2>2, SeqEqual
<1> QED BY <1>1, <1>2, <1>3

LEMMA LineKinds ==
  /\ \A cu : Heading(cu)[1] = "header" /\ Heading(cu)[2] = cu
  /\ \A v : Entry(v)[1] = "entry"
  /\ Zeros[1] = "zeros"
BY DEF Heading, Entry, Zeros

LEMMA InitAranges == Init => ArangesInv
<1> SUFFICES ASSUME Init, display = "aranges" PROVE ArangesInv
  BY DEF ArangesInv
<1>1. input \in Seq(Ranges) /\ out = <<>> /\ pos = 0 /\ done = FALSE /\ prev_offset = NoOffset
  BY DEF Init, Ranges
<1>2. Len(input) \in Nat
  BY <1>1, LenProperties
<1>3. [j \in 1..0 |-> 0] \in [1..pos -> Nat]
  BY <1>1
<1>4. Printed([j \in 1..0 |-> 0])
  BY <1>1 DEF Printed, Placed, Together, HeadersPlaced, Ended
<1>5. \E place \in [1..pos -> Nat] : Printed(place)
  BY <1>3, <1>4
<1>6. out \in Seq(ArangesLines) /\ pos \in 0..Len(input)
  BY <1>1, <1>2
<1> QED
  BY <1>1, <1>5, <1>6 DEF ArangesInv

\* Before the first entry of a unit there is none of it.
LEMMA TableStarts ==
  ASSUME OneSetPerUnit, input \in Seq(Ranges),
         NEW i \in 1..Len(input), NEW j \in 1..Len(input), i < j, NewTable(j)
  PROVE  input[i].cu # input[j].cu
<1>1. DOMAIN input = 1..Len(input) /\ Len(input) \in Nat
  BY LenProperties
<1>2. j # 1 /\ input[j].cu # input[j - 1].cu
  BY DEF NewTable
<1>3. CASE i = j - 1
  BY <1>2, <1>3
<1>4. CASE i # j - 1
  <2>1. j - 1 \in DOMAIN input /\ i < j - 1 /\ j - 1 < j
    BY <1>1, <1>2, <1>4
  <2>2. input[i].cu = input[j].cu => input[j - 1].cu = input[i].cu
    BY <1>1, <2>1 DEF OneSetPerUnit
  <2> QED BY <1>2, <2>2
<1> QED BY <1>3, <1>4

\* What one pass appends: the entry, under a header if it is the first of its
\* unit, behind the zeros if there is a table before.
LEMMA ArangesLineAppends ==
  ASSUME ArangesInv, OneSetPerUnit, ArangesLine
  PROVE  LET n == IF ~NewTable(pos + 1) THEN 1 ELSE IF pos = 0 THEN 2 ELSE 3
             size == Len(out)
         IN  /\ out' \in Seq(ArangesLines) /\ Len(out') = size + n
             /\ \A k \in 1..size : out'[k] = out[k]
             /\ out'[size + n] = Entry(input[pos + 1])
             /\ n > 1 => out'[size + n - 1] = Heading(input[pos + 1].cu)
             /\ n = 3 => out'[size + 1] = Zeros
<1> DEFINE entry == input[pos + 1]
           terminator == IF entry # input[1] THEN <<Zeros>> ELSE <<>>
           heading == IF prev_offset # entry.cu
                      THEN Append(terminator, Heading(entry.cu)) ELSE <<>>
<1>1. /\ display = "aranges" /\ pos < Len(input)
      /\ out' = out \o Append(heading, Entry(entry))
  BY DEF ArangesLine
<1>2. /\ input \in Seq(Ranges) /\ out \in Seq(ArangesLines) /\ pos \in 0..Len(input)
      /\ prev_offset = IF pos = 0 THEN NoOffset ELSE input[pos].cu
      /\ Len(input) \in Nat /\ Len(out) \in Nat /\ pos \in Nat
  BY <1>1, LenProperties DEF ArangesInv
<1>3. pos + 1 \in 1..Len(input) /\ DOMAIN input = 1..Len(input)
  BY <1>1, <1>2, LenProperties
<1>4. entry \in Ranges /\ entry.cu \in Nat
  <2>1. input[pos + 1] \in Ranges
    BY <1>2, <1>3, ElementOfSeq
  <2> QED BY <2>1 DEF Ranges
<1>5. {Entry(entry), Heading(entry.cu), Zeros} \subseteq ArangesLines
  BY <1>4 DEF ArangesLines
<1>6. NewTable(pos + 1) <=> prev_offset # entry.cu
  <2>1. CASE pos = 0
    BY <1>2, <1>4, <2>1 DEF NewTable
  <2>2. CASE pos # 0
    BY <1>2, <2>2 DEF NewTable
  <2> QED BY <2>1, <2>2
<1>7. NewTable(pos + 1) => (entry # input[1] <=> pos # 0)
  <2>1. CASE pos = 0
    BY <2>1
  <2>2. ASSUME pos # 0, NewTable(pos + 1) PROVE entry # input[1]
    <3>1. /\ input[pos].cu # input[pos + 1].cu /\ pos \in 1..Len(input)
          /\ 1 \in 1..Len(input) /\ pos < pos + 1
      BY <1>2, <1>3, <2>2 DEF NewTable
    <3>2. pos = 1 \/ 1 < pos
      BY <3>1
    <3>3. input[1].cu # input[pos + 1].cu
      BY <1>3, <3>1, <3>2 DEF OneSetPerUnit
    <3> QED BY <3>3
  <2> QED BY <2>1, <2>2
<1> DEFINE appended == IF ~NewTable(pos + 1) THEN <<Entry(entry)>>
                       ELSE IF pos = 0 THEN <<Heading(entry.cu), Entry(entry)>>
                       ELSE <<Zeros, Heading(entry.cu), Entry(entry)>>
           n == IF ~NewTable(pos + 1) THEN 1 ELSE IF pos = 0 THEN 2 ELSE 3
<1>8. Append(heading, Entry(entry)) = appended
  <2>1. CASE ~NewTable(pos + 1)
    <3>1. heading = <<>>
      BY <1>6, <2>1
    <3> HIDE DEF heading, entry
    <3> QED BY <2>1, <3>1
  <2>2. CASE NewTable(pos + 1) /\ pos = 0
    <3>1. terminator = <<>>
      BY <1>7, <2>2
    <3>2. heading = <<Heading(entry.cu)>>
      <4> HIDE DEF terminator, entry
      <4> QED BY <1>6, <2>2, <3>1
    <3> HIDE DEF terminator, heading, entry
    <3>3. Append(heading, Entry(entry)) = <<Heading(entry.cu), Entry(entry)>>
      BY <3>2, ShortAppends
    <3> QED BY <2>2, <3>3
  <2>3. CASE NewTable(pos + 1) /\ pos # 0
    <3>1. terminator = <<Zeros>>
      BY <1>7, <2>3
    <3>2. heading = <<Zeros, Heading(entry.cu)>>
      <4> HIDE DEF terminator, entry
      <4> QED BY <1>6, <2>3, <3>1, ShortAppends
    <3> HIDE DEF terminator, heading, entry
    <3>3. Append(heading, Entry(entry)) = <<Zeros, Heading(entry.cu), Entry(entry)>>
      BY <3>2, ShortAppends
    <3> QED BY <2>3, <3>3
  <2> QED BY <2>1, <2>2, <2>3
<1>9. /\ appended \in Seq(ArangesLines) /\ Len(appended) = n
      /\ appended[n] = Entry(entry)
      /\ n > 1 => appended[n - 1] = Heading(entry.cu)
      /\ n = 3 => appended[1] = Zeros
  <2> HIDE DEF entry
  <2> QED BY <1>5
<1>10. n \in 1..3
  OBVIOUS
<1>11. out' = out \o appended
  BY <1>1, <1>8
<1> HIDE DEF appended, n, entry
<1>12. /\ out' \in Seq(ArangesLines) /\ Len(out') = Len(out) + n
       /\ \A i \in 1..Len(out) + n : out'[i] = IF i <= Len(out) THEN out[i]
                                              ELSE appended[i - Len(out)]
  BY <1>2, <1>9, <1>11, ConcatProperties
<1>13. /\ \A k \in 1..Len(out) : out'[k] = out[k]
       /\ \A i \in 1..n : out'[Len(out) + i] = appended[i]
  <2>1. \A k \in 1..Len(out) : out'[k] = out[k]
    BY <1>2, <1>10, <1>12
  <2>2. ASSUME NEW i \in 1..n PROVE out'[Len(out) + i] = appended[i]
    <3>1. Len(out) + i \in 1..Len(out) + n /\ ~(Len(out) + i <= Len(out))
          /\ (Len(out) + i) - Len(out) = i
      BY <1>2, <1>10
    <3> QED BY <1>12, <3>1
  <2> QED BY <2>1, <2>2
<1>14. /\ out'[Len(out) + n] = Entry(entry)
       /\ n > 1 => out'[Len(out) + n - 1] = Heading(entry.cu)
       /\ n = 3 => out'[Len(out) + 1] = Zeros
  <2>1. n > 1 => n - 1 \in 1..n /\ Len(out) + (n - 1) = Len(out) + n - 1
    BY <1>2, <1>10
  <2> QED BY <1>9, <1>10, <1>13, <2>1
<1> QED
  BY <1>12, <1>13, <1>14 DEF n, entry

\* What has a place keeps it when lines are appended.
LEMMA PlacedStays ==
  ASSUME NEW CONSTANT place, NEW CONSTANT place2, NEW CONSTANT j \in Nat,
         NEW CONSTANT size \in Nat, NEW CONSTANT n \in Nat,
         Placed(place, j), place2[j] = place[j],
         j # 1 => place[j - 1] \in Nat /\ place2[j - 1] = place[j - 1],
         input' = input, Len(out) = size, Len(out') = size + n,
         \A k \in 1..size : out'[k] = out[k]
  PROVE  Placed(place2, j)'
<1>1. place[j] \in 1..size /\ out[place[j]] = Entry(input[j])
  BY DEF Placed
<1>2. place2[j] \in 1..size + n /\ out'[place2[j]] = Entry(input[j])
  BY <1>1
<1>3. NewTable(j)' <=> NewTable(j)
  BY DEF NewTable
<1>4. NewTable(j) => place2[j] >= 2 /\ out'[place2[j] - 1] = Heading(input[j].cu)
  <2> SUFFICES ASSUME NewTable(j)
               PROVE  place2[j] >= 2 /\ out'[place2[j] - 1] = Heading(input[j].cu)
    OBVIOUS
  <2>1. place[j] >= 2 /\ out[place[j] - 1] = Heading(input[j].cu)
    BY DEF Placed
  <2>2. place[j] - 1 \in 1..size
    BY <1>1, <2>1
  <2> QED BY <2>1, <2>2
<1>5. j = 1 => place2[j] = 2
  BY DEF Placed
<1>6. j # 1 /\ NewTable(j) => /\ place2[j] = place2[j - 1] + 3
                               /\ out'[place2[j] - 2] = Zeros
  <2> SUFFICES ASSUME j # 1, NewTable(j)
               PROVE  place2[j] = place2[j - 1] + 3 /\ out'[place2[j] - 2] = Zeros
    OBVIOUS
  <2>1. place[j] = place[j - 1] + 3 /\ out[place[j] - 2] = Zeros
    BY DEF Placed
  <2>2. place[j] - 2 \in 1..size
    BY <1>1, <2>1
  <2> QED BY <2>1, <2>2
<1> QED
  BY <1>2, <1>3, <1>4, <1>5, <1>6 DEF Placed

LEMMA ArangesLineHolds ==
  ASSUME ArangesInv, ArangesLine
  PROVE  ArangesInv'
<1> SUFFICES ASSUME OneSetPerUnit PROVE ArangesInv'
  BY DEF ArangesLine, ArangesInv, OneSetPerUnit
<1>1. /\ display = "aranges" /\ input' = input /\ done' = done /\ ~done
      /\ pos < Len(input) /\ pos' = pos + 1 /\ prev_offset' = input[pos + 1].cu
  BY DEF ArangesLine
<1>2. /\ input \in Seq(Ranges) /\ Len(input) \in Nat /\ pos \in Nat
      /\ out \in Seq(ArangesLines) /\ Len(out) \in Nat
  BY <1>1, LenProperties DEF ArangesInv
<1>17. PICK p \in Nat : p = pos
  BY <1>2
<1>18. PICK place \in [1..p -> Nat] : Printed(place)
  BY <1>1, <1>17 DEF ArangesInv
<1>3. p = pos /\ Printed(place)
  BY <1>17, <1>18
<1>4. PICK size \in Nat, n \in 1..3 :
        /\ size = Len(out)
        /\ n = IF ~NewTable(p + 1) THEN 1 ELSE IF p = 0 THEN 2 ELSE 3
        /\ out' \in Seq(ArangesLines) /\ Len(out') = size + n
        /\ \A k \in 1..size : out'[k] = out[k]
        /\ out'[size + n] = Entry(input[p + 1])
        /\ n > 1 => out'[size + n - 1] = Heading(input[p + 1].cu)
        /\ n = 3 => out'[size + 1] = Zeros
  <2> DEFINE n == IF ~NewTable(pos + 1) THEN 1 ELSE IF pos = 0 THEN 2 ELSE 3
  <2>1. n \in 1..3
    OBVIOUS
  <2> QED BY <1>2, <1>3, <2>1, ArangesLineAppends
<1>5. p + 1 \in 1..Len(input) /\ pos' = p + 1
  BY <1>1, <1>2, <1>3
<1>6. size = IF p = 0 THEN 0 ELSE place[p]
  BY <1>1, <1>3, <1>4 DEF Printed, Ended
<1>7. PICK place2 \in [1..p + 1 -> Nat] :
        place2[p + 1] = size + n /\ \A j \in 1..p : place2[j] = place[j]
  <2> DEFINE f == [j \in 1..p + 1 |-> IF j \in 1..p THEN place[j] ELSE size + n]
  <2>1. f \in [1..p + 1 -> Nat] /\ f[p + 1] = size + n /\ \A j \in 1..p : f[j] = place[j]
    OBVIOUS
  <2> QED BY <2>1
<1>8. \A j : (NewTable(j))' = NewTable(j)
  BY <1>1 DEF NewTable
<1>9. ASSUME NEW j \in 1..p PROVE Placed(place2, j)'
  <2>1. Placed(place, j)
    BY <1>3 DEF Printed
  <2>2. place2[j] = place[j] /\ j \in Nat
        /\ (j # 1 => place[j - 1] \in Nat /\ place2[j - 1] = place[j - 1])
    BY <1>7
  <2> QED
    BY <1>1, <1>4, <2>1, <2>2, PlacedStays, ZenonT(40)
<1>10. Placed(place2, p + 1)'
  <2>1. p # 0 => place2[p] = size
    BY <1>6, <1>7
  <2>2. size + n \in 1..size + n
    BY <1>4
  <2>3. NewTable(p + 1) => n > 1 /\ size + n >= 2
    BY <1>4
  <2>4. p + 1 = 1 => NewTable(p + 1) /\ size = 0 /\ n = 2
    BY <1>4, <1>6 DEF NewTable
  <2>5. p + 1 # 1 /\ NewTable(p + 1) =>
          n = 3 /\ (size + n) - 2 = size + 1 /\ (p + 1) - 1 = p /\ p # 0
    BY <1>4
  <2>6. /\ place2[p + 1] \in 1..Len(out') /\ out'[place2[p + 1]] = Entry(input'[p + 1])
        /\ p + 1 = 1 => place2[p + 1] = 2
    BY <1>1, <1>4, <1>7, <2>2, <2>4
  <2>7. NewTable(p + 1) => /\ place2[p + 1] >= 2
                           /\ out'[place2[p + 1] - 1] = Heading(input'[p + 1].cu)
    BY <1>1, <1>4, <1>7, <2>3
  <2>8. p + 1 # 1 /\ NewTable(p + 1) =>
          /\ place2[p + 1] = place2[(p + 1) - 1] + 3
          /\ out'[place2[p + 1] - 2] = Zeros
    BY <1>4, <1>7, <2>1, <2>5
  <2> QED
    BY <1>8, <2>6, <2>7, <2>8 DEF Placed
<1>11. \A j \in 1..p + 1 : j \in 1..p \/ j = p + 1
  OBVIOUS
<1>12. Together(place2)'
  <2> SUFFICES ASSUME NEW i \in 1..p + 1, NEW j \in 1..p + 1, i < j,
                      input[i].cu = input[j].cu
               PROVE  place2[j] = place2[i] + (j - i)
    BY <1>1, <1>5 DEF Together
  <2>1. i \in 1..p /\ place2[i] = place[i] /\ place[i] \in Nat
    BY <1>7
  <2>2. CASE j \in 1..p
    BY <1>3, <1>7, <2>1, <2>2 DEF Printed, Together
  <2>3. CASE j = p + 1
    <3>1. ~NewTable(p + 1)
      <4>1. i \in 1..Len(input)
        BY <1>2, <1>5, <2>1
      <4> QED BY <1>2, <1>5, <2>3, <4>1, TableStarts
    <3>2. n = 1 /\ input[p].cu = input[p + 1].cu /\ p # 0
      BY <1>4, <3>1 DEF NewTable
    <3>3. place[p] = place[i] + (p - i)
      <4>1. CASE i = p
        BY <2>1, <4>1
      <4>2. CASE i # p
        <5>1. i < p /\ p \in 1..p
          BY <2>1, <4>2
        <5> QED BY <1>3, <2>1, <2>3, <3>2, <5>1 DEF Printed, Together
      <4> QED BY <4>1, <4>2
    <3> QED
      BY <1>6, <1>7, <2>1, <2>3, <3>2, <3>3
  <2> QED BY <1>11, <2>2, <2>3
<1>13. HeadersPlaced(place2)'
  <2> SUFFICES ASSUME NEW k \in 1..size + n, out'[k][1] = "header"
               PROVE  \E j \in 1..p + 1 : NewTable(j) /\ k = place2[j] - 1
    BY <1>4, <1>5, <1>8 DEF HeadersPlaced
  <2>1. CASE k \in 1..size
    <3>1. PICK j \in 1..p : NewTable(j) /\ k = place[j] - 1
      BY <1>3, <1>4, <2>1 DEF Printed, HeadersPlaced
    <3> QED BY <1>7, <3>1
  <2>2. CASE k = size + n
    BY <1>4, <2>2, LineKinds
  <2>3. CASE k = size + 1 /\ n = 3
    BY <1>4, <2>3, LineKinds
  <2>4. CASE k = size + n - 1 /\ n > 1
    <3>1. NewTable(p + 1)
      BY <1>4, <2>4
    <3>2. k = place2[p + 1] - 1 /\ p + 1 \in 1..p + 1
      BY <1>7, <2>4
    <3> QED BY <3>1, <3>2
  <2>5. \/ k \in 1..size \/ k = size + n
        \/ (k = size + 1 /\ n = 3) \/ (k = size + n - 1 /\ n > 1)
    OBVIOUS
  <2> QED BY <2>1, <2>2, <2>3, <2>4, <2>5
<1>14. Ended(place2)'
  BY <1>1, <1>4, <1>5, <1>7 DEF Ended
<1>15. Printed(place2)'
  BY <1>5, <1>9, <1>10, <1>11, <1>12, <1>13, <1>14 DEF Printed
<1>16. pos' \in 0..Len(input)
       /\ prev_offset' = IF pos' = 0 THEN NoOffset ELSE input[pos'].cu
  BY <1>1, <1>2, <1>3, <1>5
<1> QED
  BY <1>1, <1>2, <1>4, <1>5, <1>7, <1>15, <1>16 DEF ArangesInv

LEMMA ArangesEndHolds ==
  ASSUME ArangesInv, ArangesEnd
  PROVE  ArangesInv'
<1> SUFFICES ASSUME OneSetPerUnit PROVE ArangesInv'
  BY DEF ArangesEnd, ArangesInv, OneSetPerUnit
<1>1. /\ display = "aranges" /\ input' = input /\ done' /\ ~done
      /\ pos = Len(input) /\ pos' = pos /\ prev_offset' = prev_offset
      /\ out' = IF input = <<>> THEN out ELSE Append(out, Zeros)
  BY DEF ArangesEnd
<1>2. /\ input \in Seq(Ranges) /\ Len(input) \in Nat /\ pos \in Nat
      /\ out \in Seq(ArangesLines) /\ Len(out) \in Nat /\ pos \in 0..Len(input)
      /\ prev_offset = IF pos = 0 THEN NoOffset ELSE input[pos].cu
  BY <1>1, LenProperties DEF ArangesInv
<1>3. PICK place \in [1..pos -> Nat] : Printed(place)
  BY <1>1 DEF ArangesInv
<1>4. CASE input = <<>>
  <2>1. pos = 0 /\ out' = out
    BY <1>1, <1>4
  <2>2. Printed(place)'
    BY <1>1, <1>3, <2>1 DEF Printed, Placed, Together, HeadersPlaced, Ended, NewTable
  <2> QED
    BY <1>1, <1>2, <1>3, <2>1, <2>2 DEF ArangesInv
<1>5. CASE input # <<>>
  <2>1. PICK size \in Nat :
          /\ size = Len(out) /\ Len(out') = size + 1 /\ out'[size + 1] = Zeros
          /\ \A k \in 1..size : out'[k] = out[k]
          /\ out' \in Seq(ArangesLines)
    <3>1. Zeros \in ArangesLines /\ out' = Append(out, Zeros)
      BY <1>1, <1>5 DEF ArangesLines
    <3> QED BY <1>2, <3>1, AppendProperties
  <2>2. pos # 0
    BY <1>1, <1>2, <1>5, EmptySeq
  <2>3. size = place[pos]
    BY <1>1, <1>3, <2>1, <2>2 DEF Printed, Ended
  <2>4. ASSUME NEW j \in 1..pos PROVE Placed(place, j)'
    <3>1. Placed(place, j)
      BY <1>3 DEF Printed
    <3>2. j \in Nat /\ (j # 1 => place[j - 1] \in Nat)
      BY <1>2
    <3> QED
      BY <1>1, <2>1, <3>1, <3>2, PlacedStays
  <2>5. Together(place)'
    BY <1>1, <1>3 DEF Printed, Together
  <2>6. HeadersPlaced(place)'
    <3> SUFFICES ASSUME NEW k \in 1..size + 1, out'[k][1] = "header"
                 PROVE  \E j \in 1..pos : NewTable(j) /\ k = place[j] - 1
      BY <1>1, <2>1 DEF HeadersPlaced, NewTable
    <3>1. k # size + 1
      BY <2>1, LineKinds
    <3>2. k \in 1..size
      BY <2>1, <3>1
    <3> QED BY <1>3, <2>1, <3>2 DEF Printed, HeadersPlaced
  <2>7. Ended(place)'
    BY <1>1, <2>1, <2>3 DEF Ended
  <2>8. Printed(place)'
    BY <1>1, <2>4, <2>5, <2>6, <2>7 DEF Printed
  <2> QED
    BY <1>1, <1>2, <1>3, <2>1, <2>8 DEF ArangesInv
<1> QED BY <1>4, <1>5

LEMMA ArangesStays ==
  ASSUME ArangesInv, [Next]_vars
  PROVE  ArangesInv'
<1>1. CASE ArangesLine \/ ArangesEnd
  BY <1>1, ArangesLineHolds, ArangesEndHolds
<1>2. CASE display # "aranges"
  BY <1>2, DisplayStays DEF ArangesInv
<1>3. CASE UNCHANGED vars
  <2>1. /\ display' = display /\ input' = input /\ pos' = pos /\ out' = out
        /\ done' = done /\ prev_offset' = prev_offset
    BY <1>3 DEF vars
  <2>2. ASSUME NEW CONSTANT place PROVE Printed(place) => Printed(place)'
    BY <2>1 DEF Printed, Placed, Together, HeadersPlaced, Ended, NewTable
  <2>3. OneSetPerUnit' <=> OneSetPerUnit
    BY <2>1 DEF OneSetPerUnit
  <2> QED
    BY <2>1, <2>2, <2>3 DEF ArangesInv
<1> QED
  BY <1>1, <1>2, <1>3
     DEF Next, vars, NothingToDump, Dumps, HexLine, HexEnds, StringLine,
         StringsEnd, DieLine, InfoEnds, NamesGroup, NamesEnd, Finished

\* The entries of a unit follow its first one.
LEMMA UnitTogether ==
  ASSUME OneSetPerUnit, input \in Seq(Ranges),
         NEW j \in 1..Len(input), NewTable(j)
  PROVE  \E m \in j..Len(input) : CuSet(input[j].cu) = j..m
<1> DEFINE S == CuSet(input[j].cu)
<1>1. DOMAIN input = 1..Len(input) /\ Len(input) \in Nat /\ j \in Nat
  BY LenProperties
<1>2. /\ S \in SUBSET Nat /\ j \in S
      /\ \A y \in S : y \in 1..Len(input) /\ input[y].cu = input[j].cu
      /\ \A y \in 1..Len(input) : input[y].cu = input[j].cu => y \in S
  BY <1>1 DEF CuSet
<1> HIDE DEF S
<1>3. PICK m \in S : \A y \in S : y <= m
  <2>1. S # {} /\ \A y \in S : y <= Len(input)
    BY <1>2
  <2>2. Max(S) \in S /\ \A y \in S : y <= Max(S)
    BY <1>1, <1>2, <2>1, MaxOf
  <2> QED BY <2>2
<1>4. m \in j..Len(input)
  BY <1>1, <1>2, <1>3
<1>5. ASSUME NEW y \in S PROVE y \in j..m
  <2>1. y \in 1..Len(input) /\ input[y].cu = input[j].cu /\ y <= m
    BY <1>2, <1>3
  <2>2. ~(y < j)
    BY <2>1, TableStarts
  <2> QED BY <1>1, <1>4, <2>1, <2>2
<1>6. ASSUME NEW y \in j..m PROVE y \in S
  <2>1. y \in 1..Len(input) /\ m \in 1..Len(input) /\ input[m].cu = input[j].cu
    BY <1>1, <1>2, <1>3, <1>4
  <2>2. CASE y = j \/ y = m
    BY <1>2, <1>3, <2>2
  <2>3. CASE y # j /\ y # m
    <3>1. j < y /\ y < m
      BY <1>1, <1>4, <2>3
    <3>2. input[y].cu = input[j].cu
      BY <1>1, <2>1, <3>1 DEF OneSetPerUnit
    <3> QED BY <1>2, <2>1, <3>2
  <2> QED BY <2>2, <2>3
<1>7. S = j..m
  BY <1>5, <1>6
<1> QED
  BY <1>4, <1>7 DEF S

\* A table: the header, the ranges of the unit, the zeros.
LEMMA TablePrinted ==
  ASSUME OneSetPerUnit, input \in Seq(Ranges), out \in Seq(ArangesLines),
         done, pos = Len(input),
         NEW place \in [1..pos -> Nat], Printed(place),
         NEW j \in 1..pos, NewTable(j), NEW m \in j..pos,
         CuSet(input[j].cu) = j..m
  PROVE  /\ \A x \in j..m : /\ place[x] = place[j] + (x - j)
                            /\ out[place[x]] = Entry(input[x])
         /\ place[m] + 1 \in 1..Len(out)
         /\ out[place[m] + 1] = Zeros
<1>1. /\ DOMAIN input = 1..pos /\ pos \in Nat /\ j \in Nat /\ m \in 1..pos
      /\ Len(out) \in Nat /\ place[m] \in Nat /\ place[j] \in Nat
  BY LenProperties
<1>2. ASSUME NEW x \in j..m
      PROVE  place[x] = place[j] + (x - j) /\ out[place[x]] = Entry(input[x])
  <2>1. x \in 1..pos /\ input[x].cu = input[j].cu
    BY <1>1 DEF CuSet
  <2>2. out[place[x]] = Entry(input[x])
    BY <2>1 DEF Printed, Placed
  <2>3. CASE x = j
    BY <1>1, <2>2, <2>3
  <2>4. CASE x # j
    <3>1. j < x
      BY <1>1, <2>4
    <3>2. place[x] = place[j] + (x - j)
      BY <2>1, <3>1 DEF Printed, Together
    <3> QED BY <2>2, <3>2
  <2> QED BY <2>3, <2>4
<1>3. place[m] + 1 \in 1..Len(out) /\ out[place[m] + 1] = Zeros
  <2>1. CASE m = pos
    <3>1. Len(out) = place[m] + 1 /\ out[Len(out)] = Zeros
      BY <1>1, <2>1 DEF Printed, Ended
    <3> QED BY <1>1, <3>1
  <2>2. CASE m # pos
    <3>1. m + 1 \in 1..pos /\ m + 1 # 1 /\ (m + 1) - 1 = m
      BY <1>1, <2>2
    <3>2. m + 1 \notin j..m /\ m \in j..m
      BY <1>1
    <3>3. input[m + 1].cu # input[j].cu /\ input[m].cu = input[j].cu
      BY <1>1, <3>1, <3>2 DEF CuSet
    <3>4. NewTable(m + 1)
      BY <3>1, <3>3 DEF NewTable
    <3>5. Placed(place, m + 1)
      BY <3>1 DEF Printed
    <3>6. /\ place[m + 1] = place[m] + 3 /\ place[m + 1] \in 1..Len(out)
          /\ out[place[m + 1] - 2] = Zeros
      BY <3>1, <3>4, <3>5 DEF Placed
    <3>7. place[m + 1] - 2 = place[m] + 1
      BY <1>1, <3>6
    <3> QED BY <1>1, <3>6, <3>7
  <2> QED BY <2>1, <2>2
<1> QED BY <1>2, <1>3

\* What has been printed at the end of the dump is in groups.
LEMMA TablesPrinted ==
  ASSUME ArangesInv, display = "aranges", done, OneSetPerUnit
  PROVE  ArangesGrouped
<1>1. PICK place \in [1..pos -> Nat] : Printed(place)
  BY DEF ArangesInv
<1>2. /\ input \in Seq(Ranges) /\ out \in Seq(ArangesLines) /\ pos = Len(input)
      /\ DOMAIN input = 1..pos /\ DOMAIN out = 1..Len(out)
      /\ pos \in Nat /\ Len(out) \in Nat
  BY <1>1, LenProperties DEF ArangesInv, Printed, Ended
<1>3. ASSUME NEW k \in DOMAIN out, out[k][1] = "header"
      PROVE  /\ k = 1 \/ out[k - 1] = Zeros
             /\ \E n \in 1..Len(out) - k - 1 :
                  /\ out[k + n + 1] = Zeros
                  /\ {out[k + i] : i \in 1..n}
                       = {Entry(input[j]) : j \in CuSet(out[k][2])}
                  /\ n = Cardinality(CuSet(out[k][2]))
  <2>1. PICK j \in 1..pos : NewTable(j) /\ k = place[j] - 1
    BY <1>1, <1>2, <1>3 DEF Printed, HeadersPlaced
  <2>2. Placed(place, j) /\ place[j] \in Nat /\ k \in Nat /\ k >= 1 /\ j \in Nat
    BY <1>1, <1>2, <2>1 DEF Printed
  <2>3. out[k] = Heading(input[j].cu) /\ out[k][2] = input[j].cu
    BY <2>1, <2>2, LineKinds DEF Placed
  <2>4. k = 1 \/ out[k - 1] = Zeros
    <3>1. CASE j = 1
      BY <2>1, <2>2, <3>1 DEF Placed
    <3>2. CASE j # 1
      <4>1. out[place[j] - 2] = Zeros /\ place[j] - 2 = k - 1
        BY <2>1, <2>2, <3>2 DEF Placed
      <4> QED BY <4>1
    <3> QED BY <3>1, <3>2
  <2>5. PICK m \in j..pos : CuSet(input[j].cu) = j..m
    BY <1>2, <2>1, UnitTogether
  <2>6. m \in Nat /\ m >= j /\ m \in j..m
    BY <1>2, <2>2
  <2>7. /\ \A x \in j..m : /\ place[x] = place[j] + (x - j)
                            /\ out[place[x]] = Entry(input[x])
        /\ place[m] + 1 \in 1..Len(out)
        /\ out[place[m] + 1] = Zeros
    <3>1. OneSetPerUnit /\ done /\ j \in 1..pos /\ NewTable(j) /\ Printed(place)
      BY <1>1, <2>1
    <3> HIDE DumpsAssumption
    <3> QED BY <1>2, <2>5, <3>1, TablePrinted
  <2>8. PICK n \in Nat : n = m - j + 1
    BY <2>2, <2>6
  <2>9. place[m] + 1 = k + n + 1 /\ n \in 1..Len(out) - k - 1
    <3>1. place[m] = place[j] + (m - j)
      BY <2>6, <2>7
    <3>2. place[m] + 1 = k + n + 1
      BY <2>1, <2>2, <2>6, <2>8, <3>1
    <3>3. place[m] + 1 <= Len(out)
      BY <2>7
    <3>4. n >= 1
      BY <2>2, <2>6, <2>8
    <3> QED BY <1>2, <2>2, <3>2, <3>3, <3>4
  <2>10. ASSUME NEW i \in 1..n
         PROVE  j + i - 1 \in j..m /\ out[k + i] = Entry(input[j + i - 1])
    <3>1. j + i - 1 \in j..m
      BY <2>2, <2>6, <2>8
    <3>2. place[j + i - 1] = k + i
      <4>1. place[j + i - 1] = place[j] + ((j + i - 1) - j)
        BY <2>7, <3>1
      <4> QED BY <2>1, <2>2, <2>8, <4>1
    <3> QED BY <2>7, <3>1, <3>2
  <2>11. ASSUME NEW x \in j..m
         PROVE  x - j + 1 \in 1..n /\ out[k + (x - j + 1)] = Entry(input[x])
    <3>1. x - j + 1 \in 1..n /\ j + (x - j + 1) - 1 = x
      BY <2>2, <2>6, <2>8
    <3> QED BY <2>10, <3>1
  <2>12. {out[k + i] : i \in 1..n} = {Entry(input[x]) : x \in j..m}
    BY <2>10, <2>11
  <2>13. Cardinality(j..m) = n
    BY <2>2, <2>6, <2>8, FS_Interval
  <2> QED
    BY <2>3, <2>4, <2>5, <2>7, <2>9, <2>12, <2>13
<1>4. ASSUME NEW j \in DOMAIN input
      PROVE  Cardinality({k \in DOMAIN out : out[k] = Heading(input[j].cu)}) = 1
  <2> DEFINE S == CuSet(input[j].cu)
  <2>1. S \in SUBSET Nat /\ j \in S
    BY <1>2 DEF CuSet
  <2>2. PICK f \in S : \A y \in S : f <= y
    <3> HIDE DEF S
    <3> QED BY <2>1, MinOf
  <2>3. f \in 1..pos /\ input[f].cu = input[j].cu
    BY <1>2, <2>2 DEF CuSet
  <2>4. NewTable(f)
    <3>1. CASE f = 1
      BY <3>1 DEF NewTable
    <3>2. CASE f # 1
      <4>1. f - 1 \in 1..pos /\ ~(f <= f - 1)
        BY <1>2, <2>3, <3>2
      <4>2. f - 1 \notin S
        BY <2>2, <4>1
      <4>3. input[f - 1].cu # input[j].cu
        BY <1>2, <4>1, <4>2 DEF CuSet
      <4> QED BY <2>3, <4>3 DEF NewTable
    <3> QED BY <3>1, <3>2
  <2>5. Placed(place, f) /\ place[f] \in Nat
    BY <1>1, <2>3 DEF Printed
  <2>6. place[f] - 1 \in DOMAIN out /\ out[place[f] - 1] = Heading(input[j].cu)
    BY <1>2, <2>3, <2>4, <2>5 DEF Placed
  <2>7. ASSUME NEW k \in DOMAIN out, out[k] = Heading(input[j].cu)
        PROVE  k = place[f] - 1
    <3>1. k \in 1..Len(out) /\ out[k][1] = "header"
      BY <1>2, <2>7, LineKinds
    <3>2. PICK g \in 1..pos : NewTable(g) /\ k = place[g] - 1
      BY <1>1, <3>1 DEF Printed, HeadersPlaced
    <3>3. Placed(place, g)
      BY <1>1 DEF Printed
    <3>4. Heading(input[g].cu) = Heading(input[j].cu)
      BY <2>7, <3>2, <3>3 DEF Placed
    <3>5. input[g].cu = input[f].cu
      BY <2>3, <3>4, LineKinds
    <3>6. ~(g < f) /\ ~(f < g)
      BY <1>2, <2>3, <2>4, <3>2, <3>5, TableStarts
    <3>7. g = f
      BY <1>2, <2>3, <3>6
    <3> QED BY <3>2, <3>7
  <2>8. {k \in DOMAIN out : out[k] = Heading(input[j].cu)} = {place[f] - 1}
    BY <2>6, <2>7
  <2> QED BY <2>8, FS_Singleton
<1> QED
  BY <1>3, <1>4 DEF ArangesGrouped

-----------------------------------------------------------------------------
(* The pubnames and pubtypes dumps. *)

NameSets  == [cu : Nat, names : Seq(STRING)]
NamePairs == [name : STRING, cu : Nat]

\* The pairs of each set, which Pairs concatenates.
PairsOf == [k \in DOMAIN input |->
             [i \in DOMAIN input[k].names |->
                [name |-> input[k].names[i], cu |-> input[k].cu]]]

LEMMA PairsTypes ==
  ASSUME input \in Seq(NameSets)
  PROVE  /\ Pairs = FlattenSeq(PairsOf)
         /\ PairsOf \in Seq(Seq(NamePairs)) /\ Len(PairsOf) = Len(input)
         /\ \A k \in 1..Len(input) :
              /\ Len(PairsOf[k]) = Len(input[k].names)
              /\ \A i \in 1..Len(input[k].names) :
                   PairsOf[k][i] = [name |-> input[k].names[i], cu |-> input[k].cu]
         /\ Pairs \in Seq(NamePairs) /\ Len(Pairs) \in Nat
<1>1. /\ DOMAIN input = 1..Len(input) /\ Len(input) \in Nat
      /\ \A k \in 1..Len(input) : input[k] \in NameSets
  BY LenProperties
<1>2. ASSUME NEW k \in 1..Len(input)
      PROVE  /\ PairsOf[k] \in Seq(NamePairs)
             /\ Len(PairsOf[k]) = Len(input[k].names)
             /\ \A i \in 1..Len(input[k].names) :
                  PairsOf[k][i] = [name |-> input[k].names[i], cu |-> input[k].cu]
  <2>1. input[k].names \in Seq(STRING) /\ input[k].cu \in Nat
    BY <1>1 DEF NameSets
  <2>2. PICK names \in Seq(STRING), cu \in Nat :
          names = input[k].names /\ cu = input[k].cu
    BY <2>1
  <2>3. /\ DOMAIN names = 1..Len(names) /\ Len(names) \in Nat
        /\ \A i \in 1..Len(names) : names[i] \in STRING
    BY LenProperties
  <2>4. PairsOf[k] = [i \in 1..Len(names) |-> [name |-> names[i], cu |-> cu]]
    BY <1>1, <2>2, <2>3 DEF PairsOf
  <2>5. \A i \in 1..Len(names) : [name |-> names[i], cu |-> cu] \in NamePairs
    BY <2>3 DEF NamePairs
  <2>6. PairsOf[k] \in Seq(NamePairs) /\ Len(PairsOf[k]) = Len(names)
    BY <2>3, <2>4, <2>5
  <2> QED BY <2>2, <2>4, <2>6
<1>3. PairsOf \in Seq(Seq(NamePairs)) /\ Len(PairsOf) = Len(input)
  <2>1. PairsOf \in [1..Len(input) -> Seq(NamePairs)]
    <3>1. DOMAIN PairsOf = 1..Len(input) /\ PairsOf = [k \in 1..Len(input) |-> PairsOf[k]]
      BY <1>1 DEF PairsOf
    <3> QED BY <1>2, <3>1
  <2> QED BY <1>1, <2>1
<1>4. Pairs = FlattenSeq(PairsOf)
  BY DEF Pairs, PairsOf
<1>5. FlattenSeq(PairsOf) \in Seq(NamePairs)
  <2>1. Len(PairsOf) \in 0..Len(PairsOf)
    BY <1>1, <1>3
  <2> QED BY <1>3, <2>1, FlatSteps
<1> QED
  BY <1>2, <1>3, <1>4, <1>5, LenProperties

\* An assignment to the dictionary.
LEMMA PutTypes ==
  ASSUME NEW items \in Seq(NamePairs), NEW pair \in NamePairs
  PROVE  /\ Put(items, pair) \in Seq(NamePairs)
         /\ Len(Put(items, pair)) \in {Len(items), Len(items) + 1}
<1>1. DOMAIN items = 1..Len(items) /\ Len(items) \in Nat
  BY LenProperties
<1>2. CASE \E k \in DOMAIN items : items[k].name = pair.name
  <2> DEFINE t == [k \in 1..Len(items) |->
                    IF items[k].name = pair.name THEN pair ELSE items[k]]
  <2>1. t \in [1..Len(items) -> NamePairs]
    BY <1>1
  <2>2. Put(items, pair) = t
    BY <1>1, <1>2 DEF Put
  <2> HIDE DEF t
  <2>3. t \in Seq(NamePairs) /\ Len(t) = Len(items)
    BY <1>1, <2>1
  <2> QED BY <2>2, <2>3
<1>3. CASE ~\E k \in DOMAIN items : items[k].name = pair.name
  BY <1>3, AppendProperties DEF Put
<1> QED BY <1>2, <1>3

\* The dictionary is filled pair by pair.
LEMMA ItemsSteps ==
  ASSUME input \in Seq(NameSets)
  PROVE  \E f \in [0..Len(Pairs) -> Seq(NamePairs)] :
           /\ f[0] = <<>> /\ Items = f[Len(Pairs)]
           /\ \A i \in 1..Len(Pairs) : f[i] = Put(f[i - 1], Pairs[i])
<1>1. PICK N \in Nat, P \in Seq(NamePairs) : N = Len(Pairs) /\ P = Pairs
  BY PairsTypes
<1> DEFINE Good(g, n) == g = [i \in 0..n |-> IF i = 0 THEN <<>> ELSE Put(g[i - 1], P[i])]
           T == {n \in Nat : n <= N => \E g \in [0..n -> Seq(NamePairs)] : Good(g, n)}
<1>2. <<>> \in Seq(NamePairs) /\ \A i \in 1..N : P[i] \in NamePairs
  BY <1>1, EmptySeq, ElementOfSeq
<1>3. 0 \in T
  <2>1. [i \in 0..0 |-> <<>>] \in [0..0 -> Seq(NamePairs)]
    BY <1>2
  <2>2. Good([i \in 0..0 |-> <<>>], 0)
    OBVIOUS
  <2> QED BY <2>1, <2>2
<1>4. ASSUME NEW n \in Nat, n \in T PROVE n + 1 \in T
  <2> HIDE DEF Good
  <2> SUFFICES ASSUME n + 1 <= N PROVE \E g \in [0..n + 1 -> Seq(NamePairs)] : Good(g, n + 1)
    BY DEF T
  <2>1. PICK g \in [0..n -> Seq(NamePairs)] : Good(g, n)
    <3>1. n <= N
      OBVIOUS
    <3> QED BY <1>4, <3>1
  <2> DEFINE last == Put(g[n], P[n + 1])
             h == [i \in 0..n + 1 |-> IF i <= n THEN g[i] ELSE last]
  <2>2. last \in Seq(NamePairs)
    <3>1. g[n] \in Seq(NamePairs) /\ P[n + 1] \in NamePairs
      BY <1>2
    <3> QED BY <3>1, PutTypes
  <2>3. h \in [0..n + 1 -> Seq(NamePairs)]
    <3>1. \A i \in 0..n + 1 : i <= n => g[i] \in Seq(NamePairs)
      BY <2>1
    <3> HIDE DEF last
    <3> QED BY <2>2, <3>1
  <2>4. ASSUME NEW i \in 0..n + 1
        PROVE  h[i] = IF i = 0 THEN <<>> ELSE Put(h[i - 1], P[i])
    <3>1. CASE i <= n
      <4> DEFINE Part(j) == IF j = 0 THEN <<>> ELSE Put(g[j - 1], P[j])
      <4>1. g = [j \in 0..n |-> Part(j)]
        BY <2>1 DEF Good
      <4>2. i \in 0..n /\ h[i] = g[i] /\ (i # 0 => h[i - 1] = g[i - 1])
        BY <3>1
      <4> HIDE DEF Part, h
      <4>3. g[i] = Part(i)
        BY <4>1, <4>2
      <4>4. QED BY <4>2, <4>3 DEF Part
    <3>2. CASE i = n + 1
      <4>1. h[i] = last /\ i # 0 /\ i - 1 = n /\ h[n] = g[n]
        BY <3>2
      <4> QED BY <3>2, <4>1
    <3>3. QED BY <3>1, <3>2
  <2>5. Good(h, n + 1)
    <3> HIDE DEF h
    <3>1. h = [i \in 0..n + 1 |-> h[i]]
      BY <2>3
    <3>2. [i \in 0..n + 1 |-> h[i]]
            = [i \in 0..n + 1 |-> IF i = 0 THEN <<>> ELSE Put(h[i - 1], P[i])]
      BY <2>4
    <3> QED BY <3>1, <3>2, Zenon DEF Good
  <2> HIDE DEF h
  <2> QED BY <2>3, <2>5
<1>5. \E g \in [0..N -> Seq(NamePairs)] : Good(g, N)
  <2>1. N \in T
    <3> HIDE DEF T
    <3> QED BY <1>1, <1>3, <1>4, NatInduct, Zenon
  <2> HIDE DEF Good
  <2> QED BY <2>1
<1>6. \E f : Good(f, N)
  BY <1>5, Zenon
<1> DEFINE f == CHOOSE f : Good(f, N)
<1>7. Good(f, N)
  BY <1>6, Zenon
<1>8. Items = f[N]
  BY <1>1 DEF Items
<1> HIDE DEF f
<1>9. DOMAIN f = 0..N /\ f[0] = <<>> /\ \A i \in 1..N : f[i] = Put(f[i - 1], P[i])
  <2> DEFINE Part(j) == IF j = 0 THEN <<>> ELSE Put(f[j - 1], P[j])
  <2>1. f = [j \in 0..N |-> Part(j)]
    BY <1>7, Zenon
  <2> HIDE DEF Part
  <2>2. DOMAIN f = 0..N /\ \A j \in 0..N : f[j] = Part(j)
    BY <2>1
  <2>3. f[0] = <<>>
    BY <2>2 DEF Part
  <2>4. ASSUME NEW i \in 1..N PROVE f[i] = Put(f[i - 1], P[i])
    <3>1. i \in 0..N /\ i # 0
      OBVIOUS
    <3>2. f[i] = Part(i)
      BY <2>2, <3>1
    <3> QED BY <3>1, <3>2 DEF Part
  <2> QED BY <2>2, <2>3, <2>4
<1>10. \A i \in 0..N : f[i] \in Seq(NamePairs)
  <2> DEFINE V == {n \in Nat : n <= N => f[n] \in Seq(NamePairs)}
  <2>1. 0 \in V
    BY <1>2, <1>9
  <2>2. ASSUME NEW n \in Nat, n \in V PROVE n + 1 \in V
    <3> SUFFICES ASSUME n + 1 <= N PROVE f[n + 1] \in Seq(NamePairs)
      OBVIOUS
    <3>1. n + 1 \in 1..N /\ (n + 1) - 1 = n /\ n <= N
      OBVIOUS
    <3>2. f[n] \in Seq(NamePairs) /\ P[n + 1] \in NamePairs
      BY <1>2, <2>2, <3>1
    <3>3. f[n + 1] = Put(f[n], P[n + 1])
      BY <1>9, <3>1
    <3> QED BY <3>2, <3>3, PutTypes
  <2>3. Nat \subseteq V
    <3> HIDE DEF V
    <3> QED BY <2>1, <2>2, NatInduct, Zenon
  <2> QED BY <2>3
<1>11. f \in [0..N -> Seq(NamePairs)]
  <2>1. f = [i \in 0..N |-> f[i]]
    BY <1>7
  <2> QED BY <1>10, <2>1
<1> QED BY <1>1, <1>8, <1>9, <1>11

\* The dictionary has no more items than it was given pairs: as many if no name
\* comes twice, and only then, and they are the pairs in their order.
LEMMA ItemsBounds ==
  ASSUME input \in Seq(NameSets)
  PROVE  /\ Items \in Seq(NamePairs) /\ Len(Items) \in Nat
         /\ Len(Items) <= Len(Pairs)
         /\ (\A i, j \in DOMAIN Pairs : SameName(i, j) => i = j) => Items = Pairs
         /\ Len(Items) = Len(Pairs) => \A i, j \in DOMAIN Pairs : SameName(i, j) => i = j
<1>1. PICK f \in [0..Len(Pairs) -> Seq(NamePairs)] :
        /\ f[0] = <<>> /\ Items = f[Len(Pairs)]
        /\ \A i \in 1..Len(Pairs) : f[i] = Put(f[i - 1], Pairs[i])
  BY ItemsSteps
<1>2. PICK N \in Nat, P \in Seq(NamePairs) : N = Len(Pairs) /\ P = Pairs
  BY PairsTypes
<1>3. /\ \A i \in 0..N : f[i] \in Seq(NamePairs) /\ Len(f[i]) \in Nat
      /\ DOMAIN P = 1..N /\ \A i \in 1..N : P[i] \in NamePairs
      /\ Len(f[0]) = 0
  BY <1>1, <1>2, LenProperties, EmptySeq
<1> DEFINE Distinct == \A i, j \in 1..N : P[i].name = P[j].name => i = j
           Apart(n) == /\ \A k \in 1..n : f[n][k] = P[k]
                       /\ \A i, j \in 1..n : P[i].name = P[j].name => i = j
           T == {n \in Nat : n <= N => /\ Len(f[n]) <= n
                                       /\ Distinct => /\ Len(f[n]) = n
                                                      /\ \A k \in 1..n : f[n][k] = P[k]
                                       /\ Len(f[n]) = n => Apart(n)}
<1>4. 0 \in T
  BY <1>3
<1>5. ASSUME NEW n \in Nat, n \in T PROVE n + 1 \in T
  <2> SUFFICES ASSUME n + 1 <= N
               PROVE  /\ Len(f[n + 1]) <= n + 1
                      /\ Distinct => /\ Len(f[n + 1]) = n + 1
                                     /\ \A k \in 1..n + 1 : f[n + 1][k] = P[k]
                      /\ Len(f[n + 1]) = n + 1 => Apart(n + 1)
    OBVIOUS
  <2>1. /\ n \in 0..N /\ n + 1 \in 1..N /\ n + 1 \in 0..N /\ n <= N /\ (n + 1) - 1 = n
    OBVIOUS
  <2>2. f[n + 1] = Put(f[n], P[n + 1]) /\ f[n] \in Seq(NamePairs) /\ Len(f[n]) \in Nat
        /\ P[n + 1] \in NamePairs /\ Len(f[n + 1]) \in Nat /\ Len(f[n]) <= n
    BY <1>1, <1>2, <1>3, <1>5, <2>1
  <2>3. Len(f[n + 1]) <= n + 1
    <3>1. Len(Put(f[n], P[n + 1])) \in {Len(f[n]), Len(f[n]) + 1}
      BY <2>2, PutTypes
    <3> QED BY <2>2, <3>1
  <2>4. ASSUME Distinct
        PROVE  Len(f[n + 1]) = n + 1 /\ \A k \in 1..n + 1 : f[n + 1][k] = P[k]
    <3>1. Len(f[n]) = n /\ \A k \in 1..n : f[n][k] = P[k]
      BY <1>5, <2>1, <2>4
    <3>2. DOMAIN f[n] = 1..n
      BY <2>2, <3>1, LenProperties
    <3>3. ~\E k \in DOMAIN f[n] : f[n][k].name = P[n + 1].name
      <4>1. ASSUME NEW k \in 1..n PROVE f[n][k].name # P[n + 1].name
        <5>1. k \in 1..N /\ k # n + 1 /\ f[n][k] = P[k]
          BY <2>1, <3>1
        <5> QED BY <2>1, <2>4, <5>1
      <4> QED BY <3>2, <4>1
    <3>4. f[n + 1] = Append(f[n], P[n + 1])
      BY <2>2, <3>3 DEF Put
    <3>5. /\ Len(f[n + 1]) = n + 1 /\ f[n + 1][n + 1] = P[n + 1]
          /\ \A k \in 1..n : f[n + 1][k] = f[n][k]
      BY <2>2, <3>1, <3>4, AppendProperties
    <3>6. \A k \in 1..n + 1 : k \in 1..n \/ k = n + 1
      OBVIOUS
    <3> QED BY <3>1, <3>5, <3>6
  <2>5. ASSUME Len(f[n + 1]) = n + 1 PROVE Apart(n + 1)
    <3>1. ~\E k \in DOMAIN f[n] : f[n][k].name = P[n + 1].name
      <4> SUFFICES ASSUME \E k \in DOMAIN f[n] : f[n][k].name = P[n + 1].name
                   PROVE  FALSE
        OBVIOUS
      <4>1. f[n + 1] = [k \in DOMAIN f[n] |->
                         IF f[n][k].name = P[n + 1].name THEN P[n + 1] ELSE f[n][k]]
        BY <2>2 DEF Put
      <4>2. DOMAIN f[n + 1] = DOMAIN f[n]
        BY <4>1
      <4>3. /\ DOMAIN f[n] = 1..Len(f[n]) /\ f[n + 1] \in Seq(NamePairs)
            /\ DOMAIN f[n + 1] = 1..Len(f[n + 1])
        BY <1>3, <2>1, LenProperties
      <4>4. n + 1 \in 1..Len(f[n])
        BY <2>5, <4>2, <4>3
      <4> QED BY <2>2, <4>4
    <3>2. f[n + 1] = Append(f[n], P[n + 1])
      BY <2>2, <3>1 DEF Put
    <3>3. Len(f[n]) = n
      BY <2>2, <2>5, <3>2, AppendProperties
    <3>4. Apart(n)
      BY <1>5, <2>1, <3>3
    <3>5. /\ f[n + 1][n + 1] = P[n + 1]
          /\ \A k \in 1..n : f[n + 1][k] = f[n][k]
      BY <2>2, <3>2, <3>3, AppendProperties
    <3>6. \A k \in 1..n + 1 : k \in 1..n \/ k = n + 1
      OBVIOUS
    <3>7. \A k \in 1..n : P[k].name # P[n + 1].name
      <4>1. DOMAIN f[n] = 1..n
        BY <2>2, <3>3, LenProperties
      <4> QED BY <3>1, <3>4, <4>1
    <3> QED BY <3>4, <3>5, <3>6, <3>7
  <2> QED BY <2>3, <2>4, <2>5
<1>6. N \in T
  <2> HIDE DEF T
  <2> QED BY <1>4, <1>5, NatInduct, Zenon
<1>7. N \in 0..N
  OBVIOUS
<1>8. Items \in Seq(NamePairs) /\ Len(Items) \in Nat /\ Len(Items) <= N
  BY <1>1, <1>2, <1>3, <1>6, <1>7
<1>9. Distinct => Items = P
  <2> SUFFICES ASSUME Distinct PROVE Items = P
    OBVIOUS
  <2>1. Len(f[N]) = N /\ \A k \in 1..N : f[N][k] = P[k]
    BY <1>6
  <2> QED BY <1>1, <1>2, <1>8, <2>1, SeqEqual
<1>10. Len(Items) = N => \A i, j \in 1..N : P[i].name = P[j].name => i = j
  BY <1>1, <1>2, <1>6
<1> QED BY <1>2, <1>3, <1>8, <1>9, <1>10 DEF SameName

\* A group ends at the last item that has the offset of its first one.
LEMMA GroupEndIs ==
  ASSUME NEW items \in Seq(NamePairs), pos \in Nat, pos < Len(items)
  PROVE  LET K == {k \in pos + 1..Len(items) :
                     \A j \in pos + 1..k : items[j].cu = items[pos + 1].cu}
         IN  GroupEnd(items) \in K /\ \A k \in K : k <= GroupEnd(items)
<1> DEFINE K == {k \in pos + 1..Len(items) :
                   \A j \in pos + 1..k : items[j].cu = items[pos + 1].cu}
<1>1. Len(items) \in Nat
  BY LenProperties
<1>2. K \in SUBSET Nat /\ \A k \in K : k <= Len(items)
  BY <1>1
<1>3. pos + 1 \in K
  BY <1>1
<1>4. GroupEnd(items) = Max(K)
  BY DEF GroupEnd
<1> HIDE DEF K
<1>5. Max(K) \in K /\ \A k \in K : k <= Max(K)
  BY <1>1, <1>2, <1>3, MaxOf
<1> QED BY <1>4, <1>5 DEF K

\* How far each loop has come, and the counter of the one that has one.
BoundsInv ==
  /\ display \in {"hex", "string", "info", "aranges", "names"}
  /\ done \in BOOLEAN
  /\ display # "info" => die_depth = 0
  /\ display = "aranges" => input \in Seq(Ranges) /\ pos \in 0..Len(input)
  /\ display = "names" => input \in Seq(NameSets) /\ pos \in 0..Len(Items)

LEMMA InitBounds == Init => BoundsInv
<1> SUFFICES ASSUME Init PROVE BoundsInv
  OBVIOUS
<1>1. /\ display \in {"hex", "string", "info", "aranges", "names"}
      /\ done \in BOOLEAN /\ die_depth = 0 /\ pos = 0
  BY DEF Init
<1>2. ASSUME display = "aranges" PROVE input \in Seq(Ranges) /\ pos \in 0..Len(input)
  <2>1. input \in Seq(Ranges)
    BY <1>2 DEF Init, Ranges
  <2> QED BY <1>1, <2>1, LenProperties
<1>3. ASSUME display = "names" PROVE input \in Seq(NameSets) /\ pos \in 0..Len(Items)
  <2>1. input \in Seq(NameSets)
    BY <1>3 DEF Init, NameSets
  <2>2. Len(Items) \in Nat
    BY <2>1, ItemsBounds
  <2> QED BY <1>1, <2>1, <2>2
<1> QED BY <1>1, <1>2, <1>3 DEF BoundsInv

LEMMA BoundsStay ==
  ASSUME BoundsInv, [Next]_vars
  PROVE  BoundsInv'
<1>1. display' = display /\ input' = input
  BY DisplayStays
<1>2. Items' = Items
  BY <1>1 DEF Items, Pairs
<1>3. done' \in BOOLEAN
  BY DEF BoundsInv, Next, vars, NothingToDump, HexLine, HexEnds, StringLine,
         StringsEnd, DieLine, InfoEnds, ArangesLine, ArangesEnd, NamesGroup,
         NamesEnd, Finished
<1>4. display # "info" => die_depth' = die_depth
  BY DEF Next, vars, NothingToDump, HexLine, HexEnds, StringLine,
         StringsEnd, DieLine, InfoEnds, ArangesLine, ArangesEnd, NamesGroup,
         NamesEnd, Finished
<1>5. ASSUME display = "aranges" PROVE pos' \in 0..Len(input)
  <2>1. input \in Seq(Ranges) /\ pos \in 0..Len(input)
    BY <1>5 DEF BoundsInv
  <2>2. pos' = pos \/ (pos < Len(input) /\ pos' = pos + 1)
    BY <1>5 DEF Next, vars, NothingToDump, Dumps, HexLine, HexEnds, StringLine,
                StringsEnd, DieLine, InfoEnds, ArangesLine, ArangesEnd, NamesGroup,
                NamesEnd, Finished
  <2>3. Len(input) \in Nat
    BY <2>1, LenProperties
  <2> QED BY <2>1, <2>2, <2>3
<1>6. ASSUME display = "names" PROVE pos' \in 0..Len(Items)
  <2>1. /\ pos \in 0..Len(Items) /\ Items \in Seq(NamePairs) /\ Len(Items) \in Nat
    BY <1>6, ItemsBounds DEF BoundsInv
  <2>2. pos' = pos \/ (pos < Len(Items) /\ pos' = GroupEnd(Items))
    BY <1>6 DEF Next, vars, NothingToDump, Dumps, HexLine, HexEnds, StringLine,
                StringsEnd, DieLine, InfoEnds, ArangesLine, ArangesEnd, NamesGroup,
                NamesEnd, Finished
  <2>3. pos < Len(Items) => GroupEnd(Items) \in pos + 1..Len(Items)
    <3> DEFINE K == {k \in pos + 1..Len(Items) :
                       \A j \in pos + 1..k : Items[j].cu = Items[pos + 1].cu}
    <3>1. pos < Len(Items) => GroupEnd(Items) \in K
      BY <2>1, GroupEndIs
    <3> QED BY <3>1
  <2> QED BY <2>1, <2>2, <2>3
<1> QED
  BY <1>1, <1>2, <1>3, <1>4, <1>5, <1>6 DEF BoundsInv

(* What the dump should print is the concatenation of Groups. *)

NameLines == {Heading(cu) : cu \in Nat} \cup {Entry(pair) : pair \in NamePairs}

LEMMA LinesAssociate ==
  ASSUME NEW a \in Seq(NameLines), NEW b \in Seq(NameLines), NEW c \in Seq(NameLines)
  PROVE  (a \o b) \o c = a \o (b \o c)
<1> HIDE DEF NameLines
<1> QED BY ConcatAssociative, SMTT(40)

LEMMA LinesConcat ==
  ASSUME NEW a \in Seq(NameLines), NEW b \in Seq(NameLines)
  PROVE  /\ a \o b \in Seq(NameLines)
         /\ Len(a) \in Nat /\ Len(b) \in Nat
         /\ Len(a \o b) = Len(a) + Len(b)
         /\ \A i \in 1..Len(a) + Len(b) :
              (a \o b)[i] = IF i <= Len(a) THEN a[i] ELSE b[i - Len(a)]
<1> HIDE DEF NameLines
<1> QED BY ConcatProperties, LenProperties, SMTT(40)

LEMMA GroupsTypes ==
  ASSUME input \in Seq(NameSets)
  PROVE  /\ Groups \in Seq(Seq(NameLines)) /\ Len(Groups) = Len(input)
         /\ \A k \in 1..Len(input) :
              /\ Groups[k] \in Seq(NameLines)
              /\ Len(Groups[k]) = 1 + Len(PairsOf[k])
              /\ Groups[k] = <<Heading(input[k].cu)>> \o
                              [i \in 1..Len(PairsOf[k]) |-> Entry(PairsOf[k][i])]
              /\ <<Heading(input[k].cu)>> \in Seq(NameLines)
              /\ [i \in 1..Len(PairsOf[k]) |-> Entry(PairsOf[k][i])] \in Seq(NameLines)
              /\ Groups[k][1] = Heading(input[k].cu)
              /\ \A i \in 1..Len(PairsOf[k]) : Groups[k][i + 1] = Entry(PairsOf[k][i])
<1>1. /\ DOMAIN input = 1..Len(input) /\ Len(input) \in Nat
      /\ \A k \in 1..Len(input) : input[k] \in NameSets
  BY LenProperties
<1>2. ASSUME NEW k \in 1..Len(input)
      PROVE  /\ Groups[k] \in Seq(NameLines)
             /\ Len(Groups[k]) = 1 + Len(PairsOf[k])
             /\ Groups[k] = <<Heading(input[k].cu)>> \o
                             [i \in 1..Len(PairsOf[k]) |-> Entry(PairsOf[k][i])]
             /\ <<Heading(input[k].cu)>> \in Seq(NameLines)
             /\ [i \in 1..Len(PairsOf[k]) |-> Entry(PairsOf[k][i])] \in Seq(NameLines)
             /\ Groups[k][1] = Heading(input[k].cu)
             /\ \A i \in 1..Len(PairsOf[k]) : Groups[k][i + 1] = Entry(PairsOf[k][i])
  <2>1. input[k].names \in Seq(STRING) /\ input[k].cu \in Nat
    BY <1>1 DEF NameSets
  <2>2. PICK names \in Seq(STRING), cu \in Nat, pairs \in Seq(NamePairs) :
          /\ names = input[k].names /\ cu = input[k].cu /\ pairs = PairsOf[k]
          /\ Len(pairs) = Len(names)
          /\ \A i \in 1..Len(names) : pairs[i] = [name |-> names[i], cu |-> cu]
    <3>1. PairsOf[k] \in Seq(NamePairs)
      BY PairsTypes, ElementOfSeq
    <3>2. /\ Len(PairsOf[k]) = Len(input[k].names)
          /\ \A i \in 1..Len(input[k].names) :
               PairsOf[k][i] = [name |-> input[k].names[i], cu |-> input[k].cu]
      BY PairsTypes
    <3> QED BY <2>1, <3>1, <3>2
  <2> DEFINE entries == [i \in 1..Len(names) |-> Entry(pairs[i])]
  <2>3. /\ DOMAIN names = 1..Len(names) /\ Len(names) \in Nat
        /\ \A i \in 1..Len(names) : pairs[i] \in NamePairs
    BY <2>2, LenProperties
  <2>4. Groups[k] = <<Heading(cu)>> \o entries
    <3>1. Groups[k] = <<Heading(cu)>> \o
                      [i \in 1..Len(names) |-> Entry([name |-> names[i], cu |-> cu])]
      BY <1>1, <2>2, <2>3 DEF Groups
    <3>2. [i \in 1..Len(names) |-> Entry([name |-> names[i], cu |-> cu])] = entries
      BY <2>2
    <3> QED BY <3>1, <3>2
  <2>5. /\ entries \in Seq(NameLines) /\ Len(entries) = Len(names)
        /\ \A i \in 1..Len(names) : entries[i] = Entry(pairs[i])
    <3>1. \A i \in 1..Len(names) : Entry(pairs[i]) \in NameLines
      BY <2>3 DEF NameLines
    <3> QED BY <2>3, <3>1
  <2>6. <<Heading(cu)>> \in Seq(NameLines) /\ Len(<<Heading(cu)>>) = 1
    <3>1. Heading(cu) \in NameLines
      BY DEF NameLines
    <3> QED BY <3>1
  <2> HIDE DEF entries
  <2>7. /\ <<Heading(cu)>> \o entries \in Seq(NameLines)
        /\ Len(<<Heading(cu)>> \o entries) = 1 + Len(names)
        /\ \A i \in 1..1 + Len(names) :
             (<<Heading(cu)>> \o entries)[i]
               = IF i <= 1 THEN <<Heading(cu)>>[i] ELSE entries[i - 1]
    BY <2>5, <2>6, ConcatProperties
  <2>8. (<<Heading(cu)>> \o entries)[1] = Heading(cu)
    BY <2>3, <2>7
  <2>9. ASSUME NEW i \in 1..Len(names)
        PROVE  (<<Heading(cu)>> \o entries)[i + 1] = Entry(pairs[i])
    <3>1. i + 1 \in 1..1 + Len(names) /\ ~(i + 1 <= 1) /\ (i + 1) - 1 = i
      BY <2>3
    <3> QED BY <2>5, <2>7, <3>1
  <2>10. entries = [i \in 1..Len(PairsOf[k]) |-> Entry(PairsOf[k][i])]
    BY <2>2 DEF entries
  <2> QED BY <2>2, <2>4, <2>5, <2>6, <2>7, <2>8, <2>9, <2>10
<1>3. Groups \in Seq(Seq(NameLines)) /\ Len(Groups) = Len(input)
  <2>1. DOMAIN Groups = 1..Len(input) /\ Groups = [k \in 1..Len(input) |-> Groups[k]]
    BY <1>1 DEF Groups
  <2>2. Groups \in [1..Len(input) -> Seq(NameLines)]
    BY <1>2, <2>1
  <2> QED BY <1>1, <2>2
<1> QED BY <1>2, <1>3

\* A set that is not empty has pairs, all with its offset.
LEMMA SetPairs ==
  ASSUME input \in Seq(NameSets), NEW k \in 1..Len(input)
  PROVE  /\ PairsOf[k] \in Seq(NamePairs)
         /\ Len(PairsOf[k]) \in Nat
         /\ Len(PairsOf[k]) = 0 <=> input[k].names = <<>>
         /\ \A i \in 1..Len(PairsOf[k]) : PairsOf[k][i].cu = input[k].cu
<1>1. k \in DOMAIN input /\ input[k] \in NameSets
  BY LenProperties, ElementOfSeq
<1>2. input[k].names \in Seq(STRING)
  BY <1>1 DEF NameSets
<1>3. /\ Len(input[k].names) \in Nat
      /\ Len(input[k].names) = 0 <=> input[k].names = <<>>
  BY <1>2, EmptySeq
<1>4. /\ Len(PairsOf[k]) = Len(input[k].names)
      /\ \A i \in 1..Len(input[k].names) :
           PairsOf[k][i] = [name |-> input[k].names[i], cu |-> input[k].cu]
  BY PairsTypes
<1>5. PairsOf[k] \in Seq(NamePairs)
  BY PairsTypes, ElementOfSeq
<1>6. Len(PairsOf[k]) \in Nat /\ (Len(PairsOf[k]) = 0 <=> input[k].names = <<>>)
  BY <1>3, <1>4
<1>7. \A i \in 1..Len(PairsOf[k]) : PairsOf[k][i].cu = input[k].cu
  <2> SUFFICES ASSUME NEW i \in 1..Len(PairsOf[k]) PROVE PairsOf[k][i].cu = input[k].cu
    OBVIOUS
  <2>1. PairsOf[k][i] = [name |-> input[k].names[i], cu |-> input[k].cu]
    BY <1>4
  <2> QED BY <2>1
<1> QED BY <1>5, <1>6, <1>7

\* The lines of set k, and where they are in what the dump should print.
LEMMA SetLines ==
  ASSUME input \in Seq(NameSets), NEW k \in 1..Len(input)
  PROVE  \E b \in Nat :
           /\ b = Len(Flat(Groups, k - 1))
           /\ Len(Flat(Groups, k)) = b + 1 + Len(PairsOf[k])
           /\ Len(Flat(Groups, k)) <= Len(FlattenSeq(Groups))
           /\ FlattenSeq(Groups)[b + 1] = Heading(input[k].cu)
           /\ \A i \in 1..Len(PairsOf[k]) :
                FlattenSeq(Groups)[b + 1 + i] = Entry(PairsOf[k][i])
<1>1. /\ Groups \in Seq(Seq(NameLines)) /\ Len(Groups) = Len(input) /\ Len(input) \in Nat
      /\ Groups[k] \in Seq(NameLines) /\ Len(Groups[k]) = 1 + Len(PairsOf[k])
      /\ Groups[k][1] = Heading(input[k].cu)
      /\ \A i \in 1..Len(PairsOf[k]) : Groups[k][i + 1] = Entry(PairsOf[k][i])
  BY GroupsTypes, LenProperties
<1>2. /\ k - 1 \in 0..Len(Groups) - 1 /\ (k - 1) + 1 = k /\ k \in 0..Len(Groups)
      /\ k - 1 \in 0..Len(Groups)
  BY <1>1
<1>3. PICK front \in Seq(NameLines), group \in Seq(NameLines), all \in Seq(NameLines) :
        /\ front = Flat(Groups, k - 1) /\ group = Groups[k]
        /\ all = FlattenSeq(Groups)
        /\ Flat(Groups, k) = front \o group
  <2>1. /\ Flat(Groups, k - 1) \in Seq(NameLines)
        /\ Flat(Groups, Len(Groups)) \in Seq(NameLines)
        /\ Flat(Groups, Len(Groups)) = FlattenSeq(Groups)
    <3>1. Len(Groups) \in 0..Len(Groups)
      BY <1>1
    <3> QED BY <1>1, <1>2, <3>1, FlatSteps
  <2>2. Flat(Groups, (k - 1) + 1) = Flat(Groups, k - 1) \o Groups[(k - 1) + 1]
    BY <1>1, <1>2, FlatSteps
  <2> QED BY <1>1, <1>2, <2>1, <2>2
<1>4. PICK b \in Nat, n \in Nat :
        b = Len(front) /\ n = Len(PairsOf[k]) /\ Len(group) = 1 + n
  <2>1. Len(front) \in Nat /\ Len(PairsOf[k]) \in Nat
    BY LenProperties, SetPairs
  <2> QED BY <1>1, <1>3, <2>1
<1>5. /\ Len(front \o group) = b + (1 + n)
      /\ \A i \in 1..b + (1 + n) :
           (front \o group)[i] = IF i <= b THEN front[i] ELSE group[i - b]
  <2>1. /\ Len(front \o group) = Len(front) + Len(group)
        /\ \A i \in 1..Len(front) + Len(group) :
             (front \o group)[i] = IF i <= Len(front) THEN front[i] ELSE group[i - Len(front)]
    BY ConcatProperties
  <2> QED BY <1>4, <2>1
<1>6. /\ Len(front \o group) <= Len(all)
      /\ \A i \in 1..b + (1 + n) : all[i] = (front \o group)[i]
  <2>1. /\ Len(Flat(Groups, k)) <= Len(FlattenSeq(Groups))
        /\ \A i \in 1..Len(Flat(Groups, k)) : FlattenSeq(Groups)[i] = Flat(Groups, k)[i]
    BY <1>1, <1>2, FlatPrefix
  <2> QED BY <1>3, <1>5, <2>1
<1>7. all[b + 1] = group[1]
  <2>1. b + 1 \in 1..b + (1 + n) /\ ~(b + 1 <= b) /\ (b + 1) - b = 1
    OBVIOUS
  <2> QED BY <1>5, <1>6, <2>1
<1>8. ASSUME NEW i \in 1..n PROVE all[b + 1 + i] = group[i + 1]
  <2>1. b + 1 + i \in 1..b + (1 + n) /\ ~(b + 1 + i <= b) /\ (b + 1 + i) - b = i + 1
    OBVIOUS
  <2> QED BY <1>5, <1>6, <2>1
<1>9. Len(Flat(Groups, k)) = b + 1 + n /\ Len(Flat(Groups, k)) <= Len(all)
  <2>1. b + (1 + n) = b + 1 + n
    OBVIOUS
  <2> QED BY <1>3, <1>5, <1>6, <2>1, Zenon
<1>10. group[1] = Heading(input[k].cu)
       /\ \A i \in 1..n : group[i + 1] = Entry(PairsOf[k][i])
  BY <1>1, <1>3, <1>4
<1>11. /\ b = Len(Flat(Groups, k - 1))
       /\ FlattenSeq(Groups)[b + 1] = Heading(input[k].cu)
       /\ \A i \in 1..Len(PairsOf[k]) :
            FlattenSeq(Groups)[b + 1 + i] = Entry(PairsOf[k][i])
  BY <1>3, <1>4, <1>7, <1>8, <1>10
<1> QED BY <1>3, <1>4, <1>9, <1>11

\* It has a line for every set and one for every pair.
LEMMA AllLines ==
  ASSUME input \in Seq(NameSets)
  PROVE  /\ Len(FlattenSeq(Groups)) = Len(Pairs) + Len(input)
         /\ Len(Pairs) \in Nat /\ Len(input) \in Nat
<1>1. /\ Groups \in Seq(Seq(NameLines)) /\ Len(Groups) = Len(input) /\ Len(input) \in Nat
      /\ PairsOf \in Seq(Seq(NamePairs)) /\ Len(PairsOf) = Len(input)
      /\ Pairs = FlattenSeq(PairsOf) /\ Len(Pairs) \in Nat
  BY GroupsTypes, PairsTypes, LenProperties
<1>2. PICK N \in Nat : N = Len(input)
  BY <1>1
<1> DEFINE T == {h \in Nat : h <= N =>
                  /\ Len(Flat(PairsOf, h)) \in Nat
                  /\ Len(Flat(Groups, h)) = Len(Flat(PairsOf, h)) + h}
<1>3. 0 \in T
  <2>1. Flat(Groups, 0) = <<>> /\ Flat(PairsOf, 0) = <<>>
    BY <1>1, FlatSteps
  <2>2. Len(Flat(Groups, 0)) = 0 /\ Len(Flat(PairsOf, 0)) = 0
    BY <2>1, EmptySeq
  <2> QED BY <2>2
<1>4. ASSUME NEW h \in Nat, h \in T PROVE h + 1 \in T
  <2> SUFFICES ASSUME h + 1 <= N
               PROVE  /\ Len(Flat(PairsOf, h + 1)) \in Nat
                      /\ Len(Flat(Groups, h + 1)) = Len(Flat(PairsOf, h + 1)) + (h + 1)
    OBVIOUS
  <2>1. /\ h + 1 \in 1..N /\ (h + 1) - 1 = h /\ h \in 0..N - 1 /\ h \in 0..N
        /\ h <= N
    OBVIOUS
  <2>2. PICK pairs \in Seq(NamePairs), set \in Seq(NamePairs), p \in Nat, n \in Nat :
          /\ pairs = Flat(PairsOf, h) /\ set = PairsOf[h + 1]
          /\ p = Len(pairs) /\ n = Len(set)
          /\ Flat(PairsOf, h + 1) = pairs \o set
    <3>1. Flat(PairsOf, h) \in Seq(NamePairs) /\ PairsOf[h + 1] \in Seq(NamePairs)
      BY <1>1, <1>2, <2>1, FlatSteps, ElementOfSeq
    <3>2. Flat(PairsOf, h + 1) = Flat(PairsOf, h) \o PairsOf[h + 1]
      BY <1>1, <1>2, <2>1, FlatSteps
    <3>3. Len(Flat(PairsOf, h)) \in Nat /\ Len(PairsOf[h + 1]) \in Nat
      BY <3>1, LenProperties
    <3> QED BY <3>1, <3>2, <3>3
  <2>3. Len(Flat(PairsOf, h + 1)) = p + n
    BY <2>2, ConcatProperties
  <2>4. Len(Flat(Groups, h)) = p + h
    BY <1>4, <2>1, <2>2
  <2>5. Len(Flat(Groups, h + 1)) = (p + h) + 1 + n
    <3>1. Len(Flat(Groups, h + 1)) = Len(Flat(Groups, (h + 1) - 1)) + 1 + Len(PairsOf[h + 1])
      BY <1>2, <2>1, SetLines
    <3> QED BY <2>1, <2>2, <2>4, <3>1
  <2> QED BY <2>3, <2>5
<1>5. N \in T
  <2> HIDE DEF T
  <2> QED BY <1>3, <1>4, NatInduct, Zenon
<1>6. Flat(Groups, N) = FlattenSeq(Groups) /\ Flat(PairsOf, N) = FlattenSeq(PairsOf)
  BY <1>1, <1>2, FlatSteps
<1> QED BY <1>1, <1>2, <1>5, <1>6

\* After h groups the dump has printed what it should for the first h sets.
GroupsDone(h) ==
  /\ out = Flat(Groups, h)
  /\ pos = Len(Flat(PairsOf, h))
  /\ HeadersUsed = h

NamesInv ==
  display = "names" /\ Separable =>
    /\ input \in Seq(NameSets)
    /\ \E h \in 0..Len(input) : GroupsDone(h)
    /\ done => pos = Len(Items) \/ HeadersUsed = Len(input)

LEMMA InitNames == Init => NamesInv
<1> SUFFICES ASSUME Init, display = "names" PROVE NamesInv
  BY DEF NamesInv
<1>1. input \in Seq(NameSets) /\ out = <<>> /\ pos = 0 /\ done = FALSE
  BY DEF Init, NameSets
<1>2. Flat(Groups, 0) = <<>> /\ Flat(PairsOf, 0) = <<>> /\ Len(Flat(PairsOf, 0)) = 0
  BY <1>1, GroupsTypes, PairsTypes, FlatSteps, EmptySeq
<1>3. HeadersUsed = 0
  <2>1. {k \in DOMAIN out : out[k][1] = "header"} = {}
    BY <1>1
  <2> QED BY <2>1, FS_EmptySet DEF HeadersUsed
<1>4. GroupsDone(0)
  BY <1>1, <1>2, <1>3 DEF GroupsDone
<1>5. 0 \in 0..Len(input)
  BY <1>1, LenProperties
<1> QED
  BY <1>1, <1>4, <1>5 DEF NamesInv

\* The items of a set are a group, and the next one starts behind it.
LEMMA GroupIsSet ==
  ASSUME input \in Seq(NameSets), Separable,
         NEW h \in 0..Len(input) - 1, pos = Len(Flat(PairsOf, h)), pos < Len(Items)
  PROVE  /\ Items = Pairs
         /\ GroupEnd(Items) = pos + Len(PairsOf[h + 1])
         /\ GroupEnd(Items) = Len(Flat(PairsOf, h + 1))
         /\ \A i \in 1..Len(PairsOf[h + 1]) : Items[pos + i] = PairsOf[h + 1][i]
<1>1. /\ Items = Pairs /\ Pairs = FlattenSeq(PairsOf) /\ Items \in Seq(NamePairs)
      /\ PairsOf \in Seq(Seq(NamePairs)) /\ Len(PairsOf) = Len(input) /\ Len(input) \in Nat
      /\ Len(Items) \in Nat
  BY ItemsBounds, PairsTypes, LenProperties DEF Separable
<1>2. PICK N \in Nat, P \in Seq(NamePairs), L \in Nat :
        N = Len(input) /\ P = Pairs /\ L = Len(P)
  BY <1>1
<1>3. /\ h \in 0..N /\ h + 1 \in 0..N /\ h + 1 \in 1..N /\ h \in Nat
      /\ h \in 0..Len(PairsOf) - 1
  BY <1>1, <1>2
<1>4. /\ Flat(PairsOf, h) \in Seq(NamePairs) /\ PairsOf[h + 1] \in Seq(NamePairs)
      /\ Flat(PairsOf, h + 1) = Flat(PairsOf, h) \o PairsOf[h + 1]
  BY <1>1, <1>2, <1>3, FlatSteps, ElementOfSeq
<1>5. PICK p \in Nat, size \in Nat :
        /\ p = pos /\ size = Len(PairsOf[h + 1])
        /\ Len(Flat(PairsOf, h + 1)) = p + size
        /\ \A i \in 1..size : Flat(PairsOf, h + 1)[p + i] = PairsOf[h + 1][i]
  <2>1. /\ Len(Flat(PairsOf, h)) \in Nat /\ Len(PairsOf[h + 1]) \in Nat
        /\ Len(Flat(PairsOf, h + 1)) = Len(Flat(PairsOf, h)) + Len(PairsOf[h + 1])
        /\ \A i \in 1..Len(Flat(PairsOf, h)) + Len(PairsOf[h + 1]) :
             Flat(PairsOf, h + 1)[i]
               = IF i <= Len(Flat(PairsOf, h)) THEN Flat(PairsOf, h)[i]
                 ELSE PairsOf[h + 1][i - Len(Flat(PairsOf, h))]
    BY <1>4, LenProperties, ConcatProperties
  <2>2. PICK p \in Nat, size \in Nat : p = pos /\ size = Len(PairsOf[h + 1])
    BY <2>1
  <2>3. ASSUME NEW i \in 1..size PROVE Flat(PairsOf, h + 1)[p + i] = PairsOf[h + 1][i]
    <3>1. p + i \in 1..p + size /\ ~(p + i <= p) /\ (p + i) - p = i
      OBVIOUS
    <3> QED BY <2>1, <2>2, <3>1
  <2> QED BY <2>1, <2>2, <2>3
<1>6. /\ p + size <= L
      /\ \A i \in 1..size : P[p + i] = PairsOf[h + 1][i]
  <2>1. /\ Len(Flat(PairsOf, h + 1)) <= Len(P)
        /\ \A k \in 1..p + size : P[k] = Flat(PairsOf, h + 1)[k]
    <3>1. h + 1 \in 0..Len(PairsOf)
      BY <1>1, <1>2, <1>3
    <3>2. /\ Len(Flat(PairsOf, h + 1)) <= Len(FlattenSeq(PairsOf))
          /\ \A k \in 1..Len(Flat(PairsOf, h + 1)) :
               FlattenSeq(PairsOf)[k] = Flat(PairsOf, h + 1)[k]
      BY <1>1, <3>1, FlatPrefix
    <3> QED BY <1>1, <1>2, <1>5, <3>2
  <2>2. \A i \in 1..size : p + i \in 1..p + size
    OBVIOUS
  <2> QED BY <1>2, <1>5, <2>1, <2>2
<1>7. size >= 1 /\ \A i \in 1..size : PairsOf[h + 1][i].cu = input[h + 1].cu
  <2>1. input[h + 1].names # <<>>
    BY <1>2, <1>3, LenProperties DEF Separable
  <2>2. /\ Len(PairsOf[h + 1]) = 0 <=> input[h + 1].names = <<>>
        /\ \A i \in 1..Len(PairsOf[h + 1]) : PairsOf[h + 1][i].cu = input[h + 1].cu
    BY <1>2, <1>3, SetPairs
  <2> QED BY <1>5, <2>1, <2>2
<1>8. \A i \in 1..size : P[p + i].cu = input[h + 1].cu
  BY <1>6, <1>7
<1> DEFINE K == {k \in p + 1..L : \A j \in p + 1..k : P[j].cu = P[p + 1].cu}
<1>9. GroupEnd(P) \in K /\ \A k \in K : k <= GroupEnd(P)
  <2>1. GroupEnd(Items) \in {k \in pos + 1..Len(Items) :
                               \A j \in pos + 1..k : Items[j].cu = Items[pos + 1].cu}
        /\ \A k \in {k \in pos + 1..Len(Items) :
                       \A j \in pos + 1..k : Items[j].cu = Items[pos + 1].cu} :
             k <= GroupEnd(Items)
    BY <1>1, <1>5, GroupEndIs
  <2> QED BY <1>1, <1>2, <1>5, <2>1
<1>10. P[p + 1].cu = input[h + 1].cu
  BY <1>7, <1>8
<1>11. p + size \in K
  <2>1. p + size \in p + 1..L
    BY <1>6, <1>7
  <2>2. ASSUME NEW j \in p + 1..p + size PROVE P[j].cu = P[p + 1].cu
    <3>1. j - p \in 1..size /\ p + (j - p) = j
      OBVIOUS
    <3> QED BY <1>8, <1>10, <3>1
  <2> QED BY <2>1, <2>2
<1>12. ASSUME NEW k \in K, k > p + size PROVE FALSE
  <2>1. p + size + 1 \in p + 1..k /\ p + size + 1 \in 1..L
    BY <1>7, <1>12
  <2>2. P[p + size + 1].cu = input[h + 1].cu
    BY <1>10, <2>1
  <2>3. h + 1 # N
    <3>1. Flat(PairsOf, N) = P
      BY <1>1, <1>2, FlatSteps
    <3> QED BY <1>2, <1>5, <2>1, <3>1
  <2>4. h + 1 \in 0..N - 1 /\ h + 2 \in 1..N /\ h + 2 \in 0..N /\ (h + 1) + 1 = h + 2
    BY <1>3, <2>3
  <2>5. /\ PairsOf[h + 2] \in Seq(NamePairs) /\ Len(PairsOf[h + 2]) \in Nat \ {0}
        /\ PairsOf[h + 2][1].cu = input[h + 2].cu
    <3>1. input[h + 2].names # <<>>
      BY <1>2, <2>4, LenProperties DEF Separable
    <3>2. /\ PairsOf[h + 2] \in Seq(NamePairs) /\ Len(PairsOf[h + 2]) \in Nat
          /\ Len(PairsOf[h + 2]) = 0 <=> input[h + 2].names = <<>>
          /\ \A i \in 1..Len(PairsOf[h + 2]) : PairsOf[h + 2][i].cu = input[h + 2].cu
      BY <1>2, <2>4, SetPairs
    <3> QED BY <3>1, <3>2
  <2>6. P[p + size + 1] = PairsOf[h + 2][1]
    <3>1. PICK front \in Seq(NamePairs), set \in Seq(NamePairs), n \in Nat \ {0} :
            /\ front = Flat(PairsOf, h + 1) /\ set = PairsOf[h + 2] /\ n = Len(set)
            /\ Len(front) = p + size
            /\ Flat(PairsOf, h + 2) = front \o set
      <4>1. /\ Flat(PairsOf, h + 2) = Flat(PairsOf, h + 1) \o PairsOf[h + 2]
            /\ Flat(PairsOf, h + 1) \in Seq(NamePairs)
        <5>1. h + 1 \in 0..Len(PairsOf) - 1 /\ h + 1 \in 0..Len(PairsOf)
          BY <1>1, <1>2, <2>4
        <5> QED BY <1>1, <2>4, <5>1, FlatSteps
      <4> QED BY <1>5, <2>5, <4>1
    <3>2. /\ Len(front \o set) = p + size + n
          /\ \A i \in 1..p + size + n :
               (front \o set)[i] = IF i <= p + size THEN front[i] ELSE set[i - (p + size)]
      <4>1. /\ Len(front \o set) = Len(front) + Len(set)
            /\ \A i \in 1..Len(front) + Len(set) :
                 (front \o set)[i]
                   = IF i <= Len(front) THEN front[i] ELSE set[i - Len(front)]
        BY ConcatProperties
      <4> QED BY <3>1, <4>1, ZenonT(40)
    <3>3. p + size + 1 \in 1..p + size + n
          /\ ~(p + size + 1 <= p + size) /\ (p + size + 1) - (p + size) = 1
      OBVIOUS
    <3>4. (front \o set)[p + size + 1] = set[1]
      BY <3>2, <3>3
    <3>5. P[p + size + 1] = Flat(PairsOf, h + 2)[p + size + 1]
      <4>1. h + 2 \in 0..Len(PairsOf)
        BY <1>1, <1>2, <2>4
      <4>2. \A i \in 1..Len(Flat(PairsOf, h + 2)) :
              FlattenSeq(PairsOf)[i] = Flat(PairsOf, h + 2)[i]
        BY <1>1, <4>1, FlatPrefix
      <4> QED BY <1>1, <1>2, <3>1, <3>2, <3>3, <4>2
    <3> QED BY <3>1, <3>4, <3>5
  <2>7. input[h + 2].cu # input[h + 1].cu
    <3>1. h + 2 \in DOMAIN input /\ h + 2 > 1 /\ (h + 2) - 1 = h + 1
      BY <1>2, <1>3, <2>4, LenProperties
    <3>2. \A m \in DOMAIN input : m > 1 => input[m].cu # input[m - 1].cu
      BY DEF Separable
    <3>3. input[h + 2].cu # input[(h + 2) - 1].cu
      BY <3>1, <3>2
    <3> QED BY <3>1, <3>3
  <2> QED BY <2>2, <2>5, <2>6, <2>7
<1>13. GroupEnd(P) = p + size
  <2>1. GroupEnd(P) \in Nat
    BY <1>9
  <2> HIDE DEF K
  <2> QED BY <1>9, <1>11, <1>12, <2>1
<1> QED
  BY <1>1, <1>2, <1>5, <1>6, <1>13

\* A heading with n entries under it, printed behind the lines there are.
LEMMA GroupAdded ==
  ASSUME out \in Seq(NameLines), NEW CONSTANT group \in Seq(NameLines), NEW CONSTANT n \in Nat,
         Len(group) = n + 1, group[1][1] = "header",
         \A i \in 1..n : group[i + 1][1] = "entry",
         out' = out \o group
  PROVE  /\ HeadersUsed' = HeadersUsed + 1
         /\ out' \in Seq(NameLines) /\ Len(out) \in Nat
         /\ Len(out') = Len(out) + (n + 1)
         /\ \A k \in 1..Len(out) : out'[k] = out[k]
         /\ \A i \in 1..n + 1 : out'[Len(out) + i] = group[i]
<1> DEFINE Old == {k \in DOMAIN out : out[k][1] = "header"}
           New == {k \in DOMAIN out' : out'[k][1] = "header"}
<1>1. PICK size \in Nat : size = Len(out)
  BY LenProperties
<1>2. /\ out' \in Seq(NameLines) /\ Len(out') = size + (n + 1)
      /\ \A i \in 1..size + (n + 1) :
           out'[i] = IF i <= size THEN out[i] ELSE group[i - size]
  <2>1. /\ out \o group \in Seq(NameLines) /\ Len(out \o group) = Len(out) + Len(group)
        /\ \A i \in 1..Len(out) + Len(group) :
             (out \o group)[i] = IF i <= Len(out) THEN out[i] ELSE group[i - Len(out)]
    BY LinesConcat, ZenonT(40)
  <2> QED BY <1>1, <2>1
<1>3. DOMAIN out = 1..size /\ DOMAIN out' = 1..size + (n + 1)
  BY <1>1, <1>2, LenProperties
<1>4. ASSUME NEW k \in 1..size PROVE out'[k] = out[k] /\ k \in 1..size + (n + 1)
  BY <1>2
<1>5. ASSUME NEW i \in 1..n + 1
      PROVE  out'[size + i] = group[i] /\ size + i \in 1..size + (n + 1)
  <2>1. size + i \in 1..size + (n + 1) /\ ~(size + i <= size) /\ (size + i) - size = i
    OBVIOUS
  <2> QED BY <1>2, <2>1
<1>6. ASSUME NEW k \in 1..size + (n + 1), k > size + 1 PROVE out'[k][1] = "entry"
  <2>1. /\ k - size - 1 \in 1..n /\ (k - size - 1) + 1 = k - size
        /\ k - size \in 1..n + 1 /\ size + (k - size) = k
    BY <1>6
  <2>2. out'[k] = group[(k - size - 1) + 1]
    BY <1>5, <2>1
  <2> QED BY <2>1, <2>2
<1>7. New = Old \cup {size + 1}
  <2>1. 1 \in 1..n + 1
    OBVIOUS
  <2>2. size + 1 \in New
    BY <1>3, <1>5, <2>1
  <2>3. ASSUME NEW k \in New PROVE k \in Old \cup {size + 1}
    <3>1. k \in 1..size + (n + 1) /\ out'[k][1] = "header"
      BY <1>3
    <3>2. ~(k > size + 1)
      BY <1>6, <3>1
    <3>3. CASE k \in 1..size
      BY <1>3, <1>4, <3>1, <3>3
    <3>4. k \in 1..size \/ k = size + 1
      BY <3>1, <3>2
    <3> QED BY <3>3, <3>4
  <2>4. ASSUME NEW k \in Old PROVE k \in New
    BY <1>3, <1>4
  <2> QED BY <2>2, <2>3, <2>4
<1>8. IsFiniteSet(Old) /\ size + 1 \notin Old
  <2>1. IsFiniteSet(1..size) /\ Old \in SUBSET (1..size)
    BY <1>3, FS_Interval
  <2>2. size + 1 \notin 1..size
    OBVIOUS
  <2> QED BY <2>1, <2>2, FS_Subset
<1>9. HeadersUsed' = HeadersUsed + 1
  <2>1. HeadersUsed' = Cardinality(New) /\ HeadersUsed = Cardinality(Old)
    BY DEF HeadersUsed
  <2> HIDE DEF Old, New
  <2> QED BY <1>7, <1>8, <2>1, FS_AddElement
<1> QED BY <1>1, <1>2, <1>4, <1>5, <1>9

LEMMA NamesGroupHolds ==
  ASSUME NamesInv, NamesGroup
  PROVE  NamesInv'
<1>1. /\ display = "names" /\ input' = input /\ done' = done /\ ~done
      /\ pos < Len(Items) /\ HeadersUsed < Len(input) /\ pos' = GroupEnd(Items)
      /\ out' = out \o <<Heading(input[HeadersUsed + 1].cu)>>
                    \o [k \in 1..pos' - pos |-> Entry(Items[pos + k])]
  BY DEF NamesGroup
<1>2. Pairs' = Pairs /\ PairsOf' = PairsOf /\ Groups' = Groups
  BY <1>1 DEF Pairs, PairsOf, Groups
<1> SUFFICES ASSUME Separable PROVE NamesInv'
  BY <1>1, <1>2 DEF NamesInv, Separable, SameName
<1>3. input \in Seq(NameSets) /\ Len(input) \in Nat
  BY <1>1, LenProperties DEF NamesInv
<1>4. PICK h \in 0..Len(input) : GroupsDone(h)
  BY <1>1 DEF NamesInv
<1>5. /\ HeadersUsed = h /\ out = Flat(Groups, h) /\ pos = Len(Flat(PairsOf, h))
      /\ h \in 0..Len(input) - 1 /\ h + 1 \in 1..Len(input) /\ h + 1 \in 0..Len(input)
      /\ h \in Nat
  BY <1>1, <1>3, <1>4 DEF GroupsDone
<1>6. /\ pos' = Len(Flat(PairsOf, h + 1)) /\ pos' = pos + Len(PairsOf[h + 1])
      /\ \A i \in 1..Len(PairsOf[h + 1]) : Items[pos + i] = PairsOf[h + 1][i]
  BY <1>1, <1>3, <1>5, GroupIsSet
<1>7. PICK head \in Seq(NameLines), tail \in Seq(NameLines), n \in Nat :
        /\ head = <<Heading(input[h + 1].cu)>>
        /\ n = Len(PairsOf[h + 1])
        /\ tail = [i \in 1..n |-> Entry(PairsOf[h + 1][i])]
        /\ Groups[h + 1] = head \o tail
  <2>1. Len(PairsOf[h + 1]) \in Nat
    BY <1>3, <1>5, SetPairs
  <2> QED BY <1>3, <1>5, <2>1, GroupsTypes
<1>8. [k \in 1..pos' - pos |-> Entry(Items[pos + k])] = tail
  <2>1. pos \in Nat
    BY <1>3, <1>5, PairsTypes, FlatSteps, LenProperties
  <2>2. pos' - pos = n
    BY <1>6, <1>7, <2>1
  <2> QED BY <1>6, <1>7, <2>2
<1>9. out \in Seq(NameLines) /\ Len(out) \in Nat
  BY <1>3, <1>5, GroupsTypes, FlatSteps, LenProperties
<1>10. out' = out \o Groups[h + 1]
  <2>1. out' = (out \o head) \o tail
    BY <1>1, <1>5, <1>7, <1>8
  <2>2. (out \o head) \o tail = out \o (head \o tail)
    BY <1>9, LinesAssociate, SMTT(20)
  <2> QED BY <1>7, <2>1, <2>2
<1>11. out' = Flat(Groups, h + 1)
  <2>1. Groups \in Seq(Seq(NameLines)) /\ h \in 0..Len(Groups) - 1
    BY <1>3, <1>5, GroupsTypes
  <2> QED BY <1>5, <1>10, <2>1, FlatSteps
<1>12. HeadersUsed' = h + 1
  <2>1. /\ Groups[h + 1] \in Seq(NameLines) /\ Len(Groups[h + 1]) = 1 + n
        /\ Groups[h + 1][1] = Heading(input[h + 1].cu)
        /\ \A i \in 1..n : Groups[h + 1][i + 1] = Entry(PairsOf[h + 1][i])
    BY <1>3, <1>5, <1>7, GroupsTypes
  <2>2. Groups[h + 1][1][1] = "header"
    BY <2>1, LineKinds
  <2>3. ASSUME NEW i \in 1..n PROVE Groups[h + 1][i + 1][1] = "entry"
    <3>1. Groups[h + 1][i + 1] = Entry(PairsOf[h + 1][i])
      BY <2>1
    <3> QED BY <3>1, LineKinds
  <2>4. PICK group \in Seq(NameLines) :
          /\ group = Groups[h + 1] /\ Len(group) = n + 1
          /\ group[1][1] = "header" /\ \A i \in 1..n : group[i + 1][1] = "entry"
    <3>1. Len(Groups[h + 1]) = n + 1
      BY <2>1
    <3> QED BY <2>1, <2>2, <2>3, <3>1
  <2>5. out' = out \o group
    BY <1>10, <2>4
  <2> QED BY <1>5, <1>9, <2>4, <2>5, GroupAdded
<1>13. GroupsDone(h + 1)'
  BY <1>2, <1>6, <1>11, <1>12 DEF GroupsDone
<1> QED
  BY <1>1, <1>3, <1>5, <1>13 DEF NamesInv

LEMMA NamesStay ==
  ASSUME NamesInv, [Next]_vars
  PROVE  NamesInv'
<1>1. CASE NamesGroup
  BY <1>1, NamesGroupHolds
<1>2. CASE display # "names"
  BY <1>2, DisplayStays DEF NamesInv
<1>3. CASE NamesEnd \/ UNCHANGED vars
  <2>1. /\ display' = display /\ input' = input /\ pos' = pos /\ out' = out
        /\ done' = done \/ pos = Len(Items) \/ HeadersUsed = Len(input)
    BY <1>3 DEF NamesEnd, vars
  <2>2. Pairs' = Pairs /\ PairsOf' = PairsOf /\ Groups' = Groups /\ HeadersUsed' = HeadersUsed
    BY <2>1 DEF Pairs, PairsOf, Groups, HeadersUsed
  <2>3. Items' = Items /\ (Separable' <=> Separable)
    BY <2>1, <2>2 DEF Items, Separable, SameName
  <2>4. ASSUME NEW CONSTANT h PROVE GroupsDone(h) => GroupsDone(h)'
    BY <2>1, <2>2 DEF GroupsDone
  <2> QED BY <2>1, <2>2, <2>3, <2>4 DEF NamesInv
<1> QED
  BY <1>1, <1>2, <1>3
     DEF Next, vars, NothingToDump, Dumps, HexLine, HexEnds, StringLine,
         StringsEnd, DieLine, InfoEnds, ArangesLine, ArangesEnd, Finished

\* A dump that has ended has printed every group.
LEMMA NamesPrinted ==
  ASSUME NamesInv, display = "names", done, Separable
  PROVE  out = FlattenSeq(Groups)
<1>1. input \in Seq(NameSets) /\ Len(input) \in Nat
  BY LenProperties DEF NamesInv
<1>2. PICK h \in 0..Len(input) : GroupsDone(h)
  BY DEF NamesInv
<1>3. CASE h = Len(input)
  BY <1>1, <1>2, <1>3, GroupsTypes, FlatSteps DEF GroupsDone
<1>4. CASE h # Len(input)
  <2>1. h \in 0..Len(input) - 1 /\ h + 1 \in 1..Len(input) /\ h \in Nat
    BY <1>1, <1>4
  <2>2. pos = Len(Items) /\ Items = Pairs /\ pos = Len(Flat(PairsOf, h))
    BY <1>1, <1>2, <1>4, ItemsBounds DEF NamesInv, GroupsDone, Separable
  <2>3. /\ PairsOf \in Seq(Seq(NamePairs)) /\ Len(PairsOf) = Len(input)
        /\ Pairs = FlattenSeq(PairsOf)
    BY <1>1, PairsTypes
  <2>4. PICK front \in Seq(NamePairs), set \in Seq(NamePairs) :
          /\ front = Flat(PairsOf, h) /\ set = PairsOf[h + 1]
          /\ Len(set) \in Nat \ {0} /\ Len(front) \in Nat
          /\ Flat(PairsOf, h + 1) = front \o set
    <3>1. /\ PairsOf[h + 1] \in Seq(NamePairs) /\ Len(PairsOf[h + 1]) \in Nat \ {0}
      <4>1. input[h + 1].names # <<>>
        BY <1>1, <2>1, LenProperties DEF Separable
      <4> QED BY <1>1, <2>1, <4>1, SetPairs
    <3>2. Flat(PairsOf, h) \in Seq(NamePairs)
          /\ Flat(PairsOf, h + 1) = Flat(PairsOf, h) \o PairsOf[h + 1]
      BY <2>1, <2>3, FlatSteps
    <3>3. Len(Flat(PairsOf, h)) \in Nat
      BY <3>2, LenProperties
    <3> QED BY <3>1, <3>2, <3>3
  <2>5. Len(Flat(PairsOf, h + 1)) = Len(front) + Len(set)
    BY <2>4, ConcatProperties
  <2>6. Len(Flat(PairsOf, h + 1)) <= Len(Pairs)
    <3>1. h + 1 \in 0..Len(PairsOf)
      BY <1>1, <2>1, <2>3
    <3> QED BY <2>3, <3>1, FlatPrefix
  <2> QED BY <2>2, <2>4, <2>5, <2>6
<1> QED BY <1>3, <1>4

\* Of every input: a header is followed by an entry, and comes after one of
\* another unit.
LinesInv ==
  display = "names" =>
    /\ out \in Seq(NameLines) /\ HeadersUsed \in 0..Len(input)
    /\ Len(out) = pos + HeadersUsed
    /\ pos = 0 => Len(out) = 0
    /\ Len(out) # 0 => out[Len(out)] = Entry(Items[pos])
    /\ pos # 0 /\ pos < Len(Items) => Items[pos].cu # Items[pos + 1].cu
    /\ \A k \in 1..Len(out) : out[k][1] = "header" =>
         /\ k < Len(out) /\ out[k + 1][1] = "entry"
         /\ k > 1 => out[k - 1][2].cu # out[k + 1][2].cu

LEMMA InitLines == Init => LinesInv
<1> SUFFICES ASSUME Init, display = "names" PROVE LinesInv
  BY DEF LinesInv
<1>1. input \in Seq(NameSets) /\ out = <<>> /\ pos = 0 /\ Len(input) \in Nat
  BY LenProperties DEF Init, NameSets
<1>2. out \in Seq(NameLines) /\ Len(out) = 0
  BY <1>1, EmptySeq
<1>3. HeadersUsed = 0
  <2>1. {k \in DOMAIN out : out[k][1] = "header"} = {}
    BY <1>1
  <2> QED BY <2>1, FS_EmptySet DEF HeadersUsed
<1> QED BY <1>1, <1>2, <1>3 DEF LinesInv

LEMMA LinesOfGroup ==
  ASSUME BoundsInv, LinesInv, NamesGroup
  PROVE  LinesInv'
<1>1. /\ display = "names" /\ display' = display /\ input' = input
      /\ pos < Len(Items) /\ HeadersUsed < Len(input) /\ pos' = GroupEnd(Items)
      /\ out' = out \o <<Heading(input[HeadersUsed + 1].cu)>>
                    \o [k \in 1..pos' - pos |-> Entry(Items[pos + k])]
  BY DEF NamesGroup
<1>2. Items' = Items
  <2>1. input' = input
    BY <1>1
  <2> QED BY <2>1 DEF Items, Pairs
<1>3. /\ input \in Seq(NameSets) /\ Len(input) \in Nat /\ pos \in 0..Len(Items)
      /\ Items \in Seq(NamePairs) /\ Len(Items) \in Nat
      /\ out \in Seq(NameLines) /\ Len(out) \in Nat /\ HeadersUsed \in 0..Len(input)
      /\ Len(out) = pos + HeadersUsed
  BY <1>1, ItemsBounds, LenProperties DEF BoundsInv, LinesInv
<1>4. PICK items \in Seq(NamePairs), old \in Seq(NameLines), p \in Nat, L \in Nat,
           size \in Nat, used \in Nat :
        /\ items = Items /\ old = out /\ p = pos /\ L = Len(items) /\ p < L
        /\ size = Len(old) /\ used = HeadersUsed /\ size = p + used
  <2>1. pos \in Nat /\ HeadersUsed \in Nat
    BY <1>3
  <2> QED BY <1>1, <1>3, <2>1
<1> DEFINE K == {k \in p + 1..L : \A j \in p + 1..k : items[j].cu = items[p + 1].cu}
<1>5. PICK e \in p + 1..L :
        /\ e = GroupEnd(Items) /\ e \in K /\ \A k \in K : k <= e
  <2>1. GroupEnd(items) \in K /\ \A k \in K : k <= GroupEnd(items)
    BY <1>1, <1>4, GroupEndIs
  <2> QED BY <1>4, <2>1
<1>6. ASSUME e < L PROVE items[e].cu # items[e + 1].cu
  <2> SUFFICES ASSUME items[e].cu = items[e + 1].cu PROVE FALSE
    OBVIOUS
  <2>1. /\ e + 1 \in p + 1..L /\ e \in p + 1..e /\ ~(e + 1 <= e)
        /\ \A j \in p + 1..e + 1 : j \in p + 1..e \/ j = e + 1
    BY <1>6
  <2>2. \A j \in p + 1..e : items[j].cu = items[p + 1].cu
    BY <1>5
  <2>3. \A j \in p + 1..e + 1 : items[j].cu = items[p + 1].cu
    BY <2>1, <2>2
  <2>4. e + 1 \in K
    BY <2>1, <2>3
  <2> HIDE DEF K
  <2> QED BY <1>5, <2>1, <2>4
<1> HIDE DEF K
<1>7. PICK n \in Nat : n = e - p /\ n >= 1 /\ p + n = e
  <2>1. e - p \in Nat /\ e - p >= 1 /\ p + (e - p) = e
    OBVIOUS
  <2> QED BY <2>1
<1>8. PICK head \in Seq(NameLines), tail \in Seq(NameLines), group \in Seq(NameLines) :
        /\ head = <<Heading(input[HeadersUsed + 1].cu)>>
        /\ tail = [k \in 1..pos' - pos |-> Entry(Items[pos + k])]
        /\ group = head \o tail
        /\ Len(group) = n + 1
        /\ group[1][1] = "header"
        /\ \A i \in 1..n : group[i + 1] = Entry(items[p + i])
  <2>1. PICK cu \in Nat : cu = input[HeadersUsed + 1].cu
    <3>1. HeadersUsed + 1 \in 1..Len(input)
      BY <1>1, <1>3
    <3>2. input[HeadersUsed + 1] \in NameSets
      BY <1>3, <3>1, ElementOfSeq
    <3> QED BY <3>2 DEF NameSets
  <2> DEFINE head == <<Heading(cu)>>
             tail == [k \in 1..n |-> Entry(items[p + k])]
  <2>2. head \in Seq(NameLines) /\ Len(head) = 1 /\ head[1] = Heading(cu)
    <3>1. Heading(cu) \in NameLines
      BY DEF NameLines
    <3> QED BY <3>1
  <2>3. /\ tail \in Seq(NameLines) /\ Len(tail) = n
        /\ \A i \in 1..n : tail[i] = Entry(items[p + i])
    <3>1. ASSUME NEW i \in 1..n PROVE Entry(items[p + i]) \in NameLines
      <4>1. p + i \in 1..L
        BY <1>7
      <4>2. items[p + i] \in NamePairs
        BY <1>4, <4>1, ElementOfSeq
      <4> QED BY <4>2 DEF NameLines
    <3>2. tail \in [1..n -> NameLines]
      <4> HIDE DEF Entry
      <4> QED BY <3>1
    <3>3. tail \in Seq(NameLines) /\ Len(tail) = n
      <4> HIDE DEF tail
      <4> QED BY <3>2
    <3> QED BY <3>3
  <2>4. tail = [k \in 1..pos' - pos |-> Entry(Items[pos + k])]
    <3>1. pos' - pos = n
      BY <1>1, <1>4, <1>5, <1>7
    <3> QED BY <1>4, <3>1
  <2> HIDE DEF head, tail
  <2>5. /\ head \o tail \in Seq(NameLines)
        /\ Len(head \o tail) = 1 + n
        /\ \A i \in 1..1 + n : (head \o tail)[i] = IF i <= 1 THEN head[i] ELSE tail[i - 1]
    <3>1. /\ head \o tail \in Seq(NameLines)
          /\ Len(head \o tail) = Len(head) + Len(tail)
          /\ \A i \in 1..Len(head) + Len(tail) :
               (head \o tail)[i] = IF i <= Len(head) THEN head[i] ELSE tail[i - Len(head)]
      BY <2>2, <2>3, LinesConcat, ZenonT(40)
    <3> QED BY <2>2, <2>3, <3>1
  <2>6. (head \o tail)[1] = Heading(cu)
    BY <2>2, <2>5
  <2>7. ASSUME NEW i \in 1..n PROVE (head \o tail)[i + 1] = Entry(items[p + i])
    <3>1. i + 1 \in 1..1 + n /\ ~(i + 1 <= 1) /\ (i + 1) - 1 = i
      OBVIOUS
    <3> QED BY <2>3, <2>5, <3>1
  <2>8. (head \o tail)[1][1] = "header" /\ Len(head \o tail) = n + 1
    BY <2>5, <2>6, LineKinds
  <2>9. head = <<Heading(input[HeadersUsed + 1].cu)>>
    BY <2>1 DEF head
  <2> QED BY <2>2, <2>3, <2>4, <2>5, <2>7, <2>8, <2>9, ZenonT(60)
<1>9. out' = out \o group
  <2>1. out' = (out \o head) \o tail
    BY <1>1, <1>8
  <2>2. out \in Seq(NameLines)
    BY <1>3
  <2>3. (out \o head) \o tail = out \o (head \o tail)
    BY <2>2, LinesAssociate, SMTT(20)
  <2> QED BY <1>8, <2>1, <2>3
<1>10. PICK new \in Seq(NameLines) :
        /\ new = out' /\ Len(new) = size + (n + 1)
        /\ HeadersUsed' = used + 1
        /\ \A k \in 1..size : new[k] = old[k]
        /\ \A i \in 1..n + 1 : new[size + i] = group[i]
  <2>1. \A i \in 1..n : group[i + 1][1] = "entry"
    BY <1>8, LineKinds
  <2>2. /\ HeadersUsed' = HeadersUsed + 1
        /\ out' \in Seq(NameLines)
        /\ Len(out') = Len(out) + (n + 1)
        /\ \A k \in 1..Len(out) : out'[k] = out[k]
        /\ \A i \in 1..n + 1 : out'[Len(out) + i] = group[i]
    <3>1. out \in Seq(NameLines) /\ Len(group) = n + 1 /\ group[1][1] = "header"
      BY <1>3, <1>8
    <3> QED BY <1>9, <2>1, <3>1, GroupAdded, Zenon
  <2> QED BY <1>4, <2>2
<1>11. new[size + 1][1] = "header"
      /\ \A i \in 1..n : new[size + 1 + i] = Entry(items[p + i])
  <2>1. 1 \in 1..n + 1 /\ \A i \in 1..n : i + 1 \in 1..n + 1 /\ size + (i + 1) = size + 1 + i
    OBVIOUS
  <2>2. new[size + 1] = group[1] /\ \A i \in 1..n : new[size + (i + 1)] = group[i + 1]
    BY <1>10, <2>1, Zenon
  <2>3. group[1][1] = "header" /\ \A i \in 1..n : group[i + 1] = Entry(items[p + i])
    BY <1>8
  <2> QED BY <2>1, <2>2, <2>3
<1>12. /\ used + 1 \in 0..Len(input) /\ Len(new) = e + (used + 1)
       /\ e # 0 /\ Len(new) # 0 /\ Len(new) = size + 1 + n
       /\ new[Len(new)] = Entry(items[e])
  <2>1. used + 1 \in 0..Len(input) /\ size = p + used
    BY <1>1, <1>3, <1>4
  <2>2. n \in 1..n
    BY <1>7
  <2>3. new[size + 1 + n] = Entry(items[p + n])
    BY <1>11, <2>2
  <2> QED BY <1>7, <1>10, <2>1, <2>3
<1>13. ASSUME NEW k \in 1..Len(new), new[k][1] = "header"
       PROVE  /\ k < Len(new) /\ new[k + 1][1] = "entry"
              /\ k > 1 => new[k - 1][2].cu # new[k + 1][2].cu
  <2>1. CASE k <= size
    <3>1. k \in 1..size /\ new[k] = old[k]
      BY <1>10, <2>1
    <3>2. /\ k < size /\ old[k + 1][1] = "entry"
          /\ k > 1 => old[k - 1][2].cu # old[k + 1][2].cu
      BY <1>1, <1>4, <1>13, <3>1 DEF LinesInv
    <3>3. /\ k + 1 \in 1..size /\ new[k + 1] = old[k + 1]
          /\ k > 1 => k - 1 \in 1..size /\ new[k - 1] = old[k - 1]
      <4>1. k + 1 \in 1..size /\ (k > 1 => k - 1 \in 1..size)
        BY <3>1, <3>2
      <4> QED BY <1>10, <4>1
    <3> QED BY <1>10, <3>1, <3>2, <3>3
  <2>2. CASE k = size + 1
    <3>1. new[k + 1] = Entry(items[p + 1]) /\ k < Len(new)
      <4>1. 1 \in 1..n
        BY <1>7
      <4>2. new[size + 1 + 1] = Entry(items[p + 1])
        BY <1>11, <4>1
      <4> QED BY <1>7, <1>10, <2>2, <4>2
    <3>2. new[k + 1][1] = "entry"
      BY <3>1, LineKinds
    <3>3. ASSUME k > 1 PROVE new[k - 1][2].cu # new[k + 1][2].cu
      <4>1. size \in 1..size /\ k - 1 = size /\ size # 0
        BY <2>2, <3>3
      <4>2. new[k - 1] = old[size]
        BY <1>10, <4>1
      <4>3. old[size] = Entry(items[p]) /\ items[p].cu # items[p + 1].cu
        <5>1. pos # 0 /\ pos < Len(Items)
          BY <1>1, <1>4, <4>1 DEF LinesInv
        <5> QED BY <1>1, <1>4, <4>1, <5>1 DEF LinesInv
      <4>4. Entry(items[p])[2].cu = items[p].cu /\ Entry(items[p + 1])[2].cu = items[p + 1].cu
        BY DEF Entry
      <4> QED BY <3>1, <4>2, <4>3, <4>4
    <3> QED BY <3>1, <3>2, <3>3
  <2>3. CASE k > size + 1
    <3>1. k - size - 1 \in 1..n /\ size + 1 + (k - size - 1) = k
      BY <1>12, <2>3
    <3>2. new[k] = Entry(items[p + (k - size - 1)])
      BY <1>11, <3>1
    <3>3. new[k][1] = "entry"
      BY <3>2, LineKinds
    <3> QED BY <1>13, <3>3
  <2> QED BY <2>1, <2>2, <2>3
<1>14. /\ display' = display /\ input' = input /\ out' = new /\ pos' = e
       /\ Items' = items /\ L = Len(items) /\ HeadersUsed' = used + 1
  BY <1>1, <1>2, <1>4, <1>5, <1>10
<1> QED BY <1>6, <1>12, <1>13, <1>14 DEF LinesInv

LEMMA LinesStay ==
  ASSUME BoundsInv, LinesInv, [Next]_vars
  PROVE  LinesInv'
<1>1. CASE NamesGroup
  BY <1>1, LinesOfGroup
<1>2. CASE display # "names"
  BY <1>2, DisplayStays DEF LinesInv
<1>3. CASE NamesEnd \/ UNCHANGED vars
  <2>1. display' = display /\ input' = input /\ pos' = pos /\ out' = out
    BY <1>3 DEF NamesEnd, vars
  <2>2. Items' = Items /\ HeadersUsed' = HeadersUsed
    BY <2>1 DEF Items, Pairs, HeadersUsed
  <2> QED BY <2>1, <2>2 DEF LinesInv
<1> QED
  BY <1>1, <1>2, <1>3
     DEF Next, vars, NothingToDump, Dumps, HexLine, HexEnds, StringLine,
         StringsEnd, DieLine, InfoEnds, ArangesLine, ArangesEnd, Finished

\* A dump that shows what it should does so of a section that can be shown.
LEMMA OnlySeparable ==
  ASSUME BoundsInv, LinesInv, display = "names", out = FlattenSeq(Groups)
  PROVE  Separable
<1>1. /\ input \in Seq(NameSets) /\ pos \in 0..Len(Items)
      /\ Len(Items) \in Nat /\ Len(Items) <= Len(Pairs)
      /\ Len(out) = pos + HeadersUsed /\ HeadersUsed \in 0..Len(input)
      /\ DOMAIN input = 1..Len(input)
  BY ItemsBounds, LenProperties DEF BoundsInv, LinesInv
<1>2. Len(out) = Len(Pairs) + Len(input) /\ Len(Pairs) \in Nat /\ Len(input) \in Nat
  BY <1>1, AllLines
<1>3. \A i, j \in DOMAIN Pairs : SameName(i, j) => i = j
  <2>1. Len(Items) = Len(Pairs)
    BY <1>1, <1>2
  <2> QED BY <1>1, <2>1, ItemsBounds
<1>4. \A m \in 1..Len(out) : out[m][1] = "header" =>
        /\ m < Len(out) /\ out[m + 1][1] = "entry"
        /\ m > 1 => out[m - 1][2].cu # out[m + 1][2].cu
  BY DEF LinesInv
<1>5. ASSUME NEW k \in 1..Len(input) PROVE input[k].names # <<>>
  <2> SUFFICES ASSUME input[k].names = <<>> PROVE FALSE
    OBVIOUS
  <2>1. Len(PairsOf[k]) = 0
    BY <1>1, SetPairs
  <2>2. PICK b \in Nat :
          /\ Len(Flat(Groups, k)) = b + 1 + Len(PairsOf[k])
          /\ Len(Flat(Groups, k)) <= Len(out)
          /\ out[b + 1] = Heading(input[k].cu)
    BY <1>1, SetLines
  <2>3. /\ b + 1 \in 1..Len(out) /\ out[b + 1][1] = "header"
        /\ Len(Flat(Groups, k)) = b + 1
    BY <1>2, <2>1, <2>2, LineKinds
  <2>4. b + 1 < Len(out) /\ out[(b + 1) + 1][1] = "entry"
    BY <1>4, <2>3
  <2>5. k # Len(input)
    <3>1. Groups \in Seq(Seq(NameLines)) /\ Len(Groups) = Len(input)
      BY <1>1, GroupsTypes
    <3>2. Flat(Groups, Len(Groups)) = FlattenSeq(Groups)
      BY <3>1, FlatSteps
    <3> QED BY <2>3, <2>4, <3>1, <3>2
  <2>6. k + 1 \in 1..Len(input) /\ (k + 1) - 1 = k
    BY <1>2, <2>5
  <2>7. PICK c \in Nat :
          /\ c = Len(Flat(Groups, (k + 1) - 1))
          /\ out[c + 1] = Heading(input[k + 1].cu)
    BY <1>1, <2>6, SetLines
  <2>8. out[(b + 1) + 1] = Heading(input[k + 1].cu)
    BY <2>3, <2>6, <2>7
  <2>9. Heading(input[k + 1].cu)[1] = "header"
    BY LineKinds
  <2> QED BY <2>4, <2>8, <2>9
<1>6. ASSUME NEW k \in 1..Len(input), k > 1 PROVE input[k].cu # input[k - 1].cu
  <2>1. k - 1 \in 1..Len(input)
    BY <1>2, <1>6
  <2>2. PICK n \in Nat \ {0} :
          /\ n = Len(PairsOf[k - 1]) /\ PairsOf[k - 1][n].cu = input[k - 1].cu
    <3>1. /\ Len(PairsOf[k - 1]) \in Nat
          /\ Len(PairsOf[k - 1]) = 0 <=> input[k - 1].names = <<>>
          /\ \A i \in 1..Len(PairsOf[k - 1]) : PairsOf[k - 1][i].cu = input[k - 1].cu
      BY <1>1, <2>1, SetPairs
    <3>2. input[k - 1].names # <<>>
      BY <1>5, <2>1
    <3>3. Len(PairsOf[k - 1]) \in 1..Len(PairsOf[k - 1])
      BY <3>1, <3>2
    <3> QED BY <3>1, <3>3
  <2>3. 1 \in 1..Len(PairsOf[k]) /\ PairsOf[k][1].cu = input[k].cu
    <3>1. /\ Len(PairsOf[k]) \in Nat
          /\ Len(PairsOf[k]) = 0 <=> input[k].names = <<>>
          /\ \A i \in 1..Len(PairsOf[k]) : PairsOf[k][i].cu = input[k].cu
      BY <1>1, SetPairs
    <3>2. input[k].names # <<>>
      BY <1>5
    <3> QED BY <3>1, <3>2
  <2>4. PICK c \in Nat :
          /\ Len(Flat(Groups, k - 1)) = c + 1 + n
          /\ out[c + 1 + n] = Entry(PairsOf[k - 1][n])
    <3>1. PICK c \in Nat :
            /\ Len(Flat(Groups, k - 1)) = c + 1 + Len(PairsOf[k - 1])
            /\ \A i \in 1..Len(PairsOf[k - 1]) :
                 out[c + 1 + i] = Entry(PairsOf[k - 1][i])
      BY <1>1, <2>1, SetLines
    <3>2. n \in 1..n
      OBVIOUS
    <3> QED BY <2>2, <3>1, <3>2
  <2>5. PICK b \in Nat :
          /\ b = c + 1 + n /\ b + 1 <= Len(out)
          /\ out[b + 1] = Heading(input[k].cu)
          /\ out[b + 1 + 1] = Entry(PairsOf[k][1])
    <3>1. PICK b \in Nat :
            /\ b = Len(Flat(Groups, k - 1))
            /\ Len(Flat(Groups, k)) = b + 1 + Len(PairsOf[k])
            /\ Len(Flat(Groups, k)) <= Len(out)
            /\ out[b + 1] = Heading(input[k].cu)
            /\ \A i \in 1..Len(PairsOf[k]) : out[b + 1 + i] = Entry(PairsOf[k][i])
      BY <1>1, SetLines
    <3>2. Len(PairsOf[k]) \in Nat /\ Len(out) \in Nat
      BY <1>1, <1>2, SetPairs
    <3>3. b = c + 1 + n
      BY <2>4, <3>1
    <3>4. b + 1 <= Len(out)
      <4>1. PICK m \in Nat, t \in Nat : m = Len(PairsOf[k]) /\ t = Len(out)
        BY <3>2
      <4>2. b + 1 + m <= t
        BY <3>1, <4>1
      <4>3. b + 1 <= t
        BY <4>2
      <4> QED BY <4>1, <4>3
    <3>5. out[b + 1 + 1] = Entry(PairsOf[k][1])
      BY <2>3, <3>1
    <3> QED BY <3>1, <3>3, <3>4, <3>5
  <2>6. b + 1 \in 1..Len(out) /\ out[b + 1][1] = "header" /\ b + 1 > 1
    BY <1>2, <2>5, LineKinds
  <2>7. out[(b + 1) - 1][2].cu # out[(b + 1) + 1][2].cu
    BY <1>4, <2>6
  <2>8. out[b] = Entry(PairsOf[k - 1][n]) /\ (b + 1) - 1 = b
    BY <2>4, <2>5
  <2>9. Entry(PairsOf[k - 1][n])[2].cu = input[k - 1].cu
        /\ Entry(PairsOf[k][1])[2].cu = input[k].cu
    BY <2>2, <2>3 DEF Entry
  <2> QED BY <2>5, <2>7, <2>8, <2>9
<1> QED BY <1>1, <1>3, <1>5, <1>6 DEF Separable

-----------------------------------------------------------------------------

\* The hex dump of a section of any length shows every byte once, each line at
\* its address (display_hex_dump).
THEOREM HexDumpTiles == Spec => []HexLinesTile
<1>1. Spec => []HexInv
  BY InitHex, HexStays, PTL DEF Spec
<1>2. HexInv => HexLinesTile
  <2> SUFFICES ASSUME HexInv, display = "hex" PROVE HexLinesTile
    BY DEF HexLinesTile
  <2>1. input \in Sections /\ out \in Seq(HexLines)
    BY DEF HexInv
  <2>2. section.data \in Seq(Bytes) /\ DOMAIN out = 1..Len(out)
    BY <2>1, LenProperties DEF Sections, section
  <2>3. \A k \in DOMAIN out : Follows(k)
    BY <2>2 DEF HexInv
  <2>4. done /\ section.found /\ ~section.nobits => pos = Len(section.data)
    BY DEF HexInv
  <2>5. done /\ section.found /\ ~section.nobits /\ out = <<>> => section.data = <<>>
    BY <2>2, <2>4, EmptySeq DEF HexInv
  <2>6. out # <<>> => pos = Last(out).first + Last(out).bytes
    BY DEF HexInv, Last
  <2> QED
    BY <2>3, <2>4, <2>5, <2>6 DEF HexLinesTile, Follows
<1> QED
  BY <1>1, <1>2, PTL

\* Every character of a section of any length is on one line of the string
\* dump, each string up to its NUL (display_string_dump).
THEOREM StringsWhole == Spec => []StringsAreWhole
<1>1. Spec => []StringInv
  BY InitString, StringStays, PTL DEF Spec
<1>2. StringInv => StringsAreWhole
  <2> SUFFICES ASSUME StringInv, display = "string", done, section.found, ~section.nobits
               PROVE  StringsAreWhole
    BY DEF StringsAreWhole
  <2>1. /\ input \in Sections /\ out \in Seq(StringLines) /\ pos \in 0..Size
        /\ \A k \in 1..Len(out) : Whole(k)
        /\ \A i \in 0..pos - 1 : Printable(i) => OnOneLine(i)
        /\ Starts = {}
    BY DEF StringInv
  <2>2. Size \in Nat /\ DOMAIN out = 1..Len(out)
    BY <2>1, LenProperties DEF Sections, section, Size
  <2>3. ASSUME NEW i \in 0..Size - 1, Printable(i)
        PROVE  Cardinality({k \in DOMAIN out : i \in out[k].first..out[k].end - 1}) = 1
    <3>1. i \in 0..pos - 1
      BY <2>1, <2>2, <2>3 DEF Starts, Size
    <3>2. PICK k \in 1..Len(out) :
            InLine(i, k) /\ \A l \in 1..Len(out) : InLine(i, l) => l = k
      BY <2>1, <2>3, <3>1 DEF OnOneLine
    <3>3. {l \in DOMAIN out : i \in out[l].first..out[l].end - 1} = {k}
      BY <2>2, <3>2 DEF InLine
    <3> QED
      BY <3>3, FS_Singleton
  <2> QED
    BY <2>1, <2>2, <2>3 DEF StringsAreWhole, Whole, Size, Nul
<1> QED
  BY <1>1, <1>2, PTL

\* The counter that the debug dump prints is the nesting depth, for every tree
\* of DIEs (_dump_debug_info).
THEOREM CounterIsDepth == Spec => []DepthIsNesting
<1>1. Spec => []InfoInv
  BY InitInfo, InfoStays, PTL DEF Spec
<1>2. InfoInv => DepthIsNesting
  <2> SUFFICES ASSUME InfoInv, display = "info", NEW k \in DOMAIN out
               PROVE  out[k].depth = IF out[k].parent = 0 THEN 0
                                     ELSE out[out[k].parent].depth + 1
    BY DEF DepthIsNesting
  <2>1. k \in 1..Len(out)
    BY LenProperties DEF InfoInv
  <2> QED
    BY <2>1 DEF InfoInv, Nested
<1> QED
  BY <1>1, <1>2, PTL

\* Whatever the units of an aranges section, as long as the entries of each are
\* together, each unit has one table of its own, with its header, its ranges and
\* its zeros (_dump_debug_aranges).
THEOREM ArangesAreGrouped == Spec => []ArangesGrouped
<1>1. Spec => []ArangesInv
  BY InitAranges, ArangesStays, PTL DEF Spec
<1>2. ArangesInv => ArangesGrouped
  BY TablesPrinted DEF ArangesGrouped
<1> QED
  BY <1>1, <1>2, PTL

\* No loop leaves its input, whatever the input: the counters that readelf.py
\* moves by more than one stay inside, and no depth is below zero.
THEOREM DumpTypes == Spec => []TypeOK
<1>1. Spec => [](HexInv /\ StringInv /\ InfoInv /\ BoundsInv)
  BY InitHex, HexStays, InitString, StringStays, InitInfo, InfoStays,
     InitBounds, BoundsStay, PTL DEF Spec
<1>2. HexInv /\ StringInv /\ InfoInv /\ BoundsInv => TypeOK
  <2> SUFFICES ASSUME HexInv, StringInv, InfoInv, BoundsInv PROVE TypeOK
    OBVIOUS
  <2>1. /\ display \in {"hex", "string", "info", "aranges", "names"}
        /\ done \in BOOLEAN
    BY DEF BoundsInv
  <2>2. CASE display = "hex"
    <3>1. pos \in 0..Len(section.data) /\ input \in Sections /\ die_depth = 0
      BY <2>2 DEF HexInv, BoundsInv
    <3>2. Len(section.data) \in Nat
      BY <3>1, LenProperties DEF Sections, section
    <3> QED BY <2>1, <2>2, <3>1, <3>2 DEF TypeOK
  <2>3. CASE display = "string"
    <3>1. pos \in 0..Size /\ input \in Sections /\ die_depth = 0
      BY <2>3 DEF StringInv, BoundsInv
    <3>2. Len(section.data) \in Nat
      BY <3>1, LenProperties DEF Sections, section
    <3> QED BY <2>1, <2>3, <3>1, <3>2 DEF TypeOK, Size
  <2>4. CASE display = "info"
    <3>1. pos = Len(out) /\ out \in Seq(DieLines) /\ open \in Seq(Nat) /\ die_depth = Len(open)
      BY <2>4 DEF InfoInv
    <3>2. pos \in Nat /\ die_depth \in Nat
      BY <3>1, LenProperties
    <3> QED BY <2>1, <2>4, <3>2 DEF TypeOK
  <2>5. CASE display = "aranges"
    <3>1. pos \in 0..Len(input) /\ input \in Seq(Ranges) /\ die_depth = 0
      BY <2>5 DEF BoundsInv
    <3>2. Len(input) \in Nat
      BY <3>1, LenProperties
    <3> QED BY <2>1, <2>5, <3>1, <3>2 DEF TypeOK
  <2>6. CASE display = "names"
    <3>1. pos \in 0..Len(Items) /\ input \in Seq(NameSets) /\ die_depth = 0
      BY <2>6 DEF BoundsInv
    <3>2. Len(Items) \in Nat /\ Len(Items) <= Len(Pairs) /\ Len(Pairs) \in Nat
      BY <3>1, ItemsBounds, PairsTypes
    <3>3. pos \in Nat /\ pos <= Len(Pairs)
      BY <3>1, <3>2
    <3> QED BY <2>1, <2>6, <3>1, <3>3 DEF TypeOK
  <2> QED
    BY <2>1, <2>2, <2>3, <2>4, <2>5, <2>6
<1> QED
  BY <1>1, <1>2, PTL

\* The pubnames and pubtypes dumps show the sets of a section as they are, each
\* under its header, for exactly the sections in which no name comes twice, no set
\* is empty and neighbouring sets are of different units (_dump_debug_namelut).
THEOREM NamesKeepTheirHeader == Spec => []NamesUnderTheirHeader
<1>1. Spec => [](NamesInv /\ BoundsInv /\ LinesInv)
  BY InitNames, NamesStay, InitBounds, BoundsStay, InitLines, LinesStay, PTL DEF Spec
<1>2. NamesInv /\ BoundsInv /\ LinesInv => NamesUnderTheirHeader
  BY NamesPrinted, OnlySeparable DEF NamesUnderTheirHeader
<1> QED
  BY <1>1, <1>2, PTL

=============================================================================
