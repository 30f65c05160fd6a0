--------------------------- MODULE SettingsProofs ---------------------------
(***************************************************************************)
(* Theorems about Settings, for every table of options, every set of files *)
(* of any length, and every set of command lines.                          *)
(***************************************************************************)
EXTENDS Settings, WellFoundedInduction, TLAPS

\* The last of some numbered things, if there are any.
LEMMA HasLast ==
    ASSUME NEW n \in Nat, NEW S \in SUBSET (1 .. n), S # {}
    PROVE  \E m \in S : \A l \in S : l <= m
  <1> DEFINE R == OpToRel(<, Nat)
             T == {n - s : s \in S}
  <1>1. T \subseteq Nat /\ T # {}
    <2>1. \A s \in 1 .. n : n - s \in Nat
      OBVIOUS
    <2> QED BY <2>1
  <1>2. PICK x \in T : \A y \in T : ~(<<y, x>> \in R)
    <2>1. IsWellFoundedOn(R, Nat)
      BY NatLessThanWellFounded
    <2> HIDE DEF R, T
    <2> QED BY <1>1, <2>1, WFMin
  <1>3. \A y \in T : ~(y < x)
    BY <1>1, <1>2 DEF OpToRel
  <1>4. PICK m \in S : x = n - m
    BY <1>2
  <1>5. \A l \in S : l <= m
    <2> TAKE l \in S
    <2>1. n - l \in T
      OBVIOUS
    <2>2. ~(n - l < n - m)
      BY <1>3, <1>4, <2>1
    <2> QED BY <2>2
  <1> QED BY <1>5

LEMMA LastOfIs ==
    ASSUME NEW n \in Nat, NEW S \in SUBSET (1 .. n), S # {}
    PROVE  LastOf(S) \in S /\ \A l \in S : l <= LastOf(S)
  BY HasLast DEF LastOf

\* The lines of a file are numbered from 1, and what is assigned is a number.
LEMMA FileFacts ==
    ASSUME NEW f \in Files
    PROVE  /\ Len(f) \in Nat /\ DOMAIN f = 1 .. Len(f)
           /\ \A k \in 1 .. Len(f) : f[k].kind = "assign" => f[k].value \in Nat
  BY SettingsAssumption

----------------------------------------------------------------------------
(* Types.                                                                  *)

\* While lines are read there is a file.
FileIsOpen == pc = "line" => file \in Files

\* Whatever the line says, what is stored is a number (options.c:226-300).
LEMMA ConvertedType ==
    ASSUME NEW o \in Options, NEW line, line.value \in Nat
    PROVE  Converted(o, line) \in Nat
  <1>1. TypeOf[o] \in {"int", "str", "bool"}
    BY SettingsAssumption
  <1>2. 0 \in Nat /\ 1 \in Nat
    OBVIOUS
  <1>3. CASE TypeOf[o] = "str"
    BY <1>3, Zenon DEF Converted
  <1>4. CASE TypeOf[o] = "int"
    <2>1. Converted(o, line) = IF line.quoted THEN 0 ELSE line.value
      BY <1>4, Zenon DEF Converted
    <2> QED BY <1>2, <2>1
  <1>5. CASE TypeOf[o] = "bool"
    <2>1. Converted(o, line) = IF line.value = 1 /\ ~line.quoted THEN 1 ELSE 0
      BY <1>5, Zenon DEF Converted
    <2> QED BY <1>2, <2>1
  <1> QED BY <1>1, <1>3, <1>4, <1>5

\* The arguments are numbered from 1, and what is given is a number.
LEMMA ArgsFacts ==
    ASSUME NEW c \in CommandLines
    PROVE  /\ Len(c) \in Nat /\ DOMAIN c = 1 .. Len(c)
           /\ \A k \in 1 .. Len(c) : c[k].value \in Nat
  BY SettingsAssumption

LEMMA TypesInit == Init => TypeOK /\ FileIsOpen
  <1>1. 1 \in 1 .. MaxRounds /\ Default \in [Options -> Nat]
    BY SettingsAssumption
  <1> SUFFICES ASSUME Init PROVE TypeOK /\ FileIsOpen
    OBVIOUS
  <1>2. file \in Files \cup {Missing} /\ args \in CommandLines /\ pc = "open"
    BY DEF Init
  <1>4. optind \in 1 .. Len(args) + 1 /\ errflg \in BOOLEAN
    <2>1. Len(args) \in Nat
      BY <1>2, ArgsFacts
    <2>2. 1 \in 1 .. Len(args) + 1
      BY <2>1
    <2> QED BY <2>2 DEF Init
  <1>3. /\ at \in Nat /\ mySection \in BOOLEAN /\ myClass \in BOOLEAN
        /\ opts \in [Options -> Nat] /\ before \in [Options -> Nat] /\ round \in 1 .. MaxRounds
    BY <1>1 DEF Init
  <1> QED BY <1>2, <1>3, <1>4 DEF TypeOK, FileIsOpen

LEMMA TypesStep == TypeOK /\ FileIsOpen /\ [Next]_vars => (TypeOK /\ FileIsOpen)'
  <1> SUFFICES ASSUME TypeOK, FileIsOpen, [Next]_vars PROVE TypeOK' /\ FileIsOpen'
    OBVIOUS
  <1>1. CASE Open
    <2>1. file # Missing => file \in Files /\ Len(file) \in Nat
      BY FileFacts DEF TypeOK
    <2>2. CASE file = Missing
      BY <1>1, <2>2 DEF Open, TypeOK, FileIsOpen
    <2>3. CASE file # Missing
      <3>1. 1 \in 1 .. Len(file) + 1 /\ 1 \in Nat
        BY <2>1, <2>3
      <3>2. /\ pc' = "line" /\ at' = 1 /\ mySection' = TRUE /\ myClass' = TRUE
            /\ before' = opts /\ UNCHANGED <<file, args, optind, errflg, opts, round>>
        BY <1>1, <2>3 DEF Open
      <3> QED BY <2>1, <2>3, <3>1, <3>2 DEF TypeOK, FileIsOpen
    <2> QED BY <2>2, <2>3
  <1>2. CASE SectionTitle \/ ClassTitle \/ Skip \/ SetValue
    <2>1. /\ Reading /\ UNCHANGED <<file, args, optind, errflg, pc, before, round>>
          /\ at' = at + 1
      BY <1>2 DEF SectionTitle, ClassTitle, Skip, SetValue, NextLine, Reading
    <2>2. file \in Files /\ Len(file) \in Nat
      BY <2>1, FileFacts DEF Reading, FileIsOpen
    <2>3. at \in 1 .. Len(file) /\ at' \in 1 .. Len(file) + 1 /\ at' \in Nat
      BY <2>1, <2>2 DEF TypeOK, Reading
    <2>4. mySection' \in BOOLEAN /\ myClass' \in BOOLEAN
      <3>1. mySection \in BOOLEAN /\ myClass \in BOOLEAN
        BY DEF TypeOK
      <3>2. CASE SectionTitle
        <4>1. CASE Section \in Line(at).names
          BY <3>2, <4>1 DEF SectionTitle
        <4>2. CASE Section \notin Line(at).names
          BY <3>2, <4>2 DEF SectionTitle
        <4> QED BY <4>1, <4>2
      <3>3. CASE ClassTitle
        BY <3>1, <3>3 DEF ClassTitle
      <3>4. CASE Skip \/ SetValue
        BY <3>1, <3>4 DEF Skip, SetValue
      <3> QED BY <1>2, <3>2, <3>3, <3>4
    <2>5. opts' \in [Options -> Nat]
      <3>1. CASE opts' = opts
        BY <3>1 DEF TypeOK
      <3>2. CASE SetValue
        <4>1. \A o \in Options : Converted(o, Line(at)) \in Nat
          BY <2>2, <2>3, <3>2, FileFacts, ConvertedType DEF SetValue, Line
        <4> QED BY <3>2, <4>1 DEF SetValue, TypeOK
      <3> QED BY <1>2, <3>1, <3>2 DEF SectionTitle, ClassTitle, Skip
    <2> QED BY <2>1, <2>2, <2>3, <2>4, <2>5 DEF TypeOK, FileIsOpen
  <1>3. CASE SyntaxError \/ EndOfFile
    BY <1>3 DEF SyntaxError, EndOfFile, TypeOK, FileIsOpen
  <1>4. CASE DoOpts \/ OptsDone
    <2>1. /\ pc' \in {"getopt", "run", "exit"} /\ errflg' \in BOOLEAN
          /\ UNCHANGED <<file, args, optind, at, mySection, myClass, opts, before, round>>
      BY <1>4 DEF DoOpts, OptsDone, TypeOK
    <2> QED BY <2>1 DEF TypeOK, FileIsOpen
  <1>7. CASE TakeOption \/ RefuseOption
    <2>1. /\ pc = "getopt" /\ optind <= Len(args) /\ optind' = optind + 1
          /\ UNCHANGED <<file, args, pc, at, mySection, myClass, before, round>>
      BY <1>7 DEF TakeOption, RefuseOption, GetOpt
    <2>2. optind \in 1 .. Len(args) /\ optind' \in 1 .. Len(args) + 1
      BY <2>1, ArgsFacts DEF TypeOK
    <2>3. args[optind].value \in Nat
      BY <2>2, ArgsFacts DEF TypeOK
    <2>4. opts' \in [Options -> Nat] /\ errflg' \in BOOLEAN
      BY <1>7, <2>3 DEF TakeOption, RefuseOption, TypeOK
    <2> QED BY <2>1, <2>2, <2>4 DEF TypeOK, FileIsOpen
  <1>5. CASE Restart
    <2>1. round' \in 1 .. MaxRounds
      BY <1>5, SettingsAssumption DEF Restart, TypeOK
    <2> QED BY <1>5, <2>1, SettingsAssumption DEF Restart, TypeOK, FileIsOpen
  <1>6. CASE UNCHANGED vars
    BY <1>6 DEF vars, TypeOK, FileIsOpen
  <1> QED BY <1>1, <1>2, <1>3, <1>4, <1>5, <1>6, <1>7 DEF Next, Read

\* Every file and every command line leave numbers in the table, and no file
\* is read past its last line (options.c:332-420, wxd.c:160-240).
THEOREM TypeCorrect == Spec => []TypeOK
  BY TypesInit, TypesStep, PTL DEF Spec

----------------------------------------------------------------------------
(* The loop that reads the file, against what the file says.               *)

TitlesBefore(k, kind) == {l \in 1 .. k - 1 : Line(l).kind = kind}

\* LastBefore is the last line of a kind before line k, or 0.
LEMMA LastBeforeIs ==
    ASSUME NEW k \in Nat \ {0}, NEW kind
    PROVE  LET r == LastBefore(k, kind)
               L == TitlesBefore(k, kind)
           IN IF L = {} THEN r = 0 ELSE r \in L /\ \A m \in L : m <= r
  <1>1. k - 1 \in Nat /\ TitlesBefore(k, kind) \in SUBSET (1 .. (k - 1))
    BY DEF TitlesBefore
  <1>2. LastBefore(k, kind) = IF TitlesBefore(k, kind) = {} THEN 0
                              ELSE LastOf(TitlesBefore(k, kind))
    BY DEF LastBefore, TitlesBefore
  <1> QED BY <1>1, <1>2, LastOfIs

LEMMA LastBeforeType ==
    ASSUME NEW k \in Nat \ {0}, NEW kind
    PROVE  LastBefore(k, kind) \in Nat /\ LastBefore(k, kind) < k
  <1>1. \A l \in TitlesBefore(k, kind) : l \in Nat /\ l < k
    BY DEF TitlesBefore
  <1> QED BY <1>1, LastBeforeIs

\* One line further on.
LEMMA LastBeforeNext ==
    ASSUME NEW k \in Nat \ {0}, NEW kind
    PROVE  LastBefore(k + 1, kind) = IF Line(k).kind = kind THEN k ELSE LastBefore(k, kind)
  <1> DEFINE L == TitlesBefore(k, kind)
             M == TitlesBefore(k + 1, kind)
             r == LastBefore(k, kind)
             q == LastBefore(k + 1, kind)
  <1>1. \A l : l \in M <=> l \in L \/ (l = k /\ Line(k).kind = kind)
    BY DEF TitlesBefore
  <1>2. \A l \in M : l \in Nat /\ l <= k
    BY DEF TitlesBefore
  <1>3. IF L = {} THEN r = 0 ELSE r \in L /\ \A m \in L : m <= r
    BY LastBeforeIs
  <1>4. IF M = {} THEN q = 0 ELSE q \in M /\ \A m \in M : m <= q
    BY LastBeforeIs
  <1> HIDE DEF L, M, r, q
  <1>5. CASE Line(k).kind = kind
    <2>1. k \in M
      BY <1>1, <1>5
    <2>2. q \in Nat /\ q <= k /\ k <= q
      BY <1>2, <1>4, <2>1
    <2> QED BY <1>5, <2>2 DEF q
  <1>6. CASE Line(k).kind # kind
    <2>1. M = L
      BY <1>1, <1>6
    <2>2. q = r
      BY <1>2, <1>3, <1>4, <2>1
    <2> QED BY <1>6, <2>2 DEF q, r
  <1> QED BY <1>5, <1>6

\* In the sections of the title above line k.
InSection(k) == LET s == LastBefore(k, "section") IN s = 0 \/ Section \in Line(s).names

\* What the lines before line k say of option o.
SaysBefore(o, k) ==
    LET A == {l \in Assignments(o) : l < k}
    IN IF A = {} THEN before[o] ELSE Converted(o, Line(LastOf(A)))

\* At every line, the two flags of MOptionsRead say whether the line counts,
\* no bare line that counts is behind, and the options are what the lines
\* behind say.
Scanning ==
    pc = "line" => /\ mySection <=> InSection(at)
                   /\ myClass <=> InScope(at)
                   /\ IsRead(at)
                   /\ \A o \in Options : opts[o] = SaysBefore(o, at)

\* What the next line changes of its surroundings.
LEMMA ScopeNext ==
    ASSUME NEW k \in Nat \ {0}
    PROVE  /\ Line(k).kind = "section" =>
                 /\ InSection(k + 1) <=> Section \in Line(k).names
                 /\ InScope(k + 1) <=> Section \in Line(k).names
           /\ Line(k).kind = "class" =>
                 /\ InSection(k + 1) <=> InSection(k)
                 /\ InScope(k + 1) <=> InSection(k) /\ Line(k).name = Class
           /\ Line(k).kind \notin {"section", "class"} =>
                 /\ InSection(k + 1) <=> InSection(k)
                 /\ InScope(k + 1) <=> InScope(k)
  <1> DEFINE s == LastBefore(k, "section")
             c == LastBefore(k, "class")
             t == LastBefore(k + 1, "section")
             d == LastBefore(k + 1, "class")
  <1>1. s \in Nat /\ s < k /\ c \in Nat /\ c < k
    BY LastBeforeType
  <1>2. /\ t = IF Line(k).kind = "section" THEN k ELSE s
        /\ d = IF Line(k).kind = "class" THEN k ELSE c
    BY LastBeforeNext
  <1>3. /\ InSection(k) <=> (s = 0 \/ Section \in Line(s).names)
        /\ InSection(k + 1) <=> (t = 0 \/ Section \in Line(t).names)
        /\ InScope(k) <=> InSection(k) /\ (c <= s \/ Line(c).name = Class)
        /\ InScope(k + 1) <=> InSection(k + 1) /\ (d <= t \/ Line(d).name = Class)
    BY DEF InSection, InScope
  <1> HIDE DEF s, c, t, d
  <1>4. CASE Line(k).kind = "section"
    <2>1. t = k /\ d = c /\ d <= t /\ t # 0
      BY <1>1, <1>2, <1>4
    <2> QED BY <1>3, <1>4, <2>1
  <1>5. CASE Line(k).kind = "class"
    <2>1. t = s /\ d = k /\ ~(d <= t)
      BY <1>1, <1>2, <1>5
    <2> QED BY <1>3, <1>5, <2>1
  <1>6. CASE Line(k).kind \notin {"section", "class"}
    <2>1. t = s /\ d = c
      BY <1>2, <1>6
    <2> QED BY <1>3, <1>6, <2>1
  <1> QED BY <1>4, <1>5, <1>6

\* A line that is passed over says nothing, one that is taken has the last word.
LEMMA SaysNext ==
    ASSUME NEW k \in DOMAIN file, DOMAIN file = 1 .. Len(file), Len(file) \in Nat, NEW o
    PROVE  SaysBefore(o, k + 1) = IF Sets(o, Line(k)) /\ InScope(k) /\ IsRead(k)
                                  THEN Converted(o, Line(k)) ELSE SaysBefore(o, k)
  <1> DEFINE A == {l \in Assignments(o) : l < k}
             B == {l \in Assignments(o) : l < k + 1}
  <1>1. Assignments(o) \subseteq 1 .. Len(file)
    BY DEF Assignments
  <1>2. k \in Assignments(o) <=> Sets(o, Line(k)) /\ InScope(k) /\ IsRead(k)
    BY DEF Assignments
  <1>3. CASE k \in Assignments(o)
    <2>1. k \in B /\ \A l \in B : l <= k
      BY <1>1, <1>3
    <2>2. B \in SUBSET (1 .. Len(file)) /\ B # {}
      BY <1>1, <2>1
    <2>3. LastOf(B) \in B /\ k <= LastOf(B)
      BY <2>1, <2>2, LastOfIs
    <2>4. LastOf(B) = k
      BY <1>1, <2>1, <2>3
    <2> QED BY <1>2, <1>3, <2>2, <2>4 DEF SaysBefore
  <1>4. CASE k \notin Assignments(o)
    <2>1. A = B
      BY <1>1, <1>4
    <2> QED BY <1>2, <1>4, <2>1 DEF SaysBefore
  <1> QED BY <1>3, <1>4

LEMMA ReadNext ==
    ASSUME NEW k \in Nat \ {0}
    PROVE  IsRead(k + 1) <=> IsRead(k) /\ ~(Line(k).kind = "bare" /\ InScope(k))
  <1>1. \A l : l \in 1 .. (k + 1) - 1 <=> l \in 1 .. k - 1 \/ l = k
    OBVIOUS
  <1> QED BY <1>1 DEF IsRead

\* Before the first line every line counts, and nothing is said.
LEMMA SaysFirst ==
    ASSUME DOMAIN file = 1 .. Len(file), Len(file) \in Nat
    PROVE  /\ InSection(1) /\ InScope(1) /\ IsRead(1)
           /\ \A o : SaysBefore(o, 1) = before[o]
  <1>1. \A kind : LastBefore(1, kind) = 0
    <2>1. \A kind : LastBefore(1, kind) \in Nat /\ LastBefore(1, kind) < 1
      BY LastBeforeType
    <2> QED BY <2>1
  <1>2. InSection(1) /\ InScope(1)
    BY <1>1 DEF InSection, InScope
  <1>3. IsRead(1)
    BY DEF IsRead
  <1>4. \A o : {l \in Assignments(o) : l < 1} = {}
    BY DEF Assignments
  <1> QED BY <1>2, <1>3, <1>4 DEF SaysBefore

\* When no line can say more, SaysBefore is Says.
LEMMA SaysAll ==
    ASSUME DOMAIN file = 1 .. Len(file), Len(file) \in Nat, NEW k \in 1 .. Len(file) + 1,
           k = Len(file) + 1 \/ (Line(k).kind = "bare" /\ InScope(k)), NEW o
    PROVE  SaysBefore(o, k) = Says(o, before[o])
  <1>1. \A l \in Assignments(o) : l < k
    <2> TAKE l \in Assignments(o)
    <2>1. l \in 1 .. Len(file) /\ IsRead(l) /\ Line(l).kind = "assign"
      BY DEF Assignments, Sets
    <2>2. CASE k = Len(file) + 1
      BY <2>1, <2>2
    <2>3. CASE Line(k).kind = "bare" /\ InScope(k)
      <3>1. ~(k \in 1 .. l - 1) /\ k # l
        BY <2>1, <2>3 DEF IsRead
      <3> QED BY <2>1, <3>1
    <2> QED BY <2>2, <2>3
  <1>2. {l \in Assignments(o) : l < k} = Assignments(o)
    BY <1>1
  <1>3. SaysBefore(o, k) = IF Assignments(o) = {} THEN before[o]
                           ELSE Converted(o, Line(LastOf(Assignments(o))))
    BY <1>2 DEF SaysBefore
  <1> QED BY <1>3 DEF Says

\* None of this changes unless the file or what the options were does.
LEMMA SameLines ==
    ASSUME file' = file
    PROVE  /\ \A k : /\ InSection(k)' <=> InSection(k)
                     /\ InScope(k)' <=> InScope(k)
                     /\ IsRead(k)' <=> IsRead(k)
           /\ \A o : Assignments(o)' = Assignments(o)
  <1>1. \A k, kind : LastBefore(k, kind)' = LastBefore(k, kind)
    BY DEF LastBefore, Line
  <1>2. \A k : (InSection(k)' <=> InSection(k)) /\ (InScope(k)' <=> InScope(k))
    BY <1>1 DEF InSection, InScope, Line
  <1>3. \A k : IsRead(k)' <=> IsRead(k)
    BY <1>2 DEF IsRead, Line
  <1>4. \A o : Assignments(o)' = Assignments(o)
    BY <1>2, <1>3 DEF Assignments, Line
  <1> QED BY <1>2, <1>3, <1>4

LEMMA SameSays ==
    ASSUME file' = file
    PROVE  /\ \A o, was : Says(o, was)' = Says(o, was')
           /\ before' = before => \A o, k : SaysBefore(o, k)' = SaysBefore(o, k)
  BY SameLines DEF SaysBefore, Says, Line

\* The first line.
LEMMA ScanOpen ==
    ASSUME TypeOK, FileIsOpen, Open
    PROVE  Scanning' /\ ReadsWhatFileSays'
  <1>1. file' = file /\ before' = opts /\ opts' = opts
    BY DEF Open
  <1>2. CASE file = Missing
    BY <1>1, <1>2 DEF Open, Scanning, ReadsWhatFileSays
  <1>3. CASE file # Missing
    <2>1. DOMAIN file = 1 .. Len(file) /\ Len(file) \in Nat
      BY <1>3, FileFacts DEF TypeOK
    <2>2. pc' = "line" /\ at' = 1 /\ mySection' = TRUE /\ myClass' = TRUE
      BY <1>3 DEF Open
    <2>3. InSection(1)' /\ InScope(1)' /\ IsRead(1)'
      BY <1>1, <2>1, SameLines, SaysFirst
    <2>4. ASSUME NEW o PROVE SaysBefore(o, 1)' = before'[o]
      <3>1. \A l \in Assignments(o)' : ~(l < 1)
        BY <1>1, <2>1, SameLines DEF Assignments
      <3>2. {l \in Assignments(o)' : l < 1} = {}
        BY <3>1
      <3> QED BY <3>2 DEF SaysBefore
    <2>5. \A o \in Options : opts'[o] = SaysBefore(o, 1)'
      BY <1>1, <2>4
    <2>6. Scanning'
      BY <2>2, <2>3, <2>5 DEF Scanning
    <2> QED BY <2>2, <2>6 DEF ReadsWhatFileSays
  <1> QED BY <1>2, <1>3

\* A line that is read, and the next one.
LEMMA ScanLine ==
    ASSUME TypeOK, FileIsOpen, Scanning, SectionTitle \/ ClassTitle \/ Skip \/ SetValue
    PROVE  Scanning' /\ ReadsWhatFileSays'
  <1>1. /\ pc = "line" /\ pc' = "line" /\ at' = at + 1 /\ file' = file /\ before' = before
        /\ Reading
    BY DEF SectionTitle, ClassTitle, Skip, SetValue, NextLine, Reading
  <1>2. DOMAIN file = 1 .. Len(file) /\ Len(file) \in Nat /\ at \in 1 .. Len(file)
    BY <1>1, FileFacts DEF TypeOK, FileIsOpen, Reading
  <1>3. /\ mySection <=> InSection(at)
        /\ myClass <=> InScope(at)
        /\ IsRead(at)
        /\ \A o \in Options : opts[o] = SaysBefore(o, at)
    BY <1>1 DEF Scanning
  <1>4. /\ mySection' <=> InSection(at + 1)
        /\ myClass' <=> InScope(at + 1)
    <2>1. at \in Nat \ {0}
      BY <1>2
    <2>2. CASE SectionTitle
      BY <2>1, <2>2, ScopeNext DEF SectionTitle
    <2>3. CASE ClassTitle
      BY <1>3, <2>1, <2>3, ScopeNext DEF ClassTitle
    <2>4. CASE Skip \/ SetValue
      <3>1. Line(at).kind \notin {"section", "class"} /\ UNCHANGED <<mySection, myClass>>
        BY <2>4 DEF Skip, SetValue
      <3> QED BY <1>3, <2>1, <3>1, ScopeNext
    <2> QED BY <2>2, <2>3, <2>4
  <1>5. IsRead(at + 1)
    <2>1. ~(Line(at).kind = "bare" /\ InScope(at))
      BY <1>3 DEF SectionTitle, ClassTitle, Skip, SetValue
    <2> QED BY <1>2, <1>3, <2>1, ReadNext
  <1>6. ASSUME NEW o \in Options PROVE opts'[o] = SaysBefore(o, at + 1)
    <2>1. SaysBefore(o, at + 1) = IF Sets(o, Line(at)) /\ InScope(at) /\ IsRead(at)
                                  THEN Converted(o, Line(at)) ELSE SaysBefore(o, at)
      BY <1>2, SaysNext
    <2>2. CASE SetValue
      <3>1. opts'[o] = IF Sets(o, Line(at)) THEN Converted(o, Line(at)) ELSE opts[o]
        BY <2>2 DEF SetValue
      <3>2. InScope(at)
        BY <1>3, <2>2 DEF SetValue
      <3> QED BY <1>3, <2>1, <3>1, <3>2
    <2>3. CASE SectionTitle \/ ClassTitle \/ Skip
      <3>1. opts' = opts /\ ~(Sets(o, Line(at)) /\ InScope(at))
        BY <1>3, <2>3 DEF SectionTitle, ClassTitle, Skip, Sets
      <3> QED BY <1>3, <2>1, <3>1
    <2> QED BY <2>2, <2>3
  <1>7. /\ mySection' <=> InSection(at')
        /\ myClass' <=> InScope(at')
        /\ IsRead(at')
        /\ \A o \in Options : opts'[o] = SaysBefore(o, at')
    BY <1>1, <1>4, <1>5, <1>6
  <1>8. Scanning'
    BY <1>1, <1>7, SameLines, SameSays DEF Scanning
  <1> QED BY <1>1, <1>8 DEF ReadsWhatFileSays

LEMMA ScanStep ==
    TypeOK /\ FileIsOpen /\ Scanning /\ ReadsWhatFileSays /\ [Next]_vars
        => (Scanning /\ ReadsWhatFileSays)'
  <1> SUFFICES ASSUME TypeOK, FileIsOpen, Scanning, ReadsWhatFileSays, [Next]_vars
               PROVE  Scanning' /\ ReadsWhatFileSays'
    OBVIOUS
  <1>1. CASE Open
    BY <1>1, ScanOpen
  <1>2. CASE SectionTitle \/ ClassTitle \/ Skip \/ SetValue
    BY <1>2, ScanLine
  <1>3. CASE SyntaxError \/ EndOfFile
    <2>1. /\ pc = "line" /\ pc' = "args" /\ file' = file /\ before' = before /\ opts' = opts
      BY <1>3 DEF SyntaxError, EndOfFile, Reading
    <2>2. DOMAIN file = 1 .. Len(file) /\ Len(file) \in Nat /\ at \in 1 .. Len(file) + 1
      BY <2>1, FileFacts DEF TypeOK, FileIsOpen
    <2>3. at = Len(file) + 1 \/ (Line(at).kind = "bare" /\ InScope(at))
      BY <1>3, <2>1, <2>2 DEF SyntaxError, EndOfFile, Scanning
    <2>4. \A o \in Options : opts[o] = Says(o, before[o])
      BY <2>1, <2>2, <2>3, SaysAll DEF Scanning
    <2> QED BY <2>1, <2>4, SameSays DEF Scanning, ReadsWhatFileSays
  <1>4. CASE DoOpts \/ TakeOption \/ RefuseOption \/ OptsDone
    <2>1. pc' \in {"getopt", "exit", "run"}
      BY <1>4 DEF DoOpts, TakeOption, RefuseOption, OptsDone, GetOpt
    <2> QED BY <2>1 DEF Scanning, ReadsWhatFileSays
  <1>5. CASE Restart
    <2>1. pc' = "open"
      BY <1>5 DEF Restart
    <2> QED BY <2>1 DEF Scanning, ReadsWhatFileSays
  <1>6. CASE UNCHANGED vars
    <2>1. file' = file /\ before' = before /\ opts' = opts /\ pc' = pc /\ at' = at
          /\ mySection' = mySection /\ myClass' = myClass
      BY <1>6 DEF vars
    <2> QED BY <2>1, SameLines, SameSays DEF Scanning, ReadsWhatFileSays
  <1> QED BY <1>1, <1>2, <1>3, <1>4, <1>5, <1>6 DEF Next, Read

LEMMA ScanInit == Init => Scanning /\ ReadsWhatFileSays
  BY DEF Init, Scanning, ReadsWhatFileSays

\* The loop of MOptionsRead, its two flags and its early return leave every
\* option with what the file says of it, for a file of any length: the last
\* assignment in scope before the first syntax error in scope, or what the
\* option was (options.c:332-420).
THEOREM FileIsUnderstood == Spec => []ReadsWhatFileSays
  <1>1. Init => TypeOK /\ FileIsOpen /\ Scanning /\ ReadsWhatFileSays
    BY TypesInit, ScanInit
  <1>2. TypeOK /\ FileIsOpen /\ Scanning /\ ReadsWhatFileSays /\ [Next]_vars
            => (TypeOK /\ FileIsOpen /\ Scanning /\ ReadsWhatFileSays)'
    BY TypesStep, ScanStep
  <1> QED BY <1>1, <1>2, PTL DEF Spec

----------------------------------------------------------------------------
(* The command line.                                                       *)

\* What option o is when its arguments before the k-th are taken.
Told(o, k) ==
    LET G == {l \in GivenFor(o) : l < k}
    IN IF G # {} THEN args[LastOf(G)].value
       ELSE IF file = Missing THEN Default[o] ELSE Says(o, Default[o])

\* getopt's place is at the start until do_opts first calls it, and at the end
\* from then on; when it has passed an option it does not know, the error flag
\* is set and the daemon does not run.
Parsed ==
    /\ pc \in {"open", "line", "args"} /\ round = 1 => optind = 1
    /\ pc = "getopt" => (errflg <=> \E k \in GivenFor("?") : k < optind)
    /\ pc = "run" \/ round # 1 => optind = Len(args) + 1 /\ GivenFor("?") = {}
    /\ pc = "exit" => GivenFor("?") # {}

\* In the first round the options are the defaults until the file changes them,
\* and then what the arguments that have been taken make of them.
Started ==
    round = 1 => /\ pc = "open" => opts = Default
                 /\ pc \in {"line", "args"} => before = Default
                 /\ pc = "line" => file # Missing
                 /\ pc = "args" /\ file = Missing => opts = Default
                 /\ pc \in {"getopt", "run"} => \A o \in Options : opts[o] = Told(o, optind)

LEMMA ParsedStep == TypeOK /\ Parsed /\ [Next]_vars => Parsed'
  <1> SUFFICES ASSUME TypeOK, Parsed, [Next]_vars PROVE Parsed'
    OBVIOUS
  <1>1. Len(args) \in Nat /\ DOMAIN args = 1 .. Len(args) /\ optind \in 1 .. Len(args) + 1
    BY ArgsFacts DEF TypeOK
  <1>2. GivenFor("?") \subseteq 1 .. Len(args)
    BY <1>1 DEF GivenFor
  <1>3. args' = args => GivenFor("?")' = GivenFor("?")
    BY DEF GivenFor
  <1>4. CASE Read
    <2>1. /\ pc \in {"open", "line"} /\ pc' \in {"line", "args"}
          /\ UNCHANGED <<args, optind, round>>
      BY <1>4 DEF Read, Open, SectionTitle, ClassTitle, Skip, SetValue, SyntaxError, EndOfFile,
                  NextLine, Reading
    <2> QED BY <1>3, <2>1 DEF Parsed
  <1>5. CASE DoOpts
    <2>1. pc = "args" /\ pc' = "getopt" /\ errflg' = FALSE /\ UNCHANGED <<args, optind, round>>
      BY <1>5 DEF DoOpts
    <2>2. ~\E k \in GivenFor("?") : k < optind
      <3>1. CASE round = 1
        BY <1>2, <2>1, <3>1 DEF Parsed
      <3>2. CASE round # 1
        BY <3>2 DEF Parsed
      <3> QED BY <3>1, <3>2
    <2> QED BY <1>3, <2>1, <2>2 DEF Parsed
  <1>6. CASE TakeOption \/ RefuseOption
    <2>1. /\ pc = "getopt" /\ pc' = "getopt" /\ optind <= Len(args) /\ optind' = optind + 1
          /\ args' = args /\ round' = round
          /\ errflg' = IF args[optind].name = "?" THEN TRUE ELSE errflg
      BY <1>6 DEF TakeOption, RefuseOption, GetOpt
    <2>2. round = 1
      BY <1>1, <2>1 DEF Parsed
    <2>3. optind \in GivenFor("?") <=> args[optind].name = "?"
      BY <1>1, <2>1 DEF GivenFor
    <2>4. \A k \in GivenFor("?") : k < optind + 1 <=> k < optind \/ k = optind
      BY <1>1, <1>2
    <2>5. errflg' <=> \E k \in GivenFor("?") : k < optind'
      BY <2>1, <2>3, <2>4 DEF Parsed
    <2> QED BY <1>3, <2>1, <2>2, <2>5 DEF Parsed
  <1>7. CASE OptsDone
    <2>1. /\ pc = "getopt" /\ optind = Len(args) + 1 /\ pc' = IF errflg THEN "exit" ELSE "run"
          /\ UNCHANGED <<args, optind, errflg, round>>
      BY <1>1, <1>7 DEF OptsDone
    <2>2. \A k \in GivenFor("?") : k < optind
      BY <1>1, <1>2, <2>1
    <2>3. errflg <=> GivenFor("?") # {}
      BY <2>1, <2>2 DEF Parsed
    <2> QED BY <1>3, <2>1, <2>3 DEF Parsed
  <1>8. CASE Restart
    <2>1. pc = "run" /\ pc' = "open" /\ round' # 1 /\ UNCHANGED <<args, optind>>
      BY <1>8 DEF Restart, TypeOK
    <2> QED BY <1>3, <2>1 DEF Parsed
  <1>9. CASE UNCHANGED vars
    BY <1>3, <1>9 DEF vars, Parsed
  <1> QED BY <1>4, <1>5, <1>6, <1>7, <1>8, <1>9 DEF Next

\* One more argument.
LEMMA ToldNext ==
    ASSUME NEW n \in Nat, DOMAIN args = 1 .. n, NEW k \in 1 .. n, NEW o
    PROVE  Told(o, k + 1) = IF args[k].name = o THEN args[k].value ELSE Told(o, k)
  <1> DEFINE G == {l \in GivenFor(o) : l < k}
             H == {l \in GivenFor(o) : l < k + 1}
  <1>1. GivenFor(o) \subseteq 1 .. n /\ (k \in GivenFor(o) <=> args[k].name = o)
    BY DEF GivenFor
  <1>2. CASE args[k].name = o
    <2>1. k \in H /\ \A l \in H : l <= k
      BY <1>1, <1>2
    <2>2. H \in SUBSET (1 .. n) /\ H # {}
      BY <1>1, <2>1
    <2>3. LastOf(H) \in H /\ k <= LastOf(H)
      BY <2>1, <2>2, LastOfIs
    <2>4. LastOf(H) = k
      BY <1>1, <2>1, <2>3
    <2> QED BY <1>2, <2>2, <2>4 DEF Told
  <1>3. CASE args[k].name # o
    <2>1. G = H
      BY <1>1, <1>3
    <2> QED BY <1>3, <2>1 DEF Told
  <1> QED BY <1>2, <1>3

LEMMA StartedStep ==
    TypeOK /\ FileIsOpen /\ ReadsWhatFileSays /\ Parsed /\ Started /\ [Next]_vars => Started'
  <1> SUFFICES ASSUME TypeOK, FileIsOpen, ReadsWhatFileSays, Parsed, Started, [Next]_vars,
                      round' = 1
               PROVE  Started'
    BY DEF Started
  <1>1. Len(args) \in Nat /\ DOMAIN args = 1 .. Len(args) /\ optind \in 1 .. Len(args) + 1
    BY ArgsFacts DEF TypeOK
  <1>2. file' = file /\ args' = args => \A o, k : Told(o, k)' = Told(o, k)
    BY SameSays DEF Told, GivenFor
  <1>3. CASE Open
    <2>1. file' = file /\ opts' = opts /\ before' = opts /\ round = 1 /\ pc = "open"
          /\ pc' = IF file = Missing THEN "args" ELSE "line"
      BY <1>3 DEF Open
    <2> QED BY <2>1 DEF Started
  <1>4. CASE SectionTitle \/ ClassTitle \/ Skip \/ SetValue \/ SyntaxError \/ EndOfFile
    <2>1. /\ pc = "line" /\ pc' \in {"line", "args"} /\ file' = file /\ before' = before
          /\ round = 1
      BY <1>4 DEF SectionTitle, ClassTitle, Skip, SetValue, SyntaxError, EndOfFile,
                  NextLine, Reading
    <2> QED BY <2>1 DEF Started
  <1>5. CASE DoOpts
    <2>1. /\ pc = "args" /\ pc' = "getopt" /\ round = 1
          /\ UNCHANGED <<file, args, optind, opts>>
      BY <1>5 DEF DoOpts
    <2>2. optind = 1 /\ before = Default
      BY <2>1 DEF Parsed, Started
    <2>3. ASSUME NEW o \in Options PROVE opts[o] = Told(o, 1)
      <3>1. {l \in GivenFor(o) : l < 1} = {}
        BY <1>1 DEF GivenFor
      <3>2. Told(o, 1) = IF file = Missing THEN Default[o] ELSE Says(o, Default[o])
        BY <3>1 DEF Told
      <3> QED BY <2>1, <2>2, <3>2 DEF Started, ReadsWhatFileSays
    <2> QED BY <1>2, <2>1, <2>2, <2>3 DEF Started
  <1>6. CASE TakeOption \/ RefuseOption
    <2>1. /\ pc = "getopt" /\ pc' = "getopt" /\ optind <= Len(args) /\ optind' = optind + 1
          /\ file' = file /\ args' = args /\ round = 1
      BY <1>6 DEF TakeOption, RefuseOption, GetOpt
    <2>2. optind \in 1 .. Len(args)
      BY <1>1, <2>1
    <2>3. ASSUME NEW o \in Options
          PROVE  opts'[o] = IF args[optind].name = o THEN args[optind].value ELSE opts[o]
      <3>1. "?" \notin Options
        BY SettingsAssumption
      <3> QED BY <1>6, <3>1 DEF TakeOption, RefuseOption
    <2>4. \A o \in Options : opts[o] = Told(o, optind)
      BY <2>1 DEF Started
    <2>5. \A o \in Options : opts'[o] = Told(o, optind + 1)
      BY <1>1, <2>2, <2>3, <2>4, ToldNext
    <2> QED BY <1>2, <2>1, <2>5 DEF Started
  <1>7. CASE OptsDone
    <2>1. /\ pc = "getopt" /\ pc' \in {"run", "exit"} /\ round = 1
          /\ UNCHANGED <<file, args, optind, opts>>
      BY <1>7 DEF OptsDone
    <2> QED BY <1>2, <2>1 DEF Started
  <1>8. CASE Restart
    BY <1>8 DEF Restart, TypeOK
  <1>9. CASE UNCHANGED vars
    BY <1>2, <1>9 DEF vars, Started
  <1> QED BY <1>3, <1>4, <1>5, <1>6, <1>7, <1>8, <1>9 DEF Next, Read

\* The loop of getopt and the error flag of do_opts, after the loop of
\* MOptionsRead, leave every option with the last word of the command line, or
\* else of the file, or else the default, for a command line and a file of any
\* length, and the daemon does not run if an option was refused (wxd.c:71-74,
\* 140-174).
THEOREM DaemonStartsAsTold == Spec => []StartsAsTold
  <1>1. Init => Parsed /\ Started
    BY DEF Init, Parsed, Started
  <1>2. Parsed /\ Started /\ TypeOK => StartsAsTold
    <2> SUFFICES ASSUME Parsed, Started, TypeOK, pc = "run", round = 1, NEW o \in Options
                 PROVE  opts[o] = IF GivenFor(o) # {} THEN Given(o)
                                  ELSE IF file = Missing THEN Default[o] ELSE Says(o, Default[o])
      BY DEF StartsAsTold, Parsed
    <2>1. optind = Len(args) + 1 /\ opts[o] = Told(o, optind)
      BY DEF Parsed, Started
    <2>2. Len(args) \in Nat /\ GivenFor(o) \subseteq 1 .. Len(args)
      BY ArgsFacts DEF TypeOK, GivenFor
    <2>3. {l \in GivenFor(o) : l < optind} = GivenFor(o)
      BY <2>1, <2>2
    <2> QED BY <2>1, <2>3 DEF Told, Given
  <1>3. TypeOK /\ FileIsOpen /\ Scanning /\ ReadsWhatFileSays /\ Parsed /\ Started /\ [Next]_vars
            => (TypeOK /\ FileIsOpen /\ Scanning /\ ReadsWhatFileSays /\ Parsed /\ Started)'
    BY TypesStep, ScanStep, ParsedStep, StartedStep
  <1>4. Init => TypeOK /\ FileIsOpen /\ Scanning /\ ReadsWhatFileSays
    BY TypesInit, ScanInit
  <1> QED BY <1>1, <1>2, <1>3, <1>4, PTL DEF Spec

----------------------------------------------------------------------------
(* Precision.                                                              *)

\* A title of some kind that stands before a line stands before the later ones.
LEMMA LastBeforeGrows ==
    ASSUME NEW k \in Nat \ {0}, NEW l \in Nat \ {0}, k < l, NEW kind
    PROVE  LastBefore(k, kind) <= LastBefore(l, kind)
  <1>1. \A m \in TitlesBefore(k, kind) : m \in TitlesBefore(l, kind)
    BY DEF TitlesBefore
  <1>2. LastBefore(l, kind) \in Nat /\ LastBefore(k, kind) \in Nat
    BY LastBeforeType
  <1>3. CASE TitlesBefore(k, kind) = {}
    BY <1>2, <1>3, LastBeforeIs
  <1>4. CASE TitlesBefore(k, kind) # {}
    <2>1. LastBefore(k, kind) \in TitlesBefore(k, kind)
      BY <1>4, LastBeforeIs
    <2>2. LastBefore(k, kind) \in TitlesBefore(l, kind)
      BY <1>1, <2>1
    <2> QED BY <2>2, LastBeforeIs
  <1> QED BY <1>3, <1>4

\* In a well-titled file the lines that count grow more precise.
LEMMA PrecisionGrows ==
    ASSUME WellTitled, DOMAIN file = 1 .. Len(file), Len(file) \in Nat,
           NEW k \in 1 .. Len(file), NEW l \in 1 .. Len(file), k < l, InScope(k), InScope(l)
    PROVE  Precision(k) <= Precision(l)
  <1> DEFINE s == LastBefore(k, "section")
             c == LastBefore(k, "class")
             t == LastBefore(l, "section")
             d == LastBefore(l, "class")
  <1>1. /\ s \in Nat /\ c \in Nat /\ t \in Nat /\ d \in Nat /\ s < k /\ t < l
        /\ s <= t /\ c <= d
    BY LastBeforeType, LastBeforeGrows
  <1>2. /\ Precision(k) = IF s = 0 THEN 0 ELSE IF c <= s THEN 1 ELSE 2
        /\ Precision(l) = IF t = 0 THEN 0 ELSE IF d <= t THEN 1 ELSE 2
    BY DEF Precision
  <1>3. s # 0 => Line(s).kind = "section" /\ Section \in Line(s).names
    BY LastBeforeIs DEF InScope, TitlesBefore
  <1>4. t # 0 => Line(t).kind = "section" /\ Section \in Line(t).names
    BY LastBeforeIs DEF InScope, TitlesBefore
  <1> HIDE DEF s, c, t, d
  <1>5. s # 0 => s = t
    <2>1. SUFFICES ASSUME s # 0 PROVE s = t
      OBVIOUS
    <2>2. t # 0 /\ s \in 1 .. Len(file) /\ t \in 1 .. Len(file)
      BY <1>1, <2>1
    <2> QED BY <1>3, <1>4, <2>1, <2>2 DEF WellTitled
  <1> QED BY <1>1, <1>2, <1>5

\* In a file in which the section of interest has one title, what is in its class
\* of interest overrides what is only in the section, and that what is global
\* (options.c:332-420, src/options/README:29).
THEOREM PreciseWins == Spec => []MorePreciseWins
  <1>1. TypeOK /\ ReadsWhatFileSays => MorePreciseWins
    <2> SUFFICES ASSUME TypeOK, ReadsWhatFileSays, pc = "args", file # Missing, WellTitled,
                        NEW o \in Options, NEW k \in Assignments(o)
                 PROVE  \/ opts[o] = Converted(o, Line(k))
                        \/ \E l \in Assignments(o) : Precision(l) > Precision(k)
                                  \/ (Precision(l) = Precision(k) /\ l > k)
      BY DEF MorePreciseWins
    <2> DEFINE m == LastOf(Assignments(o))
    <2>1. DOMAIN file = 1 .. Len(file) /\ Len(file) \in Nat
      BY FileFacts DEF TypeOK
    <2>2. Assignments(o) \in SUBSET (1 .. Len(file)) /\ Assignments(o) # {}
      BY <2>1 DEF Assignments
    <2>3. m \in Assignments(o) /\ k <= m
      BY <2>1, <2>2, LastOfIs
    <2>4. opts[o] = Converted(o, Line(m))
      BY <2>2 DEF ReadsWhatFileSays, Says
    <2> HIDE DEF m
    <2>5. CASE m = k
      BY <2>4, <2>5
    <2>6. CASE m # k
      <3>1. k \in 1 .. Len(file) /\ m \in 1 .. Len(file) /\ k < m
        BY <2>1, <2>2, <2>3, <2>6
      <3>2. InScope(k) /\ InScope(m)
        BY <2>3 DEF Assignments
      <3>3. Precision(k) <= Precision(m)
        BY <2>1, <3>1, <3>2, PrecisionGrows
      <3>4. Precision(k) \in Int /\ Precision(m) \in Int
        BY DEF Precision
      <3> QED BY <2>3, <3>1, <3>3, <3>4
    <2> QED BY <2>5, <2>6
  <1> QED BY <1>1, TypeCorrect, FileIsUnderstood, PTL
=============================================================================
