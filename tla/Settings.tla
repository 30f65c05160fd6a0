------------------------------ MODULE Settings ------------------------------
(***************************************************************************)
(* Where the daemon's settings come from: the configuration file, read a   *)
(* line at a time by MOptionsRead (options/options.c) into the table of    *)
(* cfg_read.h, then the command line (do_opts, wxd.c), and both again each *)
(* time main goes round its restart loop.                                  *)
(*                                                                         *)
(* Data: a line is what MOptionsRead takes it for.  A section title has a  *)
(* set of names, a class title one; an assignment names an option (or      *)
(* something that is not in the table) and a number, in quotes or not; a   *)
(* bare line has a single word, a blank one nothing to assign (a comment,  *)
(* spaces, an option without a value).                                     *)
(***************************************************************************)
EXTENDS Integers, Sequences

CONSTANTS TypeOf,       \* the table: the type of each option
          Default,      \* the value each is initialized with
          Section, Class,   \* what the program asks for
          Files,        \* what the file may contain at first,
          Edited,       \* and when main goes round again
          Missing,      \* the file cannot be opened
          CommandLines, \* the command line: pairs of option and number, and "?"
                        \* for an option that getopt does not know
          MaxRounds     \* bound: how often main goes round

Options == DOMAIN TypeOf

ASSUME SettingsAssumption ==
    /\ TypeOf \in [Options -> {"int", "str", "bool"}]
    /\ Default \in [Options -> Nat] /\ "?" \notin Options
    /\ Missing \notin Files /\ Edited \subseteq Files
    /\ \A f \in Files : /\ Len(f) \in Nat /\ DOMAIN f = 1 .. Len(f)
                        /\ \A k \in DOMAIN f : f[k].kind = "assign" => f[k].value \in Nat
    /\ \A c \in CommandLines : /\ Len(c) \in Nat /\ DOMAIN c = 1 .. Len(c)
                               /\ \A k \in DOMAIN c : c[k].value \in Nat
    /\ MaxRounds \in Nat \ {0}

VARIABLES file,         \* what the file contains now
          args,         \* the command line of the process
          optind,       \* getopt's place in it, which nobody sets back
          errflg,       \* getopt has met an option it does not know
          pc,
          at,           \* the next line to read
          mySection, myClass,   \* whether it is in a section, a class, of interest
          opts,
          before,       \* history: opts when the reading began
          round         \* which round of the restart loop this is

vars == <<file, args, optind, errflg, pc, at, mySection, myClass, opts, before, round>>

Line(k) == file[k]

Init ==
    /\ file \in Files \cup {Missing} /\ args \in CommandLines /\ optind = 1 /\ errflg = FALSE
    /\ pc = "open" /\ at = 0 /\ mySection = FALSE /\ myClass = FALSE
    /\ opts = Default /\ before = Default /\ round = 1

----------------------------------------------------------------------------
(* MOptionsRead and SetValue                                               *)

\* Bug: the lines are counted from zero.
OpenAtZero ==
    /\ pc = "open"
    /\ IF file = Missing
         THEN pc' = "args" /\ UNCHANGED <<at, mySection, myClass>>
         ELSE pc' = "line" /\ at' = 0 /\ mySection' = TRUE /\ myClass' = TRUE
    /\ before' = opts
    /\ UNCHANGED <<file, args, optind, errflg, opts, round>>

\* A file that cannot be opened leaves everything as it is.
Open ==
    /\ pc = "open"
    /\ IF file = Missing
         THEN pc' = "args" /\ UNCHANGED <<at, mySection, myClass>>
         ELSE pc' = "line" /\ at' = 1 /\ mySection' = TRUE /\ myClass' = TRUE
    /\ before' = opts
    /\ UNCHANGED <<file, args, optind, errflg, opts, round>>

Reading == pc = "line" /\ at <= Len(file)
NextLine == at' = at + 1 /\ UNCHANGED <<file, args, optind, errflg, pc, before, round>>

\* A title of sections: the lines up to the first class title count as well.
SectionTitle ==
    /\ Reading /\ Line(at).kind = "section"
    /\ mySection' = (Section \in Line(at).names)
    /\ myClass' = mySection'
    /\ NextLine /\ UNCHANGED opts

\* Bug: a class counts wherever it is.
ClassTitleAnywhere ==
    /\ Reading /\ Line(at).kind = "class"
    /\ myClass' = (Line(at).name = Class)
    /\ NextLine /\ UNCHANGED <<mySection, opts>>

ClassTitle ==
    /\ Reading /\ Line(at).kind = "class"
    /\ myClass' = (mySection /\ Line(at).name = Class)
    /\ NextLine /\ UNCHANGED <<mySection, opts>>

Skip ==
    /\ Reading
    /\ Line(at).kind = "blank" \/ (Line(at).kind \in {"assign", "bare"} /\ ~myClass)
    /\ NextLine /\ UNCHANGED <<mySection, myClass, opts>>

\* Whether the text is taken, and what it is taken for.  atoi stops at a
\* quote; a string must have quotes; what is no boolean is taken for false.
Taken(o, line) == TypeOf[o] = "str" => line.quoted
Converted(o, line) ==
    CASE TypeOf[o] = "str"  -> line.value
      [] TypeOf[o] = "int"  -> IF line.quoted THEN 0 ELSE line.value
      [] TypeOf[o] = "bool" -> IF line.value = 1 /\ ~line.quoted THEN 1 ELSE 0

Sets(o, line) == line.kind = "assign" /\ line.name = o /\ Taken(o, line)

\* Bug: an option that has been set already keeps its value.
SetValueOnce ==
    /\ Reading /\ Line(at).kind = "assign" /\ myClass
    /\ opts' = [o \in Options |-> IF Sets(o, Line(at)) /\ opts[o] = before[o]
                                   THEN Converted(o, Line(at)) ELSE opts[o]]
    /\ NextLine /\ UNCHANGED <<mySection, myClass>>

SetValue ==
    /\ Reading /\ Line(at).kind = "assign" /\ myClass
    /\ opts' = [o \in Options |-> IF Sets(o, Line(at)) THEN Converted(o, Line(at)) ELSE opts[o]]
    /\ NextLine /\ UNCHANGED <<mySection, myClass>>

\* What came before a line without a separator has been set already, what
\* comes after it never is; cfg_read does not look at what it gets back.
SyntaxError ==
    /\ Reading /\ Line(at).kind = "bare" /\ myClass
    /\ pc' = "args"
    /\ UNCHANGED <<file, args, optind, errflg, at, mySection, myClass, opts, before, round>>

EndOfFile ==
    /\ pc = "line" /\ at > Len(file)
    /\ pc' = "args"
    /\ UNCHANGED <<file, args, optind, errflg, at, mySection, myClass, opts, before, round>>

----------------------------------------------------------------------------
(* do_opts and the restart loop                                            *)

\* do_opts begins: its error flag is a local, optind is getopt's own.
DoOpts ==
    /\ pc = "args"
    /\ pc' = "getopt" /\ errflg' = FALSE
    /\ UNCHANGED <<file, args, optind, at, mySection, myClass, opts, before, round>>

\* getopt has an option for do_opts and goes on to the next.
GetOpt ==
    /\ pc = "getopt" /\ optind <= Len(args)
    /\ optind' = optind + 1
    /\ UNCHANGED <<file, args, pc, at, mySection, myClass, before, round>>

\* Bug: an option that has been given already keeps its value.
TakeOptionOnce ==
    /\ GetOpt /\ args[optind].name # "?"
    /\ opts' = [o \in Options |->
                   IF args[optind].name = o /\ ~\E k \in 1 .. optind - 1 : args[k].name = o
                   THEN args[optind].value ELSE opts[o]]
    /\ UNCHANGED errflg

\* -d and -i set an option of the table; -f sets none.
TakeOption ==
    /\ GetOpt /\ args[optind].name # "?"
    /\ opts' = [o \in Options |-> IF args[optind].name = o THEN args[optind].value ELSE opts[o]]
    /\ UNCHANGED errflg

RefuseOption ==
    /\ GetOpt /\ args[optind].name = "?"
    /\ errflg' = TRUE
    /\ UNCHANGED opts

\* At the end of the command line, in a later round at once, do_opts returns,
\* or ends the program if an option was refused.
OptsDone ==
    /\ pc = "getopt" /\ optind > Len(args)
    /\ pc' = IF errflg THEN "exit" ELSE "run"
    /\ UNCHANGED <<file, args, optind, errflg, at, mySection, myClass, opts, before, round>>

\* The file may have been edited; opts keeps what it had, and getopt its place.
Restart ==
    /\ pc = "run" /\ round < MaxRounds
    /\ file' \in Edited \cup {Missing}
    /\ round' = round + 1
    /\ pc' = "open"
    /\ UNCHANGED <<args, optind, errflg, at, mySection, myClass, opts, before>>

----------------------------------------------------------------------------

Read == Open \/ SectionTitle \/ ClassTitle \/ Skip \/ SetValue \/ SyntaxError \/ EndOfFile

Next == Read \/ DoOpts \/ TakeOption \/ RefuseOption \/ OptsDone \/ Restart

Spec == Init /\ [][Next]_vars

----------------------------------------------------------------------------
(* What a file and a command line say, without the loops that read them.   *)

LastOf(S) == CHOOSE m \in S : \A l \in S : l <= m

LastBefore(k, kind) ==
    LET L == {l \in 1 .. k - 1 : Line(l).kind = kind}
    IN IF L = {} THEN 0 ELSE LastOf(L)

\* A line counts if its section does, and its class, if it is in one.
InScope(k) ==
    LET s == LastBefore(k, "section")
        c == LastBefore(k, "class")
    IN /\ s = 0 \/ Section \in Line(s).names
       /\ c <= s \/ Line(c).name = Class

\* It is read if no bare line that counts stands before it.
IsRead(k) == \A l \in 1 .. k - 1 : ~(Line(l).kind = "bare" /\ InScope(l))

Assignments(o) == {k \in DOMAIN file : Sets(o, Line(k)) /\ InScope(k) /\ IsRead(k)}

\* The last assignment, or what the option was.
Says(o, was) == IF Assignments(o) = {} THEN was ELSE Converted(o, Line(LastOf(Assignments(o))))

GivenFor(o) == {k \in DOMAIN args : args[k].name = o}

Given(o) == args[LastOf(GivenFor(o))].value

----------------------------------------------------------------------------
(* Properties.                                                             *)

\* Every variable has its type (cfg_read.h:57-68 and the locals of
\* MOptionsRead).
TypeOK ==
    /\ file \in Files \cup {Missing} /\ args \in CommandLines
    /\ optind \in 1 .. Len(args) + 1 /\ errflg \in BOOLEAN
    /\ pc \in {"open", "line", "args", "getopt", "run", "exit"}
    /\ at \in Nat /\ (pc = "line" => at \in 1 .. Len(file) + 1)
    /\ mySection \in BOOLEAN /\ myClass \in BOOLEAN
    /\ opts \in [Options -> Nat] /\ before \in [Options -> Nat]
    /\ round \in 1 .. MaxRounds

\* After the file is read, every option is what the last assignment to it says
\* that is in the right section and class and before any syntax error there,
\* or else what it was (options.c:332-420).
ReadsWhatFileSays ==
    pc = "args" /\ file # Missing => \A o \in Options : opts[o] = Says(o, before[o])

\* How precise the definitions around line k are: global, for the sections of
\* the last title, for a class of theirs.
Precision(k) == IF LastBefore(k, "section") = 0 THEN 0
                ELSE IF LastBefore(k, "class") <= LastBefore(k, "section") THEN 1 ELSE 2

\* A file in which no class comes before the first section, and the section of
\* interest has one title.
WellTitled ==
    LET T(kind) == {k \in DOMAIN file : Line(k).kind = kind}
    IN /\ \A c \in T("class") : LastBefore(c, "section") # 0
       /\ \A k, l \in T("section") :
              Section \in Line(k).names \cap Line(l).names => k = l

\* The last assignment wins (options.c:419), yet "more precise definitions
\* override less precise ones" (src/options/README:29), if every section has one
\* title and the classes are in sections.
MorePreciseWins ==
    pc = "args" /\ file # Missing /\ WellTitled => \A o \in Options :
        \A k \in Assignments(o) :
            opts[o] = Converted(o, Line(k))
            \/ \E l \in Assignments(o) : Precision(l) > Precision(k)
                                      \/ (Precision(l) = Precision(k) /\ l > k)

\* The daemon runs if no option was refused, and ends if one was; when it first
\* runs, each option has the last value the command line gives it, or else the
\* last the file does, or else the one it is initialized with (wxd.c:71-74,
\* 140-174).
StartsAsTold ==
    /\ pc = "run"  => GivenFor("?") = {}
    /\ pc = "exit" => GivenFor("?") # {}
    /\ pc = "run" /\ round = 1 => \A o \in Options :
           opts[o] = IF GivenFor(o) # {} THEN Given(o)
                     ELSE IF file = Missing THEN Default[o] ELSE Says(o, Default[o])

----------------------------------------------------------------------------
(* Stated by the repository's texts; the run that checks it fails.         *)

\* Command line options override those of the file, round after round
\* (wxd.c:73).
CommandLineWins ==
    pc = "run" => \A o \in Options : GivenFor(o) # {} => opts[o] = Given(o)
=============================================================================
