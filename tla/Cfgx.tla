-------------------------------- MODULE Cfgx --------------------------------
(***************************************************************************)
(* Parse of package cfgx (src/cfgx): a config struct is filled from        *)
(* sources of increasing priority, and its required fields are checked.    *)
(*                                                                         *)
(* What a source has for a field is an offer: nothing, text that parses to *)
(* a value of its own or to the zero value, text that does not parse, a    *)
(* file that cannot be read.  A value is named for where it comes from.    *)
(* How the names of variables, flags and files are made of the field's     *)
(* path or tags is left out: each offer is already that of its field.      *)
(***************************************************************************)
EXTENDS Integers, FiniteSets

CONSTANTS
  Fields,   \* the fields of the struct that are no structs, at every depth
  Kind,     \* of each: "string", "number", "bool", or "other" that sources cannot set
  Within,   \* the nested structs each is in
  Optional, \* its tag optional: "absent", "true" or "false"
  Version,  \* the top-level field of that name, None if there is none
  Sources,  \* "tags", "env", "flags" and those of options.Sources
  Priority, \* of each
  Names,    \* the names flags may have
  Inputs,   \* the calls of Parse, with what they find
  None

Offer == {"absent", "good", "zero", "bad", "unread"}

\* A call: whether it was given a pointer to a struct, the fields that were filled,
\* the sources that are used, whether options.Args was given, what the sources have
\* (the flags under their long and their short names), options.ErrorHandling, and
\* the two names of each field's flag, the short one None if it has none.
IsInput(i) ==
  /\ i \in [struct : BOOLEAN, filled : SUBSET Fields, used : SUBSET Sources, args : BOOLEAN,
            offer : [Sources -> [Fields -> Offer]], short : [Fields -> Offer],
            handling : {"continue", "exit", "panic"},
            flagName : [Fields -> Names], shortName : [Fields -> Names \cup {None}]]
  /\ "tags" \in i.used
  /\ \A s \in {"tags", "env", "flags"}, f \in Fields : i.offer[s][f] # "unread"
  /\ \A f \in Fields : i.shortName[f] = None => i.short[f] = "absent"
  /\ \A f \in Fields : Kind[f] = "string" =>
       "bad" \notin {i.short[f]} \cup {i.offer[s][f] : s \in Sources}

ASSUME CfgxAssumption ==
  /\ Kind \in [Fields -> {"string", "number", "bool", "other"}]
  /\ Optional \in [Fields -> {"absent", "true", "false"}]
  /\ Version \in Fields => Kind[Version] = "string" /\ Within[Version] = {}
  /\ {"tags", "env", "flags"} \subseteq Sources /\ "short" \notin Sources
  /\ Priority \in [Sources -> Int]
  /\ None \notin Sources \cup Names \cup {"zero"}
  /\ \A i \in Inputs : IsInput(i)

VARIABLES
  input,   \* the call
  pc,      \* "start", "sources", then how Parse ended
  visible, \* the fields of structMap
  left,    \* the sources that have still to be processed
  val      \* what each field holds

vars == <<input, pc, visible, left, val>>

Zero  == "zero"
Given == "given"
Build == "build"  \* the version in the build info
Values == {Zero, Given, Build, "short"} \cup Sources

Ended == {"ok", "error", "exit", "panic"}

(***************************************************************************)
(* Fragments of the code; a mutant is a changed form in which some         *)
(* property below fails.                                                   *)
(***************************************************************************)

Partly(st) == \E g \in input.filled : st \in Within[g]

\* walkStruct skips what is not zero, a field or a struct.  Mutant: it descends
\* into a struct that is partly filled.
FilledItself(f) == f \in input.filled
Skipped(f)      == f \in input.filled \/ \E st \in Within[f] : Partly(st)

\* slices.SortFunc promises no order among sources of one priority.  Mutant: the
\* sources are not sorted.
Anyone(s) == TRUE
Lowest(s) == \A t \in left : Priority[s] <= Priority[t]

\* The value of a text that does not parse: only ParseBool's error is ignored.
\* Mutant: every error is.
Garbage(f)  == "bad"
Unparsed(f) == IF Kind[f] = "bool" THEN Zero ELSE None

\* The tag optional makes a field optional unless it is "false".  Mutant: whatever
\* it is.
HasOptional(f) == Optional[f] # "absent"
IsOptional(f)  == Optional[f] = "true"

\* What tags, variables, files and other sources write into f, None if nothing.
Writes(s, f) ==
  LET o == input.offer[s][f] IN
  IF Kind[f] = "other" THEN None
  ELSE CASE o = "good" -> s
         [] o = "zero" -> Zero
         [] o = "bad"  -> Unparsed(f)
         [] OTHER      -> None

\* Both names of a flag are defined for the fields of structMap that Parse can set.
Registered(f) == f \in visible /\ Kind[f] # "other"
FlagNames(f) == {input.flagName[f], input.shortName[f]} \ {None}

\* A name is defined twice.
Clash == \E f, g \in {h \in Fields : Registered(h)} :
  IF f = g THEN input.flagName[f] = input.shortName[f]
           ELSE FlagNames(f) \cap FlagNames(g) # {}

FlagOffers(f) == IF input.args THEN {input.offer["flags"][f], input.short[f]} ELSE {"absent"}

FlagsParse ==
  \A f \in Fields : FlagOffers(f) \subseteq
    {"absent"} \cup (IF Registered(f) THEN {"good", "zero"} ELSE {})

\* The flags that are set: a zero value counts as not given.
FlagValues(f) ==
  (IF input.args /\ input.offer["flags"][f] = "good" THEN {"flags"} ELSE {}) \cup
  (IF input.args /\ input.short[f] = "good" THEN {"short"} ELSE {})

\* What handleError, and the flag package, make of an error.
Outcome == IF input.handling = "continue" THEN "error" ELSE input.handling

-----------------------------------------------------------------------------
Init ==
  /\ input \in Inputs
  /\ pc = "start"
  /\ visible = {} /\ left = {}
  /\ val = [f \in Fields |-> IF f \in input.filled THEN Given ELSE Zero]

NotAStruct ==
  /\ pc = "start" /\ ~input.struct
  /\ pc' = Outcome
  /\ UNCHANGED <<input, visible, left, val>>

\* The walk, the list of sources, and Version.
Walk ==
  /\ pc = "start" /\ input.struct
  /\ visible' = {f \in Fields : ~Skipped(f)}
  /\ left' = input.used
  /\ val' = IF Version \in visible' THEN [val EXCEPT ![Version] = Build] ELSE val
  /\ pc' = "sources"
  /\ UNCHANGED input

Takes(s) ==
  /\ pc = "sources" /\ s \in left /\ Lowest(s)
  /\ left' = left \ {s}
  /\ UNCHANGED <<input, visible>>

\* One field at a time: an error in one stops no other, and Parse does not look at
\* the errors.
Fills(s) ==
  /\ Takes(s)
  /\ val' = [f \in Fields |-> IF f \in visible /\ Writes(s, f) # None THEN Writes(s, f) ELSE val[f]]
  /\ UNCHANGED pc

ProcessTags     == Fills("tags")
ProcessEnv      == Fills("env")
ProcessFiles(s) == s \notin {"tags", "env", "flags"} /\ Fills(s)

\* The two names of a flag write to the same field, in Go's map order.
ProcessFlags ==
  /\ Takes("flags") /\ ~Clash /\ FlagsParse
  /\ \E last \in [Fields -> {"flags", "short"}] :
       val' = [f \in Fields |->
                 IF FlagValues(f) = {} THEN val[f]
                 ELSE IF last[f] \in FlagValues(f) THEN last[f]
                 ELSE CHOOSE v \in FlagValues(f) : TRUE]
  /\ UNCHANGED pc

\* A flag that does not parse, or that nothing defines, fails the whole source.
FlagsFail ==
  /\ Takes("flags") /\ ~Clash /\ ~FlagsParse
  /\ pc' = IF input.handling = "continue" THEN pc ELSE Outcome
  /\ UNCHANGED val

\* The flag package panics when a name is defined twice, however errors are handled.
FlagsClash ==
  /\ Takes("flags") /\ Clash
  /\ pc' = "panic"
  /\ UNCHANGED val

Validate ==
  /\ pc = "sources" /\ left = {}
  /\ pc' = IF \A f \in visible : IsOptional(f) \/ val[f] # Zero THEN "ok" ELSE Outcome
  /\ UNCHANGED <<input, visible, left, val>>

Next ==
  \/ NotAStruct \/ Walk
  \/ ProcessTags \/ ProcessEnv \/ \E s \in Sources : ProcessFiles(s)
  \/ ProcessFlags \/ FlagsFail \/ FlagsClash \/ Validate

Spec == Init /\ [][Next]_vars

-----------------------------------------------------------------------------
TypeOK ==
  /\ input \in Inputs
  /\ pc \in {"start", "sources"} \cup Ended
  /\ visible \subseteq Fields
  /\ left \subseteq Sources
  /\ val \in [Fields -> Values]

\* What a text means for a field; s is where the value comes from.
Reads(o, s) == CASE o = "good" -> {s} [] o = "zero" -> {Zero} [] OTHER -> {}

\* What a source gives a field, from its documentation: every value that it has and that
\* parses.  Of the two names of a flag either may come last.
Gives(s, f) ==
  IF Kind[f] = "other" THEN {}
  ELSE Reads(input.offer[s][f], s) \cup (IF s = "flags" THEN Reads(input.short[f], "short") ELSE {})

\* The flags are read if options.Args was given and no flag is wrong.
Heard == input.args /\ FlagsParse

\* What the code makes of it.  It departs from the documentation in three points: of the
\* flags nothing counts if there are no Args (cfgx.go:107) or one is wrong
\* (sources.go:261), nor does a zero value (sources.go:269); a bool that another
\* source gives a text that does not parse is false.
Says(s, f) ==
  IF s = "flags" THEN IF Heard THEN Gives(s, f) \ {Zero} ELSE {}
  ELSE IF Kind[f] = "bool" /\ input.offer[s][f] = "bad" THEN {Zero}
  ELSE Gives(s, f)

\* f holds what a source of the highest priority has for it, among the sources that are
\* used and have something, and what it held before if there is none.
HighestWins(f, has) ==
  LET E   == {s \in input.used : has[s] # {}}
      Top == {s \in E : \A t \in E : Priority[t] <= Priority[s]}
  IN  IF E = {} THEN val[f] = (IF f = Version THEN Build ELSE Zero)
      ELSE \E s \in Top : val[f] \in has[s]

Processed == pc = "sources" /\ left = {}

\* When the sources have been processed, each field of structMap holds what the source
\* of the highest priority says, but for the three points of Says: whatever failed in
\* other fields and other sources, and whatever order sources of one priority ran in.
Precedence ==
  Processed => \A f \in visible : HighestWins(f, [s \in Sources |-> Says(s, f)])

\* What the caller has filled stays, and so does the rest of a struct of which he
\* has filled a part.
FilledStays ==
  [][\A f \in Fields :
       f \in input.filled \/ (\E st \in Within[f] : Partly(st)) => val'[f] = val[f]]_vars

\* Parse returns no error only if every required field has a value; the fields of
\* a struct that was partly filled are not looked at.
RequiredIsSet ==
  pc = "ok" => \A f \in Fields :
    Optional[f] \in {"absent", "false"} /\ ~(\E st \in Within[f] : Partly(st)) => val[f] # Zero

-----------------------------------------------------------------------------
(* What the documentation says and the code does not keep: cfgx.go:35,     *)
(* 'Higher priority sources override lower priority sources', with         *)
(* cfgx.go:64, 'Args provides command line arguments (defaults to          *)
(* os.Args[1:])'.                                                          *)

\* Each field holds what the source of the highest priority gives it.
DocumentedPrecedence ==
  Processed => \A f \in visible : HighestWins(f, [s \in Sources |-> Gives(s, f)])
=============================================================================
