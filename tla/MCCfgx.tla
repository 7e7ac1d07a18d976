------------------------------- MODULE MCCfgx -------------------------------
(***************************************************************************)
(* Instances of Cfgx for TLC: a struct with a number n, a bool d and the   *)
(* Version at the top, a string u and a number p in a nested struct, and a *)
(* slice x.  The docker secrets have a priority of their own, custom that  *)
(* of the environment.                                                     *)
(***************************************************************************)
EXTENDS Cfgx

CONSTANTS n, d, u, p, x, version, db

MCKind == [f \in Fields |-> CASE f \in {n, p} -> "number" [] f = d -> "bool"
                              [] f = x -> "other" [] OTHER -> "string"]
MCWithin == [f \in Fields |-> IF f \in {u, p} THEN {db} ELSE {}]
MCOptional == [f \in Fields |-> CASE f = x -> "true" [] f = p -> "false"
                                  [] f = d -> "true" [] OTHER -> "absent"]
MCPriority == [s \in Sources |-> CASE s = "tags" -> 0 [] s \in {"env", "custom"} -> 50
                                   [] s = "secrets" -> 75 [] s = "flags" -> 100]

\* One field's offers vary at a time, the others have their tags and sometimes a
\* variable.
Tagged(f) == IF f = x THEN "absent" ELSE "good"
Base == [s \in Sources |-> [f \in Fields |->
           IF s = "tags" THEN Tagged(f) ELSE IF s = "env" /\ f \in {u, version} THEN "good" ELSE "absent"]]
NoShort == [f \in Fields |-> "absent"]

With(f, os) == [s \in Sources |-> [Base[s] EXCEPT ![f] = os[s]]]

\* A name of its own for each long and each short flag; x has no short one.
MCNames == Fields \X {"long", "short"}

Call(S, u0, of, sh, h) ==
  [struct |-> TRUE, filled |-> S, used |-> u0, args |-> TRUE, offer |-> of, short |-> sh,
   handling |-> h, flagName |-> [f \in Fields |-> <<f, "long">>],
   shortName |-> [f \in Fields |-> IF f = x THEN None ELSE <<f, "short">>]]

Texts(f) == IF Kind[f] = "string" THEN {"absent", "good", "zero"} ELSE {"absent", "good", "zero", "bad"}
Some(f) == [tags : Texts(f), env : Texts(f), secrets : {"absent", "good", "unread"},
            custom : {"absent", "good"}, flags : Texts(f)]

\* Every way to offer a value of one field, of each kind.
Offers == UNION {{Call({}, Sources, With(f, os), NoShort, "continue") : os \in Some(f)} : f \in {n, d}}

\* Fields filled before, sources that are skipped, both names of a flag, a flag for
\* a field that has none, flags without options.Args, and each way to handle errors.
Others ==
  {[Call(S, U, With(f, [s \in Sources |-> IF s = "flags" THEN o ELSE Base[s][f]]),
         [NoShort EXCEPT ![n] = o2], g[1]) EXCEPT !.args = g[2]] :
     S \in {{}, {n}, {u}, {version}}, U \in {Sources, {"tags", "flags"}, {"tags", "env"}},
     f \in {n, p, x}, o \in {"absent", "good", "bad"}, o2 \in {"absent", "good", "zero"},
     g \in {"continue", "exit", "panic"} \X {TRUE} \cup {<<"continue", FALSE>>}}

NoTags == [s \in Sources |-> [f \in Fields |-> IF s = "tags" /\ f # u THEN "absent" ELSE Base[s][f]]]
Bare ==
  {[Call(S, Sources, NoTags, NoShort, h) EXCEPT !.args = g, !.struct = b] :
     S \in SUBSET {n, u, p}, h \in {"continue", "exit"}, g \in BOOLEAN, b \in BOOLEAN}

\* A flag that has a name of another's, long or short, of a field whose kind has
\* flags and of one whose kind has none, and a flag whose names are the same.
Clashing ==
  {[Call(S, U, Base, NoShort, "continue") EXCEPT !.flagName[p] = name] :
     S \in {{}, {n}}, U \in {Sources, {"tags"}},
     name \in {<<n, "long">>, <<n, "short">>, <<x, "long">>, <<p, "short">>}} \cup
  {[Call(S, U, Base, NoShort, "continue") EXCEPT !.shortName[p] = <<n, "short">>] :
     S \in {{}, {n}}, U \in {Sources, {"tags"}}}

MCInputs == Offers \cup Others \cup Bare \cup Clashing
=============================================================================
