----------------------------- MODULE CfgxProofs -----------------------------
(***************************************************************************)
(* Parse for every struct, every set of sources with every priorities, and *)
(* every content of them.                                                  *)
(***************************************************************************)
EXTENDS Cfgx, TLAPS

\* The sources that were processed.
Done == input.used \ left

\* What the code has a source write into f.
Effect(s, f) ==
  IF s # "flags" THEN {Writes(s, f)} \ {None}
  ELSE IF FlagsParse THEN FlagValues(f) ELSE {}

Default(f) == IF f = Version THEN Build ELSE Zero

\* What f holds is what a processed source wrote, of the highest priority among the
\* processed ones that have a say, or the default.
Best(f) ==
  \/ val[f] = Default(f) /\ \A s \in Done : Effect(s, f) = {}
  \/ \E s \in Done : /\ val[f] \in Effect(s, f)
                     /\ \A t \in Done : Effect(t, f) # {} => Priority[t] <= Priority[s]

FilledInv == \A f \in input.filled : val[f] = Given

\* Before the walk nothing has changed.
StartInv ==
  pc = "start" => /\ visible = {} /\ left = {}
                  /\ \A f \in Fields \ input.filled : val[f] = Zero

\* While sources are processed: they come in the order of their priorities.
SourcesInv ==
  pc = "sources" =>
    /\ visible = {f \in Fields : ~Skipped(f)}
    /\ left \subseteq input.used
    /\ \A s \in Done, t \in left : Priority[s] <= Priority[t]
    /\ \A f \in visible : Best(f)

OkInv ==
  pc = "ok" => /\ visible = {f \in Fields : ~Skipped(f)}
               /\ \A f \in visible : IsOptional(f) \/ val[f] # Zero

IInv == TypeOK /\ FilledInv /\ StartInv /\ SourcesInv /\ OkInv

-----------------------------------------------------------------------------
\* A call has the fields of IsInput.
LEMMA InputFields ==
  ASSUME input \in Inputs
  PROVE  /\ input.filled \subseteq Fields
         /\ input.used \subseteq Sources
         /\ input.handling \in {"continue", "exit", "panic"}
  <1>1. IsInput(input)
    BY CfgxAssumption
  <1> QED BY <1>1 DEF IsInput

\* Every error has an outcome, which is not that all went well.
LEMMA OutcomeEnds ==
  ASSUME input \in Inputs
  PROVE  Outcome \in Ended /\ Outcome \notin {"start", "sources", "ok"}
  BY InputFields DEF Outcome, Ended

\* What a source writes is a value.
LEMMA WritesType ==
  ASSUME NEW s \in Sources, NEW f \in Fields
  PROVE  Writes(s, f) = None \/ Writes(s, f) \in Values
  <1> DEFINE o == input.offer[s][f]
  <1>1. Writes(s, f) \in {None, s, Zero}
    <2>1. CASE Kind[f] = "other"
      BY <2>1 DEF Writes
    <2>2. CASE Kind[f] # "other" /\ o = "good"
      BY <2>2 DEF Writes
    <2>3. CASE Kind[f] # "other" /\ o = "zero"
      BY <2>3 DEF Writes
    <2>4. CASE Kind[f] # "other" /\ o = "bad"
      BY <2>4 DEF Writes, Unparsed
    <2>5. CASE Kind[f] # "other" /\ o \notin {"good", "zero", "bad"}
      BY <2>5 DEF Writes
    <2> QED BY <2>1, <2>2, <2>3, <2>4, <2>5
  <1> QED BY <1>1 DEF Values

\* Flags that parse are those of fields of structMap.
LEMMA FlagsAreVisible ==
  ASSUME FlagsParse, NEW f \in Fields, FlagValues(f) # {}
  PROVE  f \in visible /\ FlagValues(f) \subseteq {"flags", "short"}
  <1>1. input.args /\ "good" \in FlagOffers(f)
    BY DEF FlagValues, FlagOffers
  <1>2. Registered(f)
    BY <1>1 DEF FlagsParse
  <1> QED BY <1>2 DEF Registered, FlagValues

\* What ProcessFlags leaves in a field.
LEMMA FlagsWrite ==
  ASSUME TypeOK, ProcessFlags, NEW f \in Fields
  PROVE  /\ val' \in [Fields -> Values]
         /\ FlagValues(f) = {} => val'[f] = val[f]
         /\ FlagValues(f) # {} => f \in visible /\ val'[f] \in FlagValues(f)
  <1>1. PICK last \in [Fields -> {"flags", "short"}] :
          val' = [g \in Fields |->
                    IF FlagValues(g) = {} THEN val[g]
                    ELSE IF last[g] \in FlagValues(g) THEN last[g]
                    ELSE CHOOSE v \in FlagValues(g) : TRUE]
    BY DEF ProcessFlags
  <1>2. ASSUME NEW g \in Fields, FlagValues(g) # {} PROVE g \in visible /\ val'[g] \in FlagValues(g)
    BY <1>1, <1>2, FlagsAreVisible DEF ProcessFlags
  <1>3. ASSUME NEW g \in Fields PROVE val'[g] \in Values
    <2>1. CASE FlagValues(g) = {}
      BY <1>1, <2>1 DEF TypeOK
    <2>2. CASE FlagValues(g) # {}
      <3>1. val'[g] \in {"flags", "short"}
        BY <1>2, <2>2, FlagsAreVisible DEF ProcessFlags
      <3> QED BY <3>1, CfgxAssumption DEF Values
    <2> QED BY <2>1, <2>2
  <1>4. val' \in [Fields -> Values]
    BY <1>1, <1>3
  <1> QED BY <1>1, <1>2, <1>4

\* Every variable keeps its type.
LEMMA TypeStep == TypeOK /\ [Next]_vars => TypeOK'
  <1> SUFFICES ASSUME TypeOK, [Next]_vars PROVE TypeOK'
    OBVIOUS
  <1> USE DEF TypeOK, Ended
  <1>1. NotAStruct \/ Validate => TypeOK'
    BY OutcomeEnds DEF NotAStruct, Validate
  <1>2. Walk => TypeOK'
    BY InputFields DEF Walk, Values
  <1>3. ASSUME NEW s \in Sources, Fills(s) PROVE TypeOK'
    <2>1. \A f \in Fields : Writes(s, f) = None \/ Writes(s, f) \in Values
      BY WritesType
    <2> QED BY <1>3, <2>1 DEF Fills, Takes
  <1>4. ProcessFlags => TypeOK'
    <2>1. ASSUME ProcessFlags, Fields # {} PROVE val' \in [Fields -> Values]
      BY <2>1, FlagsWrite
    <2>2. ASSUME ProcessFlags, Fields = {} PROVE val' \in [Fields -> Values]
      BY <2>2 DEF ProcessFlags
    <2> QED BY <2>1, <2>2 DEF ProcessFlags, Takes
  <1>5. FlagsFail \/ FlagsClash => TypeOK'
    BY OutcomeEnds DEF FlagsFail, FlagsClash, Takes
  <1>6. UNCHANGED vars => TypeOK'
    BY DEF vars
  <1> QED BY <1>1, <1>2, <1>3, <1>4, <1>5, <1>6, CfgxAssumption
          DEF Next, ProcessTags, ProcessEnv, ProcessFiles

-----------------------------------------------------------------------------
(* The invariant.                                                          *)

\* The call and what is read of it stay.
LEMMA InputStays ==
  ASSUME [Next]_vars
  PROVE  /\ input' = input
         /\ \A f \in Fields : Skipped(f)' = Skipped(f)
  <1>1. input' = input
    BY DEF Next, NotAStruct, Walk, ProcessTags, ProcessEnv, ProcessFiles, Fills, Takes,
           ProcessFlags, FlagsFail, FlagsClash, Validate, vars
  <1> QED BY <1>1 DEF Skipped, Partly

\* Once the walk is done, so is what the sources have to say.
LEMMA EffectStays ==
  ASSUME [Next]_vars, visible' = visible, NEW s, NEW f
  PROVE  Effect(s, f)' = Effect(s, f)
  BY InputStays DEF Effect, Writes, FlagsParse, FlagOffers, Registered, FlagValues

\* A step that processes a source: what is written is what it has to say.
LEMMA SourceStep ==
  ASSUME TypeOK, [Next]_vars, NEW s \in Sources, Takes(s), pc' = "sources",
         \/ Fills(s) /\ s # "flags"
         \/ s = "flags" /\ (ProcessFlags \/ FlagsFail)
  PROVE  \A f \in Fields : /\ f \notin visible => val'[f] = val[f]
                           /\ f \in visible /\ Effect(s, f) = {} => val'[f] = val[f]
                           /\ f \in visible /\ Effect(s, f) # {} => val'[f] \in Effect(s, f)
  <1> SUFFICES ASSUME NEW f \in Fields
               PROVE  /\ f \notin visible => val'[f] = val[f]
                      /\ f \in visible /\ Effect(s, f) = {} => val'[f] = val[f]
                      /\ f \in visible /\ Effect(s, f) # {} => val'[f] \in Effect(s, f)
    OBVIOUS
  <1>1. CASE Fills(s) /\ s # "flags"
    BY <1>1 DEF Fills, Effect
  <1>2. CASE s = "flags" /\ ProcessFlags
    BY <1>2, FlagsWrite DEF ProcessFlags, Effect
  <1>3. CASE s = "flags" /\ FlagsFail
    BY <1>3 DEF FlagsFail, Effect
  <1> QED BY <1>1, <1>2, <1>3

\* The source that is processed has the highest priority so far.
LEMMA BestStep ==
  ASSUME IInv, [Next]_vars, NEW s \in Sources, Takes(s), pc' = "sources",
         \/ Fills(s) /\ s # "flags"
         \/ s = "flags" /\ (ProcessFlags \/ FlagsFail)
  PROVE  SourcesInv'
  <1>1. /\ pc = "sources" /\ s \in left /\ left' = left \ {s}
        /\ visible' = visible /\ \A t \in left : Priority[s] <= Priority[t]
    BY DEF Takes, Lowest
  <1>2. /\ input' = input /\ left \subseteq input.used /\ input.used \subseteq Sources
        /\ visible \subseteq Fields
    BY <1>1, InputStays, InputFields DEF IInv, SourcesInv, TypeOK
  <1>3. Done' = Done \cup {s} /\ Done \subseteq Sources
    BY <1>1, <1>2 DEF Done
  <1>4. \A t \in Done : Priority[t] <= Priority[s]
    BY <1>1 DEF IInv, SourcesInv
  <1>5. \A t \in Done', r \in left' : Priority[t] <= Priority[r]
    BY <1>1, <1>3 DEF IInv, SourcesInv
  <1>6. ASSUME NEW f \in visible PROVE Best(f)'
    <2>1. \A t : Effect(t, f)' = Effect(t, f)
      BY <1>1, EffectStays
    <2>2. Best(f) /\ Priority[s] <= Priority[s] /\ Default(f)' = Default(f)
      BY <1>1, CfgxAssumption DEF IInv, SourcesInv, Default
    <2>3. CASE Effect(s, f) = {}
      <3>1. val'[f] = val[f]
        BY <1>2, <2>3, SourceStep DEF IInv
      <3> QED BY <1>3, <2>1, <2>2, <2>3, <3>1 DEF Best
    <2>4. CASE Effect(s, f) # {}
      <3>1. val'[f] \in Effect(s, f)
        BY <1>2, <2>4, SourceStep DEF IInv
      <3>2. s \in Done' /\ \A t \in Done' : Priority[t] <= Priority[s]
        BY <1>3, <1>4, <2>2
      <3> QED BY <2>1, <3>1, <3>2 DEF Best
    <2> QED BY <2>3, <2>4
  <1>7. visible' = {f \in Fields : ~Skipped(f)}'
    BY <1>1, InputStays DEF IInv, SourcesInv
  <1> QED BY <1>1, <1>2, <1>5, <1>6, <1>7 DEF SourcesInv

\* No step changes a field that the walk skips.
LEMMA SkippedStays ==
  ASSUME IInv, [Next]_vars, NEW f \in Fields, Skipped(f)
  PROVE  val'[f] = val[f]
  <1>1. pc = "sources" => f \notin visible
    BY DEF IInv, SourcesInv
  <1>2. CASE NotAStruct \/ FlagsFail \/ FlagsClash \/ Validate \/ UNCHANGED vars
    BY <1>2 DEF NotAStruct, FlagsFail, FlagsClash, Validate, vars
  <1>3. CASE Walk
    BY <1>3 DEF Walk, IInv, TypeOK
  <1>4. ASSUME NEW s, Fills(s) PROVE val'[f] = val[f]
    BY <1>1, <1>4 DEF Fills, Takes
  <1>5. CASE ProcessFlags
    BY <1>1, <1>5, FlagsWrite DEF ProcessFlags, Takes, IInv
  <1> QED BY <1>2, <1>3, <1>4, <1>5 DEF Next, ProcessTags, ProcessEnv, ProcessFiles

\* A field that was filled keeps what it was given.
LEMMA FilledStep == IInv /\ [Next]_vars => FilledInv'
  <1> SUFFICES ASSUME IInv, [Next]_vars, NEW f \in input.filled PROVE val'[f] = Given
    BY InputStays DEF FilledInv
  <1>1. f \in Fields /\ Skipped(f)
    BY InputFields DEF IInv, TypeOK, Skipped
  <1> QED BY <1>1, SkippedStays DEF IInv, FilledInv

\* The walk finds the fields, and gives Version its default.
LEMMA WalkStep == IInv /\ [Next]_vars /\ Walk => SourcesInv'
  <1> SUFFICES ASSUME IInv, [Next]_vars, Walk PROVE SourcesInv'
    OBVIOUS
  <1>1. /\ pc = "start" /\ input' = input /\ left' = input.used
        /\ visible' = {f \in Fields : ~Skipped(f)}
        /\ val' = IF Version \in visible' THEN [val EXCEPT ![Version] = Build] ELSE val
    BY DEF Walk
  <1>2. Done' = {}
    BY <1>1 DEF Done
  <1>3. ASSUME NEW f \in visible' PROVE val'[f] = Default(f)'
    <2>1. f \in Fields \ input.filled
      BY <1>1 DEF Skipped
    <2>2. val[f] = Zero
      BY <1>1, <2>1 DEF IInv, StartInv
    <2> QED BY <1>1, <2>1, <2>2 DEF IInv, TypeOK, Default
  <1>4. \A f \in visible' : Best(f)'
    BY <1>2, <1>3 DEF Best
  <1>5. visible' = {f \in Fields : ~Skipped(f)}'
    BY <1>1, InputStays
  <1> QED BY <1>1, <1>2, <1>4, <1>5 DEF SourcesInv

\* While sources are processed every field holds the best value so far.
LEMMA SourcesStep == IInv /\ [Next]_vars => SourcesInv'
  <1> SUFFICES ASSUME IInv, [Next]_vars, pc' = "sources" PROVE SourcesInv'
    BY DEF SourcesInv
  <1>1. CASE NotAStruct \/ Validate \/ FlagsClash
    BY <1>1, OutcomeEnds DEF NotAStruct, Validate, FlagsClash, IInv, TypeOK
  <1>2. CASE Walk
    BY <1>2, WalkStep
  <1>3. ASSUME NEW s \in Sources, s # "flags", Fills(s) PROVE SourcesInv'
    BY <1>3, BestStep DEF Fills
  <1>4. CASE ProcessFlags \/ FlagsFail
    BY <1>4, BestStep, CfgxAssumption DEF ProcessFlags, FlagsFail
  <1>5. CASE UNCHANGED vars
    <2>1. \A f : Best(f)' = Best(f)
      BY <1>5, EffectStays DEF Best, Done, Default, vars
    <2>2. {f \in Fields : ~Skipped(f)}' = {f \in Fields : ~Skipped(f)}
      BY InputStays
    <2> QED BY <1>5, <2>1, <2>2 DEF IInv, SourcesInv, Done, vars
  <1> QED BY <1>1, <1>2, <1>3, <1>4, <1>5, CfgxAssumption
          DEF Next, ProcessTags, ProcessEnv, ProcessFiles

\* Parse succeeds after it looked at every field of structMap.
LEMMA OkStep == IInv /\ [Next]_vars => OkInv'
  <1> SUFFICES ASSUME IInv, [Next]_vars, pc' = "ok" PROVE OkInv'
    BY DEF OkInv
  <1>1. {f \in Fields : ~Skipped(f)}' = {f \in Fields : ~Skipped(f)}
    BY InputStays
  <1>2. CASE Validate
    <2>1. \A f \in visible : IsOptional(f) \/ val[f] # Zero
      BY <1>2, OutcomeEnds DEF Validate, IInv, TypeOK
    <2> QED BY <1>1, <1>2, <2>1 DEF Validate, IInv, SourcesInv, OkInv, IsOptional
  <1>3. CASE UNCHANGED vars
    BY <1>1, <1>3 DEF vars, IInv, OkInv, IsOptional
  <1>4. CASE Walk \/ NotAStruct \/ FlagsFail \/ FlagsClash \/ ProcessFlags \/ \E s : Fills(s)
    BY <1>4, OutcomeEnds DEF Walk, NotAStruct, FlagsFail, FlagsClash, ProcessFlags, Fills, Takes,
                             IInv, TypeOK
  <1> QED BY <1>2, <1>3, <1>4 DEF Next, ProcessTags, ProcessEnv, ProcessFiles

\* Nothing happens before the walk.
LEMMA StartStep == IInv /\ [Next]_vars => StartInv'
  <1> SUFFICES ASSUME IInv, [Next]_vars, pc' = "start" PROVE StartInv'
    BY DEF StartInv
  <1>1. CASE UNCHANGED vars
    BY <1>1 DEF vars, IInv, StartInv
  <1>2. CASE ~UNCHANGED vars
    BY <1>2, OutcomeEnds DEF Next, NotAStruct, Walk, ProcessTags, ProcessEnv, ProcessFiles, Fills,
       Takes, ProcessFlags, FlagsFail, FlagsClash, Validate, IInv, TypeOK
  <1> QED BY <1>1, <1>2

\* The invariant holds when Parse is called.
LEMMA InitInv == Init => IInv
  <1> SUFFICES ASSUME Init PROVE IInv
    OBVIOUS
  <1>1. input.filled \subseteq Fields
    BY InputFields DEF Init
  <1>2. TypeOK
    BY DEF Init, TypeOK, Values
  <1> QED BY <1>1, <1>2 DEF Init, IInv, FilledInv, StartInv, SourcesInv, OkInv

\* IInv is inductive.
THEOREM Inductive == Spec => []IInv
  <1>1. IInv /\ [Next]_vars => IInv'
    BY TypeStep, FilledStep, StartStep, SourcesStep, OkStep DEF IInv
  <1> QED BY <1>1, InitInv, PTL DEF Spec

\* The types of Parse's state.
THEOREM TypeCorrect == Spec => []TypeOK
  <1>1. IInv => TypeOK
    BY DEF IInv
  <1> QED BY <1>1, Inductive, PTL

\* What the code has a source write is what the documentation says, but for its exceptions.
LEMMA SaysEffect ==
  ASSUME NEW s \in Sources, NEW f \in Fields
  PROVE  Says(s, f) = Effect(s, f)
  <1> DEFINE o == input.offer[s][f]
  <1>1. CASE s = "flags"
    <2>1. CASE ~Heard
      BY <1>1, <2>1 DEF Says, Effect, Heard, FlagValues
    <2>2. CASE Heard /\ Kind[f] = "other"
      <3>1. FlagOffers(f) \subseteq {"absent"}
        BY <2>2 DEF Heard, FlagsParse, Registered
      <3>2. FlagValues(f) = {}
        BY <2>2, <3>1 DEF Heard, FlagOffers, FlagValues
      <3> QED BY <1>1, <2>2, <3>2 DEF Says, Effect, Gives, Heard
    <2>3. CASE Heard /\ Kind[f] # "other"
      <3>1. Gives(s, f) \ {Zero} = FlagValues(f)
        BY <1>1, <2>3 DEF Gives, Reads, FlagValues, Heard, Zero
      <3> QED BY <1>1, <2>3, <3>1 DEF Says, Effect, Heard
    <2> QED BY <2>1, <2>2, <2>3
  <1>2. CASE s # "flags"
    <2>1. s # None /\ Zero # None
      BY CfgxAssumption DEF Zero
    <2>2. Gives(s, f) = IF Kind[f] = "other" THEN {} ELSE Reads(o, s)
      BY <1>2 DEF Gives
    <2>3. CASE Kind[f] = "other"
      BY <1>2, <2>2, <2>3 DEF Says, Effect, Writes
    <2>4. CASE Kind[f] # "other" /\ o = "good"
      BY <1>2, <2>1, <2>2, <2>4 DEF Says, Effect, Writes, Reads
    <2>5. CASE Kind[f] # "other" /\ o = "zero"
      BY <1>2, <2>1, <2>2, <2>5 DEF Says, Effect, Writes, Reads
    <2>6. CASE Kind[f] # "other" /\ o = "bad"
      BY <1>2, <2>1, <2>2, <2>6 DEF Says, Effect, Writes, Reads, Unparsed
    <2>7. CASE Kind[f] # "other" /\ o \notin {"good", "zero", "bad"}
      BY <1>2, <2>1, <2>2, <2>7 DEF Says, Effect, Writes, Reads
    <2> QED BY <2>3, <2>4, <2>5, <2>6, <2>7
  <1> QED BY <1>1, <1>2

\* Each field holds what the source of the highest priority says, for any number
\* of sources and any priorities, equal ones too.
THEOREM PrecedenceHolds == Spec => []Precedence
  <1>1. IInv => Precedence
    <2> SUFFICES ASSUME IInv, pc = "sources", left = {}, NEW f \in visible
                 PROVE  HighestWins(f, [s \in Sources |-> Says(s, f)])
      BY DEF Precedence, Processed
    <2> DEFINE has == [s \in Sources |-> Says(s, f)]
               E   == {s \in input.used : has[s] # {}}
               Top == {s \in E : \A t \in E : Priority[t] <= Priority[s]}
    <2>1. Best(f) /\ Done = input.used /\ f \in Fields /\ input.used \subseteq Sources
      BY InputFields DEF IInv, SourcesInv, Done, TypeOK
    <2>2. \A s \in Done : has[s] = Effect(s, f)
      BY <2>1, SaysEffect
    <2>3. CASE \E s \in Done : /\ val[f] \in Effect(s, f)
                               /\ \A t \in Done : Effect(t, f) # {} => Priority[t] <= Priority[s]
      <3>1. PICK s \in Done : /\ val[f] \in Effect(s, f)
                              /\ \A t \in Done : Effect(t, f) # {} => Priority[t] <= Priority[s]
        BY <2>3
      <3>2. s \in Top /\ val[f] \in has[s]
        BY <2>1, <2>2, <3>1
      <3> QED BY <3>2 DEF HighestWins
    <2>4. CASE val[f] = Default(f) /\ \A s \in Done : Effect(s, f) = {}
      <3>1. E = {}
        BY <2>1, <2>2, <2>4
      <3> QED BY <2>4, <3>1 DEF HighestWins, Default
    <2> QED BY <2>1, <2>3, <2>4 DEF Best
  <1> QED BY <1>1, Inductive, PTL

\* What the caller filled is not touched, nor the struct he filled a part of.
THEOREM FilledKept == Spec => FilledStays
  <1>1. IInv /\ [Next]_vars =>
          \A f \in Fields : f \in input.filled \/ (\E st \in Within[f] : Partly(st)) =>
            val'[f] = val[f]
    BY SkippedStays DEF Skipped
  <1> QED BY <1>1, Inductive, PTL DEF Spec, FilledStays

\* Parse succeeds only with a value in every required field it looks at.
THEOREM RequiredSet == Spec => []RequiredIsSet
  <1>1. IInv => RequiredIsSet
    <2> SUFFICES ASSUME IInv, pc = "ok", NEW f \in Fields, Optional[f] \in {"absent", "false"},
                        ~(\E st \in Within[f] : Partly(st))
                 PROVE  val[f] # Zero
      BY DEF RequiredIsSet
    <2>1. CASE f \in input.filled
      BY <2>1 DEF IInv, FilledInv, Given, Zero
    <2>2. CASE f \notin input.filled
      BY <2>2 DEF IInv, OkInv, Skipped, IsOptional
    <2> QED BY <2>1, <2>2
  <1> QED BY <1>1, Inductive, PTL
=============================================================================
