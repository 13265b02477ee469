------------------------- MODULE OperatorRules_proofs -------------------------
(***************************************************************************)
(* The merge of the operator's rules decides by content and not by order,  *)
(* for any ConfigMaps, edited at any time and read in any order.           *)
(***************************************************************************)
EXTENDS OperatorRules, TLAPS

allVars == <<maps, memory>>

\* The ConfigMaps this process has merged already.
Done == Sources \ todo

\* Inductive invariant of the merge: what has been merged is exactly what the
\* ConfigMaps read so far say, and these are sound together.
RulesInv ==
  boot = "merge" =>
    merged.rules = UNION {RulesOf(listed[s]) : s \in Done}

CommonInv ==
  boot = "merge" =>
    /\ \A s \in Done : CommonOf(listed[s]) # None => merged.common = CommonOf(listed[s])
    /\ merged.common # None => \E s \in Done : CommonOf(listed[s]) = merged.common

ApartInv ==
  boot = "merge" =>
    /\ \A s \in Done : listed[s] # Malformed
    /\ \A s, t \in Done : s # t =>
         /\ Names(RulesOf(listed[s])) \cap Names(RulesOf(listed[t])) = {}
         /\ CommonOf(listed[s]) = None \/ CommonOf(listed[t]) = None

Inv == RulesTypeOK /\ RulesInv /\ CommonInv /\ ApartInv /\ MergeDecides

-----------------------------------------------------------------------------
\* What a ConfigMap says is of the right kind, and one value for each name.
LEMMA ContentsTyped ==
  ASSUME NEW c \in Contents
  PROVE  /\ c \in Part \/ c = NoRule \/ c = Malformed
         /\ RulesOf(c) \in Rules /\ Functional(RulesOf(c))
         /\ CommonOf(c) \in Commons \cup {None}
<1>1. c \in Part \/ c = NoRule \/ c = Malformed
  BY ContentsAssumption
<1>2. CASE c \in Part
  <2>1. Functional(c.rules)
    BY <1>2, ContentsAssumption
  <2>2. QED
    BY <1>1, <1>2, <2>1 DEF RulesOf, CommonOf, Part
<1>3. CASE c \notin Part
  BY <1>1, <1>3 DEF RulesOf, CommonOf, Rules, Functional
<1>4. QED
  BY <1>2, <1>3

\* The types of every step: each variable is assigned by one or two actions.
LEMMA InitTyped == RulesInit => RulesTypeOK
<1>1. NoRule \in Contents /\ Defaults \in Commons
  BY ContentsAssumption, CommonAssumption
<1>2. QED
  BY <1>1 DEF RulesInit, RulesTypeOK, Nothing, Empty, Part, Rules

LEMMA StepTyped == RulesTypeOK /\ [RulesNext]_allVars => RulesTypeOK'
<1> SUFFICES ASSUME RulesTypeOK, [RulesNext]_allVars
             PROVE  RulesTypeOK'
  OBVIOUS
<1> USE DEF RulesTypeOK
<1>a. NoRule \in Contents /\ Defaults \in Commons /\ Empty \in Part /\ {} \in Rules
  BY ContentsAssumption, CommonAssumption DEF Empty, Part, Rules
<1>b. Nothing \in [Sources -> Contents]
  BY <1>a DEF Nothing
<1>1. CASE List
  BY <1>1, <1>a DEF List, NewProcess
<1>2. CASE Register
  <2>1. merged.rules \in Rules /\ merged.common \in Commons \cup {None}
    BY DEF Part
  <2>2. QED
    BY <1>2, <1>a, <2>1 DEF Register, Active
<1>3. CASE Panic
  BY <1>3 DEF Panic
<1>4. CASE LoadConfig
  BY <1>4 DEF LoadConfig
<1>5. ASSUME NEW s \in Sources, SkipSource(s) PROVE RulesTypeOK'
  BY <1>5 DEF SkipSource
<1>6. ASSUME NEW s \in Sources, MergeSource(s) PROVE RulesTypeOK'
  <2>1. merged' \in Part
    BY <1>6 DEF MergeSource, Part, Rules
  <2>2. QED
    BY <1>6, <2>1 DEF MergeSource
<1>7. ASSUME NEW s \in Sources, RejectSource(s) PROVE RulesTypeOK'
  BY <1>7 DEF RejectSource
<1>8. ASSUME NEW s \in Sources, NEW c \in Contents, EditSource(s, c) PROVE RulesTypeOK'
  BY <1>8 DEF EditSource, memory
<1>9. CASE Die
  BY <1>9, <1>a, <1>b DEF Die, NewProcess
<1>10. CASE UNCHANGED allVars
  BY <1>10 DEF allVars, memory
<1>11. QED
  BY <1>1, <1>2, <1>3, <1>4, <1>5, <1>6, <1>7, <1>8, <1>9, <1>10
     DEF RulesNext, Load, Edit

-----------------------------------------------------------------------------
\* A name or a section that is merged twice was said twice: the conflict of one
\* ConfigMap with what was merged is one of the ConfigMaps themselves.
LEMMA ConflictIsReal ==
  ASSUME Inv, boot = "merge", NEW s \in todo, listed[s] \in Part, Conflicts(listed[s])
  PROVE  ~Sound(listed)
<1>1. s \in Sources /\ s \notin Done
  BY DEF Inv, RulesTypeOK, Done
<1>2. RulesOf(listed[s]) = listed[s].rules /\ CommonOf(listed[s]) = listed[s].common
  BY DEF RulesOf, CommonOf
<1>3. CASE Names(listed[s].rules) \cap Names(merged.rules) # {}
  <2>1. PICK r \in listed[s].rules, q \in merged.rules : r[1] = q[1]
    BY <1>3 DEF Names
  <2>2. PICK t \in Done : q \in RulesOf(listed[t])
    BY <2>1 DEF Inv, RulesInv
  <2>3. Names(RulesOf(listed[s])) \cap Names(RulesOf(listed[t])) # {}
    BY <1>2, <2>1, <2>2 DEF Names
  <2>4. QED
    BY <1>1, <2>2, <2>3 DEF Sound, Done
<1>4. CASE listed[s].common # None /\ merged.common # None
  <2>1. PICK t \in Done : CommonOf(listed[t]) = merged.common
    BY <1>4 DEF Inv, CommonInv
  <2>2. QED
    BY <1>1, <1>2, <1>4, <2>1 DEF Sound, Done
<1>5. QED
  BY <1>3, <1>4 DEF Conflicts

\* When all are merged without a conflict, and no rule is nameless, they are sound.
LEMMA MergedIsSound ==
  ASSUME Inv, boot = "merge", todo = {}, EmptyName \notin Names(merged.rules)
  PROVE  /\ Sound(listed)
         /\ merged.rules = Union(listed) /\ Functional(merged.rules)
         /\ Commonly(listed) = {Active(merged.common)}
<1>1. Done = Sources
  BY DEF Done
<1>2. merged.rules = Union(listed)
  BY <1>1 DEF Inv, RulesInv, Union
<1>3. \A s \in Sources : EmptyName \notin Names(RulesOf(listed[s]))
  BY <1>2 DEF Names, Union
<1>4. Sound(listed)
  BY <1>1, <1>3 DEF Inv, ApartInv, Sound
<1>5. Functional(merged.rules)
  <2> SUFFICES ASSUME NEW r \in merged.rules, NEW q \in merged.rules, r[1] = q[1]
               PROVE  r = q
    BY DEF Functional
  <2>1. PICK s \in Sources : r \in RulesOf(listed[s])
    BY <1>2 DEF Union
  <2>2. PICK t \in Sources : q \in RulesOf(listed[t])
    BY <1>2 DEF Union
  <2>3. s = t
    BY <1>4, <2>1, <2>2 DEF Sound, Names
  <2>4. listed[s] \in Contents
    BY DEF Inv, RulesTypeOK
  <2>5. Functional(RulesOf(listed[s]))
    BY <2>4, ContentsTyped
  <2>6. QED
    BY <2>1, <2>2, <2>3, <2>5 DEF Functional
<1>6. Commonly(listed) = {Active(merged.common)}
  <2> DEFINE said == {CommonOf(listed[s]) : s \in Sources} \ {None}
  <2>1. CASE merged.common = None
    <3>1. said = {}
      BY <1>1, <2>1 DEF Inv, CommonInv
    <3>2. QED
      BY <2>1, <3>1 DEF Commonly, Active
  <2>2. CASE merged.common # None
    <3>1. said = {merged.common}
      BY <1>1, <2>2 DEF Inv, CommonInv
    <3>2. QED
      BY <2>2, <3>1 DEF Commonly, Active
  <2>3. QED
    BY <2>1, <2>2
<1>7. QED
  BY <1>2, <1>4, <1>5, <1>6

-----------------------------------------------------------------------------
\* A ConfigMap without rules leaves the merge as it is.
LEMMA SkipInv ==
  ASSUME Inv, NEW s \in Sources, SkipSource(s), RulesTypeOK'
  PROVE  Inv'
<1>1. Done' = Done \cup {s}
  BY DEF SkipSource, Done
<1>2. RulesOf(listed[s]) = {} /\ CommonOf(listed[s]) = None /\ listed[s] # Malformed
  BY ContentsAssumption DEF SkipSource, RulesOf, CommonOf
<1>3. listed' = listed /\ merged' = merged /\ boot = "merge" /\ boot' = "merge"
  BY DEF SkipSource
<1>4. RulesInv'
  BY <1>1, <1>2, <1>3 DEF Inv, RulesInv
<1>5. CommonInv'
  BY <1>1, <1>2, <1>3 DEF Inv, CommonInv
<1>6. ApartInv'
  <2>1. Names(RulesOf(listed[s])) = {}
    BY <1>2 DEF Names
  <2>2. QED
    BY <1>1, <1>2, <1>3, <2>1 DEF Inv, ApartInv
<1>7. MergeDecides'
  BY <1>3 DEF MergeDecides
<1>8. QED
  BY <1>4, <1>5, <1>6, <1>7 DEF Inv

\* A ConfigMap without a conflict is apart from all those before it.
LEMMA MergeInv ==
  ASSUME Inv, NEW s \in Sources, MergeSource(s), RulesTypeOK'
  PROVE  Inv'
<1>1. Done' = Done \cup {s} /\ s \notin Done
  BY DEF MergeSource, Done
<1>2. RulesOf(listed[s]) = listed[s].rules /\ CommonOf(listed[s]) = listed[s].common
  BY DEF MergeSource, RulesOf, CommonOf
<1>3. /\ listed' = listed /\ boot = "merge" /\ boot' = "merge"
      /\ merged'.rules = merged.rules \cup listed[s].rules
      /\ merged'.common = IF listed[s].common # None THEN listed[s].common
                          ELSE merged.common
  BY DEF MergeSource
<1>4. /\ Names(listed[s].rules) \cap Names(merged.rules) = {}
      /\ listed[s].common = None \/ merged.common = None
  BY DEF MergeSource, Conflicts
<1>5. RulesInv'
  BY <1>1, <1>2, <1>3 DEF Inv, RulesInv
<1>6. CommonInv'
  BY <1>1, <1>2, <1>3, <1>4 DEF Inv, CommonInv
<1>7. ApartInv'
  <2>1. \A t \in Done : Names(RulesOf(listed[t])) \subseteq Names(merged.rules)
    BY <1>3 DEF Inv, RulesInv, Names
  <2>2. \A t \in Done : CommonOf(listed[t]) # None => merged.common # None
    BY <1>3 DEF Inv, CommonInv
  <2>3. listed[s] # Malformed
    BY ContentsAssumption DEF MergeSource
  <2>4. QED
    BY <1>1, <1>2, <1>3, <1>4, <2>1, <2>2, <2>3 DEF Inv, ApartInv
<1>8. MergeDecides'
  BY <1>3 DEF MergeDecides
<1>9. QED
  BY <1>5, <1>6, <1>7, <1>8 DEF Inv

\* What does not move the merge, nor what the process knows.
LEMMA UntouchedInv ==
  ASSUME Inv, UNCHANGED memory, RulesTypeOK'
  PROVE  Inv'
<1>1. /\ boot' = boot /\ listed' = listed /\ todo' = todo /\ merged' = merged
      /\ registry' = registry /\ common' = common
  BY DEF memory
<1>2. RulesInv' /\ CommonInv' /\ ApartInv'
  BY <1>1 DEF Inv, RulesInv, CommonInv, ApartInv, Done
<1>3. MergeDecides'
  BY <1>1 DEF Inv, MergeDecides
<1>4. QED
  BY <1>2, <1>3 DEF Inv

LEMMA StepInv == Inv /\ [RulesNext]_allVars => Inv'
<1> SUFFICES ASSUME Inv, [RulesNext]_allVars
             PROVE  Inv'
  OBVIOUS
<1>t. RulesTypeOK'
  BY StepTyped DEF Inv
<1>1. CASE List
  <2>1. /\ boot' = "merge" /\ todo' = Sources
        /\ merged' = [rules |-> {}, common |-> None]
    BY <1>1 DEF List, NewProcess, Empty
  <2>2. Done' = {}
    BY <2>1 DEF Done
  <2>3. RulesInv' /\ CommonInv' /\ ApartInv'
    BY <2>1, <2>2 DEF RulesInv, CommonInv, ApartInv
  <2>4. MergeDecides'
    BY <2>1 DEF MergeDecides
  <2>5. QED
    BY <1>t, <2>3, <2>4 DEF Inv
<1>2. CASE Register
  <2>1. /\ Sound(listed)
        /\ merged.rules = Union(listed) /\ Functional(merged.rules)
        /\ Commonly(listed) = {Active(merged.common)}
    BY <1>2, MergedIsSound DEF Register
  <2>2. /\ boot' = "config" /\ listed' = listed
        /\ registry' = merged.rules /\ common' = Active(merged.common)
    BY <1>2 DEF Register
  <2>3. MergeDecides'
    BY <2>1, <2>2 DEF MergeDecides
  <2>4. QED
    BY <1>t, <2>2, <2>3 DEF Inv, RulesInv, CommonInv, ApartInv
<1>3. CASE Panic
  <2>1. /\ boot = "merge" /\ todo = {} /\ EmptyName \in Names(merged.rules)
        /\ boot' = "failed" /\ listed' = listed
    BY <1>3 DEF Panic
  <2>2. merged.rules = UNION {RulesOf(listed[s]) : s \in Sources}
    BY <2>1 DEF Inv, RulesInv, Done
  <2>3. ~Sound(listed)
    BY <2>1, <2>2 DEF Sound, Names
  <2>4. MergeDecides'
    BY <2>1, <2>3 DEF MergeDecides
  <2>5. QED
    BY <1>t, <2>1, <2>4 DEF Inv, RulesInv, CommonInv, ApartInv
<1>4. CASE LoadConfig
  <2>1. /\ boot = "config" /\ boot' = "serving" /\ listed' = listed
        /\ registry' = registry /\ common' = common
    BY <1>4 DEF LoadConfig
  <2>2. MergeDecides'
    BY <2>1 DEF Inv, MergeDecides
  <2>3. QED
    BY <1>t, <2>1, <2>2 DEF Inv, RulesInv, CommonInv, ApartInv
<1>5. ASSUME NEW s \in Sources, SkipSource(s) PROVE Inv'
  BY <1>5, <1>t, SkipInv
<1>6. ASSUME NEW s \in Sources, MergeSource(s) PROVE Inv'
  BY <1>6, <1>t, MergeInv
<1>7. ASSUME NEW s \in Sources, RejectSource(s) PROVE Inv'
  <2>1. boot = "merge" /\ s \in todo /\ boot' = "failed" /\ listed' = listed
    BY <1>7 DEF RejectSource
  <2>2. ~Sound(listed)
    <3>1. CASE listed[s] = Malformed
      BY <3>1 DEF Sound
    <3>2. CASE listed[s] \in Part /\ Conflicts(listed[s])
      BY <2>1, <3>2, ConflictIsReal
    <3>3. QED
      BY <1>7, <3>1, <3>2 DEF RejectSource
  <2>3. MergeDecides'
    BY <2>1, <2>2 DEF MergeDecides
  <2>4. QED
    BY <1>t, <2>1, <2>3 DEF Inv, RulesInv, CommonInv, ApartInv
<1>8. ASSUME NEW s \in Sources, NEW c \in Contents, EditSource(s, c) PROVE Inv'
  BY <1>8, <1>t, UntouchedInv DEF EditSource
<1>9. CASE Die
  <2>1. boot' = "down"
    BY <1>9 DEF Die
  <2>2. QED
    BY <1>t, <2>1 DEF Inv, RulesInv, CommonInv, ApartInv, MergeDecides
<1>10. CASE UNCHANGED allVars
  BY <1>10, <1>t, UntouchedInv DEF allVars
<1>11. QED
  BY <1>1, <1>2, <1>3, <1>4, <1>5, <1>6, <1>7, <1>8, <1>9, <1>10
     DEF RulesNext, Load, Edit

-----------------------------------------------------------------------------
\* Every variable keeps its type, whatever the ConfigMaps hold (main.go:190-221).
THEOREM RulesTypeCorrect == RulesSpec => []RulesTypeOK
<1>1. RulesSpec => RulesInit /\ [][RulesNext]_allVars
  BY DEF RulesSpec, allVars
<1>2. QED
  BY <1>1, InitTyped, StepTyped, PTL

\* The invariant of the merge.
THEOREM InvCorrect == RulesSpec => []Inv
<1>1. RulesSpec => RulesInit /\ [][RulesNext]_allVars
  BY DEF RulesSpec, allVars
<1>2. RulesInit => Inv
  <2>1. RulesInit => boot = "down"
    BY DEF RulesInit
  <2>2. QED
    BY <2>1, InitTyped DEF Inv, RulesInv, CommonInv, ApartInv, MergeDecides
<1>3. QED
  BY <1>1, <1>2, StepInv, PTL

\* The merge fails only if the ConfigMaps contradict each other or hold a mistake,
\* and a process that serves has the rules of all of them, one for each name:
\* "mai una scelta silenziosa su quale vince" (rule_config_driven.go:132).
THEOREM Decides == RulesSpec => []MergeDecides
<1>1. Inv => MergeDecides
  BY DEF Inv
<1>2. QED
  BY <1>1, InvCorrect, PTL

=============================================================================
