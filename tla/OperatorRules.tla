---------------------------- MODULE OperatorRules ----------------------------
(***************************************************************************)
(* The start of the manager (cmd/main.go): the operator's rules are read   *)
(* from the ConfigMaps that carry a label, merged, and registered, before  *)
(* any controller runs (rule_from_configmap.go, operator_rules.go,         *)
(* common_config.go, operator_config.go).  A process that finds a mistake  *)
(* exits, and the kubelet starts it again.                                 *)
(*                                                                         *)
(* Users edit ConfigMaps at any time; nothing but a start reads them.  The *)
(* order in which they are listed, and the order of the rules of each, is  *)
(* not defined.                                                            *)
(***************************************************************************)
EXTENDS Integers

CONSTANTS
  Sources,    \* names of labelled ConfigMaps
  RuleNames,  \* names of rules
  EmptyName,  \* the empty string, as the name of a rule
  Handlers,   \* what a rule can say
  Commons,    \* what a "common" section can say
  Defaults,   \* defaultCommonMappings
  Contents,   \* what a ConfigMap can hold
  NoRule,     \* no ConfigMap, or one without the key rule.json
  Malformed,  \* rule.json is not JSON
  None        \* no "common" section

Rules == SUBSET (RuleNames \X Handlers)

Part == [rules : Rules, common : Commons \cup {None}]

\* JSON has one value for each name.
Functional(rules) == \A r, q \in rules : r[1] = q[1] => r = q

ASSUME ContentsAssumption ==
  /\ Contents \subseteq Part \cup {NoRule, Malformed}
  /\ \A c \in Contents \cap Part : Functional(c.rules)
  /\ NoRule \notin Part /\ Malformed \notin Part /\ NoRule # Malformed
  /\ NoRule \in Contents

ASSUME CommonAssumption == None \notin Commons /\ Defaults \in Commons

VARIABLES
  maps,      \* the ConfigMaps in the API server
  boot,      \* where the process is
  listed,    \* the ConfigMaps this process has listed
  todo,      \* those it has not merged yet
  merged,    \* mergeConfigMapRuleSources: merged
  registry,  \* operatorRuleRegistry
  common     \* activeCommonMappings

memory == <<boot, listed, todo, merged, registry, common>>

Nothing == [s \in Sources |-> NoRule]

RulesTypeOK ==
  /\ maps \in [Sources -> Contents]
  /\ boot \in {"down", "merge", "config", "serving", "failed"}
  /\ listed \in [Sources -> Contents]
  /\ todo \subseteq Sources
  /\ merged \in Part
  /\ registry \in Rules
  /\ common \in Commons

Empty == [rules |-> {}, common |-> None]

\* The package variables of a new process.
NewProcess == merged' = Empty /\ registry' = {} /\ common' = Defaults

RulesInit ==
  /\ maps \in [Sources -> Contents]
  /\ boot = "down"
  /\ listed = Nothing
  /\ todo = {}
  /\ merged = Empty
  /\ registry = {}
  /\ common = Defaults

----------------------------------------------------------------------------
EditSource(s, c) ==
  /\ maps' = [maps EXCEPT ![s] = c]
  /\ UNCHANGED memory

\* The kubelet starts the process, which lists the ConfigMaps once.
List ==
  /\ boot \in {"down", "failed"}
  /\ boot' = "merge"
  /\ listed' = maps
  /\ todo' = Sources
  /\ NewProcess
  /\ UNCHANGED maps

\* Mutant of Conflicts: the later ConfigMap replaces the rule of the earlier.
ConflictsInCommon(part) == part.common # None /\ merged.common # None

Names(rules) == {r[1] : r \in rules}

\* A rule, or the "common" section, has been read from another ConfigMap.
Conflicts(part) ==
  \/ Names(part.rules) \cap Names(merged.rules) # {}
  \/ part.common # None /\ merged.common # None

SkipSource(s) ==
  /\ boot = "merge" /\ s \in todo
  /\ listed[s] = NoRule
  /\ todo' = todo \ {s}
  /\ UNCHANGED <<maps, boot, listed, merged, registry, common>>

MergeSource(s) ==
  /\ boot = "merge" /\ s \in todo
  /\ listed[s] \in Part
  /\ ~Conflicts(listed[s])
  /\ todo' = todo \ {s}
  /\ merged' = [rules |-> merged.rules \cup listed[s].rules,
                common |-> IF listed[s].common # None THEN listed[s].common
                           ELSE merged.common]
  /\ UNCHANGED <<maps, boot, listed, registry, common>>

\* An error of the merge: the process exits.
RejectSource(s) ==
  /\ boot = "merge" /\ s \in todo
  /\ \/ listed[s] = Malformed
     \/ listed[s] \in Part /\ Conflicts(listed[s])
  /\ boot' = "failed"
  /\ UNCHANGED <<maps, listed, todo, merged, registry, common>>

\* Mutant of Active: an absent section leaves nothing to substitute.
ActiveOrNone(c) == c

\* SetCommonConfig: the defaults, if there is no section.
Active(c) == IF c = None THEN Defaults ELSE c

\* applyRulesFile; RegisterOperatorRule panics on an empty name.
Register ==
  /\ boot = "merge" /\ todo = {}
  /\ EmptyName \notin Names(merged.rules)
  /\ common' = Active(merged.common)
  /\ registry' = merged.rules
  /\ boot' = "config"
  /\ UNCHANGED <<maps, listed, todo, merged>>

Panic ==
  /\ boot = "merge" /\ todo = {}
  /\ EmptyName \in Names(merged.rules)
  /\ boot' = "failed"
  /\ UNCHANGED <<maps, listed, todo, merged, registry, common>>

\* LoadOperatorConfigFromFile, and the controllers start.
LoadConfig ==
  /\ boot = "config"
  /\ boot' = "serving"
  /\ UNCHANGED <<maps, listed, todo, merged, registry, common>>

\* The process ends: the list fails, the file of the configuration is missing,
\* or somebody stops it.
Die ==
  /\ boot # "down"
  /\ boot' = "down"
  /\ listed' = Nothing
  /\ todo' = {}
  /\ NewProcess
  /\ UNCHANGED maps

Load ==
  \/ List \/ Register \/ Panic \/ LoadConfig
  \/ \E s \in Sources : SkipSource(s) \/ MergeSource(s) \/ RejectSource(s)

Edit == \E s \in Sources, c \in Contents : EditSource(s, c)

RulesNext == Load \/ Edit \/ Die

RulesSpec == RulesInit /\ [][RulesNext]_<<maps, memory>>
----------------------------------------------------------------------------
RulesOf(c) == IF c \in Part THEN c.rules ELSE {}

CommonOf(c) == IF c \in Part THEN c.common ELSE None

\* No mistake among the ConfigMaps, whatever the order they are read in.
Sound(m) ==
  /\ \A s \in Sources : m[s] # Malformed /\ EmptyName \notin Names(RulesOf(m[s]))
  /\ \A s, t \in Sources : s # t =>
       /\ Names(RulesOf(m[s])) \cap Names(RulesOf(m[t])) = {}
       /\ CommonOf(m[s]) = None \/ CommonOf(m[t]) = None

\* What the sources say together.
Union(m) == UNION {RulesOf(m[s]) : s \in Sources}

Commonly(m) ==
  LET said == {CommonOf(m[s]) : s \in Sources} \ {None}
  IN  IF said = {} THEN {Defaults} ELSE said

\* The merge decides by what the ConfigMaps say and not by their order: it fails
\* only if they contradict each other or hold a mistake ("mai una scelta
\* silenziosa su quale vince", rule_config_driven.go:132), and a process that
\* serves does so with all the rules of all of them, one for each name, and
\* with the one "common" section there is.
MergeDecides ==
  /\ boot = "failed" => ~Sound(listed)
  /\ boot \in {"config", "serving"} =>
       /\ Sound(listed)
       /\ registry = Union(listed) /\ Functional(registry)
       /\ Commonly(listed) = {common}

=============================================================================
