---------------------------- MODULE StarImports ----------------------------
(***************************************************************************)
(* Names that travel through `from m import *`: StarImports::sources of    *)
(* src/rules/symbols/graph.rs. A reference to a name of a package is also  *)
(* a use of the name in each module the package gets it from, and those    *)
(* are found in two walks: up from every module that binds the name, to    *)
(* the modules it climbs to, then down from the package through those.     *)
(*                                                                         *)
(* A file stands for its module. The code of a project is a record:        *)
(*   named     the files that have a dotted module name;                   *)
(*   stars     the modules each file star-imports;                         *)
(*   defines   the names each file defines outside TYPE_CHECKING;          *)
(*   binds     the names each file binds by definition or from-import;     *)
(*   all       what the parser read of `__all__`: whether it is "absent",  *)
(*             "known", "partial" or "unknown", and the names read.        *)
(* Names are public ones: only those are ever asked about.                 *)
(***************************************************************************)
EXTENDS Integers, ProjectFiles

CONSTANTS
    Names,      \* the public names modules define and import
    Codes       \* the code the walks are run on

All == [state : {"absent", "known", "partial", "unknown"}, names : SUBSET Names]

IsCode(code) ==
    /\ code.named \subseteq Files
    /\ code.stars \in [Files -> SUBSET Files]
    /\ code.defines \in [Files -> SUBSET Names]
    /\ code.binds \in [Files -> SUBSET Names]
    /\ code.all \in [Files -> All]

ASSUME CodesAssumption == \A code \in Codes : IsCode(code)

VARIABLES
    code,       \* the input, never written
    read,       \* the files the index is built from
    goal,       \* target.module of the reference asked about
    symbol,     \* target.name
    walk,       \* "idle", "up", "down" or "answered"
    climbed,    \* the modules the name climbs to, binders included
    open,       \* the queue of the walk under way
    arrives,    \* whether the name climbs to the goal
    carried,    \* the modules the walk down found
    expanded,   \* the modules the walk down has queued
    answer      \* the binders whose binding reaches the goal

walking == <<goal, symbol, walk, climbed, open, arrives, carried, expanded, answer>>

StarTypeOK ==
    /\ IsCode(code)
    /\ read \subseteq Files
    /\ goal \in Files
    /\ symbol \in Names
    /\ walk \in {"idle", "up", "down", "answered"}
    /\ climbed \subseteq Files
    /\ open \subseteq Files
    /\ arrives \in BOOLEAN
    /\ carried \subseteq Files
    /\ expanded \subseteq Files
    /\ answer \subseteq Files

-----------------------------------------------------------------------------
(* StarChain: the star imports of the files that were read and have a name. *)
Parsed == read \cap code.named

Targets(m) == IF m \in Parsed THEN code.stars[m] \ {m} ELSE {}

Parents(m) == {p \in Files : m \in Targets(p)}

(* Exports::may_hand_on; a module that was not read counts as having no    *)
(* `__all__`.                                                              *)
HandsOn(m, name) ==
    (m \in Parsed /\ code.all[m].state = "known" /\ code.all[m].names # {})
        => name \in code.all[m].names

(* A star-importing module that defines the name itself.                   *)
Shadows(m, name) == Targets(m) # {} /\ name \in code.defines[m]

(* The star-imported modules among those read that bind the name.          *)
Binders(name) == {m \in Parsed : Parents(m) # {} /\ name \in code.binds[m]}

(* One step of the name up a star import, from m to the module p.          *)
Carries(m, p, name) ==
    m \in Targets(p) /\ HandsOn(m, name) /\ ~Shadows(p, name)

-----------------------------------------------------------------------------
AskedNothing ==
    /\ walk = "idle"
    /\ goal \in Files
    /\ symbol \in Names
    /\ climbed = {} /\ open = {} /\ carried = {} /\ expanded = {} /\ answer = {}
    /\ arrives = FALSE

StarInit ==
    /\ code \in Codes
    /\ read \in SUBSET Files
    /\ AskedNothing

(* A module without star imports gets no name from elsewhere.              *)
Ask(target, name) ==
    /\ walk = "idle"
    /\ goal' = target
    /\ symbol' = name
    /\ walk' = IF Targets(target) = {} THEN "answered" ELSE "up"
    /\ climbed' = {b \in Binders(name) : HandsOn(b, name)}
    /\ open' = climbed'
    /\ arrives' = FALSE
    /\ carried' = {}
    /\ expanded' = {}
    /\ answer' = {}
    /\ UNCHANGED <<code, read>>

(* Modules that shadow the name are passed by; the goal ends a climb; any  *)
(* other module is climbed to if it hands the name on.                     *)
ClimbUp ==
    /\ walk = "up"
    /\ \E m \in open :
          LET above == {p \in Parents(m) : ~Shadows(p, symbol)}
              new == {p \in above \ {goal} : HandsOn(p, symbol)} \ climbed
          IN  /\ arrives' = (arrives \/ goal \in above)
              /\ climbed' = climbed \cup new
              /\ open' = (open \ {m}) \cup new
    /\ UNCHANGED <<code, read, goal, symbol, walk, carried, expanded, answer>>

Turn ==
    /\ walk = "up"
    /\ open = {}
    /\ IF arrives
       THEN walk' = "down" /\ open' = {goal} /\ expanded' = {goal}
       ELSE walk' = "answered" /\ UNCHANGED <<open, expanded>>
    /\ UNCHANGED <<code, read, goal, symbol, climbed, arrives, carried, answer>>

(* Mutant: a module on the way down is not asked whether it shadows.       *)
ClimbDownThrough ==
    /\ walk = "down"
    /\ \E m \in open :
          LET below == Targets(m) \cap climbed
          IN  /\ carried' = carried \cup below
              /\ expanded' = expanded \cup below
              /\ open' = (open \ {m}) \cup (below \ expanded)
    /\ UNCHANGED <<code, read, goal, symbol, walk, climbed, arrives, answer>>

ClimbDown ==
    /\ walk = "down"
    /\ \E m \in open :
          LET below == IF Shadows(m, symbol) THEN {} ELSE Targets(m) \cap climbed
          IN  /\ carried' = carried \cup below
              /\ expanded' = expanded \cup below
              /\ open' = (open \ {m}) \cup (below \ expanded)
    /\ UNCHANGED <<code, read, goal, symbol, walk, climbed, arrives, answer>>

Answer ==
    /\ walk = "down"
    /\ open = {}
    /\ answer' = Binders(symbol) \cap carried
    /\ walk' = "answered"
    /\ UNCHANGED <<code, read, goal, symbol, climbed, open, arrives, carried, expanded>>

(* The caller has marked the answer and may ask again.                     *)
Resume ==
    /\ walk = "answered"
    /\ walk' = "idle"
    /\ UNCHANGED <<code, read, goal, symbol, climbed, open, arrives, carried,
                   expanded, answer>>

Walk == ClimbUp \/ Turn \/ ClimbDown \/ Answer

StarNext ==
    \/ \E target \in Files, name \in Names : Ask(target, name)
    \/ Walk
    \/ Resume

StarSpec == StarInit /\ [][StarNext]_<<code, read, walking>>

-----------------------------------------------------------------------------
(* A module m's binding reaches a module g when g is in every set that     *)
(* holds the modules m carries the name to and is closed under carrying:   *)
(* there is a chain of star imports from m to g, of one or more steps.     *)
ClosedUnder(S, name) ==
    \A m \in S : \A p \in Files : Carries(m, p, name) => p \in S

Gets(g, m, name) ==
    \A S \in SUBSET Files :
        /\ \A p \in Files : Carries(m, p, name) => p \in S
        /\ ClosedUnder(S, name)
        => g \in S

(* The two walks find exactly the binders from which some chain of star    *)
(* imports carries the name to the goal: none is lost because the walk up  *)
(* stops at the goal or the walk down keeps to what was climbed, and none  *)
(* is added past a module that shadows the name or does not hand it on.    *)
SourcesExact ==
    walk = "answered" =>
        answer = {b \in Binders(symbol) : Gets(goal, b, symbol)}
=============================================================================
