---------------------------- MODULE SymbolIndex ----------------------------
(***************************************************************************)
(* ReferenceIndex of src/rules/symbols/graph.rs: which names of which      *)
(* modules are referenced, and whether from another module. The modules    *)
(* read are dealt to workers, each with an index and a cache of star       *)
(* walks of its own; the indexes are then united. A worker shares nothing  *)
(* while it reads a module, so modules are read one at a time, by any of   *)
(* the workers; that they are handed out once is ParallelFold's part.      *)
(*                                                                         *)
(* The code record also has:                                               *)
(*   uses      the references of each file in the order it makes them, as  *)
(*             (module, name): from-imports and attributes of modules.     *)
(***************************************************************************)
EXTENDS StarImports, Sequences, FiniteSets

CONSTANTS
    Workers,    \* the threads of the fold
    NoModule    \* no module is being read

ASSUME NoModuleAssumption == NoModule \notin Files

Symbols == Files \X Names

IsReferences(uses) == uses \in [Files -> Seq(Symbols)]

VARIABLES
    todo,       \* the files that are left, in order, others among them
    worker,     \* the worker reading `module`
    module,     \* the file being read, or NoModule
    at,         \* the reference of `module` being recorded
    caches,     \* StarCache of each worker: the symbols walked for
    partials,   \* the index of each worker
    united      \* the united index

indexing == <<todo, worker, module, at, caches, partials, united>>

(* An entry is absent, true when some other module makes the reference,    *)
(* and false when only the module itself does.                             *)
Marks == {"absent", "own", "external"}

Unmarked == [s \in Symbols |-> "absent"]

IndexTypeOK ==
    /\ StarTypeOK
    /\ todo \in Seq(Files)
    /\ worker \in Workers
    /\ module \in Files \cup {NoModule}
    /\ at \in Nat \ {0}
    /\ caches \in [Workers -> SUBSET (Symbols \X SUBSET Files)]
    /\ partials \in [Workers -> [Symbols -> Marks]]
    /\ united \in [Symbols -> Marks]

(* An index is built afresh from the files of a sequence.                  *)
Fresh(files) ==
    /\ todo = files
    /\ worker \in Workers
    /\ module = NoModule
    /\ at = 1
    /\ caches = [w \in Workers |-> {}]
    /\ partials = [w \in Workers |-> Unmarked]
    /\ united = Unmarked

-----------------------------------------------------------------------------
ModuleRead == IF module = NoModule THEN TRUE ELSE at > Len(code.uses[module])

(* The next file that is one of those the index is built from.             *)
Take(w) ==
    /\ ModuleRead
    /\ \E i \in DOMAIN todo :
          /\ todo[i] \in read /\ \A j \in 1 .. i - 1 : todo[j] \notin read
          /\ module' = todo[i]
          /\ todo' = SubSeq(todo, i + 1, Len(todo))
    /\ worker' = w
    /\ at' = 1
    /\ UNCHANGED <<code, read, walking, caches, partials, united>>

Reading == ~ModuleRead

Reference == code.uses[module][at]

(* ReferenceIndex::mark: a mark only ever turns external.                  *)
Marked(entries, importer, targets) ==
    [s \in Symbols |->
        IF s \notin targets \/ (importer = s[1] /\ entries[s] # "absent") THEN entries[s]
        ELSE IF importer = s[1] THEN "own" ELSE "external"]

(* ReferenceIndex::record, with the modules the name comes from.           *)
Record(sources) ==
    LET name == Reference[2]
    IN  /\ partials' = [partials EXCEPT ![worker] =
              Marked(@, module, {Reference} \cup (sources \X {name}))]
        /\ at' = at + 1
        /\ UNCHANGED <<todo, worker, module, united>>

(* The sources of a symbol are walked for once by each worker.             *)
RecordCached ==
    /\ Reading
    /\ walk = "idle"
    /\ \E entry \in caches[worker] : entry[1] = Reference /\ Record(entry[2])
    /\ UNCHANGED <<code, read, walking, caches>>

AskSources ==
    /\ Reading
    /\ \A entry \in caches[worker] : entry[1] # Reference
    /\ Ask(Reference[1], Reference[2])
    /\ UNCHANGED indexing

RecordAnswer ==
    /\ Reading
    /\ Resume
    /\ Record(answer)
    /\ caches' = [caches EXCEPT ![worker] =
          IF Targets(goal) = {} THEN @ ELSE @ \cup {<<Reference, answer>>}]

AllRead == ModuleRead /\ \A i \in DOMAIN todo : todo[i] \notin read

(* Mutant: a later worker's entry replaces the one merged so far.          *)
UnitedLast(w, entries) ==
    [s \in Symbols |-> IF partials[w][s] # "absent" THEN partials[w][s] ELSE entries[s]]

(* One partial index united with the ones before: marks are or-ed.         *)
United(w, entries) ==
    [s \in Symbols |->
        IF "external" \in {partials[w][s], entries[s]} THEN "external"
        ELSE IF "own" \in {partials[w][s], entries[s]} THEN "own"
        ELSE "absent"]

(* ReferenceIndex::merge starts from the largest index; whichever worker   *)
(* that is, all are united.                                                *)
Merge(w) ==
    /\ AllRead
    /\ partials[w] # Unmarked
    /\ united' = United(w, united)
    /\ partials' = [partials EXCEPT ![w] = Unmarked]
    /\ UNCHANGED <<code, read, walking, todo, worker, module, at, caches>>

Built == AllRead /\ \A w \in Workers : partials[w] = Unmarked

IndexNext ==
    \/ \E w \in Workers : Take(w) \/ Merge(w)
    \/ RecordCached \/ AskSources \/ RecordAnswer
    \/ Walk /\ UNCHANGED indexing

-----------------------------------------------------------------------------
(* Star-imported modules that were not read: they may bind any name, so    *)
(* they are asked about when a symbol is looked up.                        *)
Opaque == {m \in Files \ Parsed : Parents(m) # {}}

(* StarChain::reaches: the modules met on the way up from m, which passes  *)
(* through those that hand the name on; with `shadow` a module that        *)
(* defines the name itself is passed by.                                   *)
Met(m, name, shadow) ==
    LET Passed(h, p) == /\ h \in Targets(p)
                        /\ shadow => ~Shadows(p, name)
        hands[n \in 0..Cardinality(Files)] ==
            IF n = 0 THEN {h \in {m} : HandsOn(h, name)}
            ELSE hands[n - 1] \cup
                 {p \in Files : /\ \E h \in hands[n - 1] : Passed(h, p)
                                /\ HandsOn(p, name)}
    IN  {p \in Files : \E h \in hands[Cardinality(Files)] : Passed(h, p)}

(* ReferenceIndex::lookup, through OpaqueStars::reaches_referenced.        *)
Lookup(s) ==
    IF united[s] # "external" /\ s[1] \in Opaque
       /\ \E p \in Met(s[1], s[2], TRUE) : united[<<p, s[2]>>] # "absent"
    THEN "external"
    ELSE united[s]

-----------------------------------------------------------------------------
(* Whether m makes a reference that uses the symbol s: one to s itself, or *)
(* to a module that gets the name from the module of s.                    *)
MayBind(s) == s[1] \in Parsed => s[2] \in code.binds[s[1]]

Uses(m, s) ==
    \E i \in DOMAIN code.uses[m] :
        LET u == code.uses[m][i]
        IN  \/ u = s
            \/ u[2] = s[2] /\ MayBind(s) /\ Gets(u[1], s[1], s[2])

(* Whoever read which module and in whatever order the partial indexes are *)
(* united, a symbol counts as referenced from outside exactly if a module  *)
(* other than its own uses it, through any chain of star imports and also  *)
(* where its own module was not read, and as referenced at all exactly if  *)
(* some module does.                                                       *)
ReferencesExact ==
    Built =>
        \A s \in code.named \X Names :
            /\ Lookup(s) = "external" <=> \E m \in read \ {s[1]} : Uses(m, s)
            /\ Lookup(s) = "absent" <=> \A m \in read : ~Uses(m, s)
=============================================================================
