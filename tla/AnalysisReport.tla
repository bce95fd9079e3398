--------------------------- MODULE AnalysisReport ---------------------------
(***************************************************************************)
(* The symbol report over the reached files: CHK006 (unused exports) and   *)
(* CHK007 (unused re-exports) of src/rules/symbols/analyze.rs. Once the    *)
(* reachability walk is done the references of the reached modules are     *)
(* indexed; under --production the tests that were held back, and the      *)
(* public modules only they import, are indexed as well and vouch for the  *)
(* names of a library's public modules.                                    *)
(*                                                                         *)
(* The code record also has:                                               *)
(*   order       the files in the order they were parsed in;               *)
(*   production  whether the run is given --production;                    *)
(*   tests       the files in test context, rooted those of them that a    *)
(*               default run has as entry roots;                           *)
(*   private     the files with a private part in their module name;       *)
(*   inits       the files that are a package's __init__.py;               *)
(*   library     the files in library mode, unshipped those of them that   *)
(*               the root's declared wheel leaves out, wheels the files a  *)
(*               declared wheel ships;                                     *)
(*   surface     the files whose symbols may be reported: no tests, no     *)
(*               local packages, no generated or scanned files;            *)
(*   inside      the names each file's own code reads;                     *)
(*   reexports   the names each file imports from its own package,         *)
(*               declared those of them in `__all__` or `as` themselves;   *)
(*   outside     the symbols named outside the code or by convention.      *)
(***************************************************************************)
EXTENDS ReachabilityBfs, SymbolIndex

CONSTANT CodesOf(_)     \* the code that each project may have

IsAnalysed(c) ==
    /\ IsCode(c) /\ IsReferences(c.uses)
    /\ c.order \in Seq(Files) /\ \A f \in Files : \E i \in DOMAIN c.order : c.order[i] = f
    /\ c.production \in BOOLEAN
    /\ c.rooted \subseteq c.tests /\ c.tests \subseteq Files
    /\ c.private \subseteq c.named /\ c.inits \subseteq c.named
    /\ c.unshipped \subseteq c.library /\ c.library \subseteq Files
    /\ c.wheels \subseteq Files \ c.unshipped
    /\ c.surface \subseteq Files \ c.tests
    /\ {c.inside, c.reexports, c.declared} \subseteq [Files -> SUBSET Names]
    /\ c.outside \subseteq Symbols
    /\ \A f \in Files : c.defines[f] \subseteq c.binds[f]

(* A file imports what it refers to: the modules it star-imports and those *)
(* it names symbols of are among those the walk follows it to.             *)
Imports(p, c) ==
    \A f, m \in Files :
        /\ m # f
        /\ m \in c.stars[f] \/ \E i \in DOMAIN c.uses[f] : c.uses[f][i][1] = m
        => \E i \in FollowedSites(p, f) : p.sites[f][i].to = m

ASSUME CodesOfAssumption ==
    \A p \in Projects : \A c \in CodesOf(p) : IsAnalysed(c) /\ Imports(p, c)

VARIABLES
    report,             \* how far the analysis has come
    references,         \* the index of the reached modules, as looked up
    seeking,            \* the queue of reached_from_tests
    found,              \* the unreached modules the tests reach
    testimony,          \* the index of what the tests vouch for
    unused_exports,     \* CHK006
    unused_reexports    \* CHK007

reporting == <<report, references, seeking, found, testimony, unused_exports,
               unused_reexports>>

symbols == <<read, walking, indexing>>

analysis == <<vars, code, symbols, reporting>>

Nothing == [s \in Symbols |-> "absent"]

AnalysisInit ==
    /\ Init
    /\ code \in CodesOf(project)
    /\ read = {}
    /\ AskedNothing
    /\ goal = code.order[1]
    /\ symbol = CHOOSE n \in Names : TRUE
    /\ Fresh(<<>>)
    /\ worker = CHOOSE w \in Workers : TRUE
    /\ report = "walk"
    /\ references = Nothing
    /\ seeking = {}
    /\ found = {}
    /\ testimony = Nothing
    /\ unused_exports = {}
    /\ unused_reexports = {}

-----------------------------------------------------------------------------
Reached == {f \in Files : class[f] # NotReached}

PublicModule(f) == f \in code.named \ code.private

WalkOn ==
    /\ report = "walk"
    /\ \/ SeedRoot \/ SeedPluginRef \/ SeedFramework
       \/ Skip \/ Follow \/ RecordImport \/ RecordUse \/ FileFollowed \/ NextLoop
    /\ UNCHANGED <<code, symbols, reporting>>

(* ReferenceIndex::build over some of the parsed modules. *)
Build(files) ==
    /\ read' = files
    /\ todo' = code.order
    /\ caches' = [w \in Workers |-> {}]
    /\ united' = Unmarked
    /\ module' = NoModule
    /\ UNCHANGED <<vars, code, walking, worker, at, partials>>

StartReferences ==
    /\ report = "walk"
    /\ Done
    /\ Build(Reached)
    /\ report' = "references"
    /\ UNCHANGED <<references, seeking, found, testimony, unused_exports, unused_reexports>>

IndexOn ==
    /\ report \in {"references", "testimony"}
    /\ IndexNext
    /\ UNCHANGED <<vars, reporting>>

LookedUp == [s \in Symbols |-> Lookup(s)]

(* reads_production_tests: only a public surface has names to vouch for. *)
ReadsTests == code.production /\ code.library # {}

ReferencesRead ==
    /\ report = "references"
    /\ Built
    /\ references' = LookedUp
    /\ IF ReadsTests
       THEN report' = "evidence" /\ seeking' = code.tests
       ELSE report' = "api" /\ UNCHANGED seeking
    /\ UNCHANGED <<vars, code, symbols, found, testimony, unused_exports,
                   unused_reexports>>

-----------------------------------------------------------------------------
(* imported_files: what import sites name, and not plugins or globs. *)
ImportedFiles(f) ==
    {project.sites[f][i].to : i \in {i \in DOMAIN project.sites[f] :
                                        project.sites[f][i].kind = "import"}}

(* reached_from_tests, one module popped at a time. *)
Seek ==
    /\ report = "evidence"
    /\ \E f \in seeking :
          LET new == ImportedFiles(f) \ (Reached \cup code.tests \cup found)
          IN  /\ found' = found \cup new
              /\ seeking' = (seeking \ {f}) \cup new
    /\ UNCHANGED <<vars, code, symbols, report, references, testimony, unused_exports,
                   unused_reexports>>

(* Mutant of Witnesses: every module left unreachable vouches, as before   *)
(* orphans were told apart from what tests reach.                          *)
WitnessesAll == code.tests \cup {f \in Files \ Reached : PublicModule(f)}

Witnesses == code.tests \cup {f \in found : PublicModule(f)}

StartTestimony ==
    /\ report = "evidence"
    /\ seeking = {}
    /\ Build(Witnesses)
    /\ report' = "testimony"
    /\ UNCHANGED <<references, seeking, found, testimony, unused_exports, unused_reexports>>

TestimonyRead ==
    /\ report = "testimony"
    /\ Built
    /\ testimony' = LookedUp
    /\ report' = "api"
    /\ UNCHANGED <<vars, code, symbols, references, seeking, found, unused_exports,
                   unused_reexports>>

-----------------------------------------------------------------------------
InAll(s) == s[2] \in code.all[s[1]].names

(* PublicApi::exports_symbol. *)
Exports(s, reaching, vouched) ==
    \/ InAll(s)
    \/ s[1] \in code.inits /\ PublicModule(s[1])
    \/ s \in reaching
    \/ PublicModule(s[1]) /\ s \in vouched

(* build_registry and detect_unused_exports, given the symbols referenced  *)
(* from other modules, those star imports put into a public module and     *)
(* those the tests vouch for.                                              *)
UnusedExports(files, external, reaching, vouched) ==
    {s \in (files \cap code.named) \X Names :
        /\ s[2] \in code.defines[s[1]]
        /\ s \notin code.outside \cup external
        /\ ~(InAll(s) /\ s[1] \in code.wheels)
        /\ IF s[1] \in code.library \ code.unshipped
           THEN s[2] \notin code.inside[s[1]] /\ ~Exports(s, reaching, vouched)
           ELSE s[2] \in code.inside[s[1]] => InAll(s)}

(* collect_reexports and detect_unused_reexports. *)
UnusedReexports(files, referenced) ==
    {s \in (files \cap code.inits) \X Names :
        LET declared == s[2] \in code.declared[s[1]]
        IN  /\ s[2] \in code.reexports[s[1]] \ code.inside[s[1]]
            /\ s \notin code.outside \cup referenced
            /\ ~(s[1] \in code.library /\ (declared \/ PublicModule(s[1])))
            /\ ~(declared /\ s[1] \in code.wheels)}

(* PublicApi::build: the modules whose symbols are reported have a chain   *)
(* of star imports of their own; shadowed or not, the names it puts into a *)
(* public module are exported.                                             *)
Surface == Reached \cap code.surface

Api == INSTANCE SymbolIndex WITH read <- Surface

StarReached ==
    {s \in Api!Parsed \X Names :
        /\ s[2] \in code.defines[s[1]]
        /\ \E p \in Api!Met(s[1], s[2], FALSE) : PublicModule(p)}

WithMark(marks, lookup) == {s \in Symbols : lookup[s] \in marks}

ReportSymbols ==
    /\ report = "api"
    /\ unused_exports' =
          UnusedExports(Surface, WithMark({"external"}, references), StarReached,
                        WithMark({"external"}, testimony))
    /\ unused_reexports' = UnusedReexports(Surface, WithMark({"own", "external"}, references))
    /\ report' = "reported"
    /\ UNCHANGED <<vars, code, symbols, references, seeking, found, testimony>>

Reported == report = "reported" /\ UNCHANGED analysis

AnalysisNext ==
    \/ WalkOn \/ StartReferences \/ IndexOn \/ ReferencesRead
    \/ Seek \/ StartTestimony \/ TestimonyRead \/ ReportSymbols \/ Reported

AnalysisSpec == AnalysisInit /\ [][AnalysisNext]_analysis /\ WF_analysis(AnalysisNext)

-----------------------------------------------------------------------------
(* What a run without --production reaches and reports on the same code,   *)
(* by definition: it has the rooted tests as further entry roots.          *)
DefaultReached ==
    {f \in Files : \A S \in SUBSET Files :
        /\ Reached \cup code.rooted \subseteq S
        /\ \A g \in S : \A i \in FollowedSites(project, g) : project.sites[g][i].to \in S
        => f \in S}

Default == INSTANCE SymbolIndex WITH read <- DefaultReached

DefaultApi == INSTANCE SymbolIndex WITH read <- DefaultReached \cap code.surface

DefaultStarReached ==
    {s \in DefaultApi!Parsed \X Names :
        /\ s[2] \in code.defines[s[1]]
        /\ \E p \in DefaultApi!Met(s[1], s[2], FALSE) : PublicModule(p)}

DefaultUnusedExports ==
    UnusedExports(DefaultReached \cap code.surface,
                  {s \in Symbols : \E m \in DefaultReached \ {s[1]} : Default!Uses(m, s)},
                  DefaultStarReached, {})

DefaultUnusedReexports ==
    UnusedReexports(DefaultReached \cap code.surface,
                    {s \in Symbols : \E m \in DefaultReached : Default!Uses(m, s)})

(* Names a default run reports and this one does not, of reached files.    *)
Lost ==
    {s \in DefaultUnusedExports \ unused_exports : s[1] \in Reached}
        \cup {s \in DefaultUnusedReexports \ unused_reexports : s[1] \in Reached}

(* "A default CHK006 now disappears under --production only when its file  *)
(* becomes CHK001."                                                        *)
ProductionReportsNoLess == report = "reported" => Lost = {}

(* The tests, and the public modules that only a test leads to, by         *)
(* definition; and the index of what they refer to.                        *)
Vouching ==
    LET led == {f \in Files : \A S \in SUBSET Files :
                   (\A g \in code.tests \cup S : ImportedFiles(g) \ Reached \subseteq S)
                   => f \in S}
    IN  code.tests \cup {f \in led : PublicModule(f)}

Heard == INSTANCE SymbolIndex WITH read <- Vouching

(* What --production loses of a default report of a reached file, it loses *)
(* to a test that no root of a default run reaches, or to one behind such  *)
(* a test, or because the `__all__` of the symbol's own module, which does *)
(* not hand the name on, is not read with the testimony.                   *)
ProductionReportsMost ==
    report = "reported" =>
        \A s \in Lost :
            \/ \E m \in Vouching \ DefaultReached : Heard!Uses(m, s)
            \/ s[1] \notin Vouching /\ ~Default!HandsOn(s[1], s[2])
=============================================================================
