---------------------------- MODULE IssueReport ----------------------------
(***************************************************************************)
(* What a run reports of the candidates its rules find (src/rules/emit.rs):*)
(* input that could not be read lowers the findings it may hide, the       *)
(* configured severities replace those of the rules, ignores silence, and  *)
(* filters hide.                                                           *)
(*                                                                         *)
(* A candidate is [rule, name, by, sites, severity, confidence]: the rule, *)
(* the distribution, what else its target names (the importing file of a   *)
(* missing dependency), the files whose directives may silence it, and how *)
(* bad and how sure it is.  A gap is [kind, name]: what could not be read, *)
(* and the distribution it names, if its kind names one.                   *)
(*                                                                         *)
(* The settings of a run are a record: strict, noExit (--no-exit-code),    *)
(* floor (--confidence, or Unset), rules (those --include and --exclude    *)
(* leave), off and levels ([tool.chokkin.severity]), ignored (the pairs of *)
(* a rule and a distribution that [tool.chokkin.ignore] names) and silent  *)
(* (the pairs of a rule and a file where a directive ignores the rule).    *)
(***************************************************************************)
EXTENDS Integers, FiniteSets

Unset == -1

(* Confidence and severity, in the order the code compares them.           *)
Maybe == 0
Likely == 1
Certain == 2

Rules == {2, 3, 5, 9}

Info == 0
Warning == 1
Error == 2

LeastOf(S) == CHOOSE x \in S : \A y \in S : x <= y

----------------------------------------------------------------------------
(* Gaps.  "unreadCode" stands for every kind of code that may import       *)
(* anything (a skipped module or entry, notebook cells, settings of Django *)
(* or Sphinx), "unresolvedImport" for an import of no known distribution,  *)
(* "stringRef" for a string that names a module, "unknownExtras" for       *)
(* extras that are not static, and the last two for a line, or an archive, *)
(* that may declare the distribution it names.                             *)
GapKinds == {"unreadCode", "unresolvedImport", "stringRef", "unknownExtras",
             "unreadLine", "unreadRuntimeLine"}

Reaches(gap, c) ==
  gap.kind \in {"stringRef", "unreadLine", "unreadRuntimeLine"} => gap.name = c.name

(* The kinds that make a finding of a rule a hint, and those that cap it.  *)
HintKinds(rule) ==
  CASE rule = 2 -> {"stringRef"}
    [] rule = 3 -> {"unreadLine", "unreadRuntimeLine"}
    [] rule = 5 -> {"unreadRuntimeLine"}
    [] rule = 9 -> {}

CapKinds(rule) ==
  CASE rule = 2      -> {"unreadCode", "unresolvedImport"}
    [] rule \in {3,5} -> {"unknownExtras"}
    [] rule = 9      -> {}

Cap(kind) == IF kind \in {"unreadLine", "unreadRuntimeLine"} THEN Maybe ELSE Likely

KindsReaching(gaps, c) == {g.kind : g \in {g \in gaps : Reaches(g, c)}}

(* Mutant: a hint is shown as one, and as sure as before.                  *)
LoweredInSeverity(gaps, c) ==
  IF KindsReaching(gaps, c) \cap HintKinds(c.rule) # {} THEN [c EXCEPT !.severity = Info] ELSE c

(* apply_gaps: no kind raises what another lowered, in whatever order.     *)
Lowered(gaps, c) ==
  LET hints == KindsReaching(gaps, c) \cap HintKinds(c.rule)
      caps  == KindsReaching(gaps, c) \cap CapKinds(c.rule)
  IN  [c EXCEPT !.severity   = IF hints # {} THEN Info ELSE @,
                !.confidence = LeastOf({@} \cup {Cap(k) : k \in hints \cup caps})]

----------------------------------------------------------------------------
(* A configured severity replaces also that of a hint.                     *)
Overridden(settings, c) ==
  IF c.rule \in DOMAIN settings.levels
  THEN [c EXCEPT !.severity = settings.levels[c.rule]] ELSE c

(* Every site must be ignored: one directive does not speak for the rest.  *)
Silenced(settings, c) ==
  \/ <<c.rule, c.name>> \in settings.ignored
  \/ c.sites # {} /\ \A f \in c.sites : <<c.rule, f>> \in settings.silent

(* An explicit --confidence wins over --strict; `likely` is the default.   *)
Floor(settings) ==
  IF settings.floor # Unset THEN settings.floor
  ELSE IF settings.strict THEN Maybe ELSE Likely

Reported(settings, gaps, candidates) ==
  LET on       == {c \in candidates : c.rule \notin settings.off}
      standing == {Overridden(settings, Lowered(gaps, c)) : c \in on}
  IN  {c \in standing : /\ ~ Silenced(settings, c)
                        /\ c.confidence >= Floor(settings)
                        /\ c.rule \in settings.rules}

----------------------------------------------------------------------------
(* The exit status follows the findings that count; --strict counts        *)
(* warnings, and of whatever confidence.                                   *)
Counts(settings, c) ==
  IF settings.strict THEN c.severity >= Warning
  ELSE c.severity = Error /\ c.confidence >= Likely

ExitStatus(settings, findings) ==
  IF ~ settings.noExit /\ \E c \in findings : Counts(settings, c)
  THEN "issues" ELSE "success"

----------------------------------------------------------------------------
(* The baseline file.  A fingerprint is the rule and the stable target: no *)
(* line, index, severity or confidence.                                    *)
Fingerprint(c) == <<c.rule, c.name, c.by>>

(* Mutant: only the findings that fail the run are recorded.               *)
RecordedIfCounting(settings, findings) ==
  {Fingerprint(c) : c \in {c \in findings : Counts(settings, c)}}

Recorded(settings, findings) == {Fingerprint(c) : c \in findings}

Unrecorded(prints, findings) == {c \in findings : Fingerprint(c) \notin prints}
=============================================================================
