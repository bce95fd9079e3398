----------------------------- MODULE MCFixApply -----------------------------
(***************************************************************************)
(* Small instances of FixApply: two distributions, one of them under two   *)
(* specifiers.  Arrays hold up to three entries so that a removal shifts   *)
(* the index of a later edit, the same name is in several places, and      *)
(* base.txt repeats a line of the file that includes it.                   *)
(***************************************************************************)
EXTENDS FixApply

Entry(n, s) == [name |-> n, spec |-> s, from |-> <<"start", 0>>]

a1 == Entry("a", "any")
a2 == Entry("a", "pinned")
b1 == Entry("b", "any")

Document(r, d, l, b) == [runtime |-> r, dev |-> d, lines |-> l, base |-> b]

Failing   == [faults |-> 1, crashes |-> 1, edits |-> 0]
Disturbed == [faults |-> 0, crashes |-> 0, edits |-> 1]
Calm      == [faults |-> 0, crashes |-> 0, edits |-> 0]

(* What a run is told and what surrounds it: plainly --fix, unless said.   *)
Plainly(strict) ==
  [strict |-> strict, noExit |-> FALSE, floor |-> Unset, rules |-> {2, 3, 5, 9}, off |-> {},
   levels |-> [r \in {} |-> Info], ignored |-> {}, silent |-> {}]

Setting(imports, shared, strict, add, dry, hashed, outside, limits) ==
  [imports |-> imports, unseen |-> {}, shared |-> shared, settings |-> Plainly(strict),
   fix |-> TRUE, addMissing |-> add, dryRun |-> dry, baseline |-> "none",
   hashed |-> hashed, outside |-> outside, limits |-> limits]

(* Failures and crashes, the command repeated until it settles.            *)
FailingManifests ==
       {Document(r, d, l, <<>>) :
          r \in {<<>>, <<a1, b1>>, <<a1, a1, b1>>, <<b1, a1, a2>>},
          d \in {<<>>, <<b1>>, <<a1, b1>>},
          l \in {<<>>, <<b1, a1>>}}
  \cup {Document(r, d, l, b) :
          r \in {<<>>, <<b1>>}, d \in {<<>>, <<a1>>}, l \in {<<a1, b1>>},
          b \in {<<a1>>, <<b1, a1>>}}

MCImports == {{}, {<<"a", "m">>}, {<<"b", "m">>, <<"b", "n">>}, {<<"a", "m">>, <<"b", "m">>}}

FailingOptions == {Setting(i, s, t, ~ t, FALSE, {}, {}, Failing) : i \in MCImports, s \in BOOLEAN, t \in BOOLEAN}

(* A user edits while --fix runs; hash pins and links out of the project.  *)
EditedManifests ==
  {Document(r, d, l, b) :
     r \in {<<>>, <<a1, b1>>, <<a1, a1, b1>>}, d \in {<<>>, <<b1>>, <<a1, b1>>},
     l \in {<<>>, <<b1, a1>>}, b \in {<<>>, <<a1>>}}

EditedOptions ==
  {Setting(i, FALSE, TRUE, TRUE, dry, o[1], o[2], Disturbed) :
     i \in {{<<"a", "m">>}, {<<"b", "m">>, <<"n", "m">>}}, dry \in BOOLEAN,
     o \in {<<{}, {}>>, <<{"requirements.txt"}, {}>>, <<{}, {"requirements.txt"}>>}}

(* Imports that are not seen, and lines and extras that cannot be read.    *)
unread == Entry("a", "unread")

GappedManifests ==
  {Document(r, d, l, <<>>) :
     r \in {<<>>, <<b1>>, <<a1, b1>>, <<unread, b1>>}, d \in {<<>>, <<a1>>, <<unread, a1, b1>>},
     l \in {<<>>, <<b1, unread>>, <<a2>>}}

MCUnseen == {{}, {[kind |-> "unreadCode", name |-> "a"]},
             {[kind |-> "unresolvedImport", name |-> "b"], [kind |-> "unknownExtras", name |-> "b"]},
             {[kind |-> "stringRef", name |-> "a"], [kind |-> "unknownExtras", name |-> "a"]}}

GappedOptions ==
  {[Setting(i, s, t, TRUE, FALSE, {}, {}, Calm) EXCEPT !.unseen = u] :
     i \in MCImports, s \in BOOLEAN, t \in BOOLEAN, u \in MCUnseen}

(* A baseline is recorded, with faults, crashes and edits of its own, and  *)
(* the command repeated to go by it.                                       *)
RecordingManifests ==
  {Document(r, d, l, <<>>) :
     r \in {<<>>, <<a1, b1>>, <<unread, b1>>}, d \in {<<>>, <<b1, a1>>}, l \in {<<>>, <<b1>>}}

RecordingOptions ==
  {[Setting(i, FALSE, t, TRUE, dry, {}, {}, limits) EXCEPT !.fix = f, !.baseline = "update"] :
     i \in MCImports, t \in BOOLEAN, dry \in BOOLEAN, f \in BOOLEAN, limits \in {Failing, Disturbed}}

(* Findings the configuration or the command line silences.                *)
MCSettings ==
  LET plain == Plainly(FALSE)
  IN  {[plain EXCEPT !.off = {2}], [plain EXCEPT !.levels = [r \in {3, 9} |-> Info]],
       [plain EXCEPT !.levels = [r \in {5} |-> Error], !.floor = Certain],
       [plain EXCEPT !.ignored = {<<2, "a">>, <<9, "a">>}],
       [plain EXCEPT !.silent = {<<3, "m">>, <<5, "m">>}],
       [plain EXCEPT !.rules = {3, 9}, !.noExit = TRUE]}

SilencingOptions ==
  {[Setting(i, FALSE, FALSE, TRUE, FALSE, {}, {}, Calm) EXCEPT !.settings = s, !.baseline = m] :
     i \in MCImports, s \in MCSettings, m \in {"none", "update"}}

MCProjects ==
  UNION {FailingManifests \X FailingOptions, EditedManifests \X EditedOptions,
         GappedManifests \X GappedOptions, RecordingManifests \X RecordingOptions,
         EditedManifests \X SilencingOptions}

(* A preview of an edit in a requirements file that pins hashes.           *)
PinnedProjects ==
  {Document(r, <<>>, l, <<>>) : r \in {<<>>, <<b1>>}, l \in {<<a1>>, <<a1, b1>>}}
    \X {Setting({}, FALSE, t, FALSE, dry, {"requirements.txt"}, {}, Calm) :
          t \in BOOLEAN, dry \in BOOLEAN}

=============================================================================
