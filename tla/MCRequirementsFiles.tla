------------------------ MODULE MCRequirementsFiles -------------------------
(***************************************************************************)
(* requirements.txt, an extra candidate, and two files that are included,  *)
(* one of them tried in two places.                                        *)
(***************************************************************************)
EXTENDS RequirementsFiles, TLC

MCFixed  == <<"requirements.txt", "requirements-dev.txt">>
MCExtra  == <<"docs/requirements.txt">>
MCOthers == {"tests/base.txt", "base.txt"}

r == "requirements.txt"
v == "requirements-dev.txt"
x == "docs/requirements.txt"
b == "tests/base.txt"
c == "base.txt"

MCUsual == (r :> "runtime") @@ (v :> "dev")
MCNamed == (r :> "none") @@ (v :> "dev") @@ (x :> "docs") @@ (b :> "tests") @@ (c :> "none")
MCSource == [p \in {r, v, x, b, c} |-> p]

absent == NotText("absent")

MCStates ==
  r :> {absent, Text(<<Requirement>>), Text(<<Includes(<<b>>), Includes(<<b>>)>>),
        Text(<<Constrains(<<b>>), Requirement>>), Text(<<Includes(<<b, c>>), Constrains(<<c>>)>>),
        Text(<<Includes(<<x>>), Remote>>)}
  @@ v :> {absent, Text(<<Includes(<<b>>)>>)}
  @@ x :> {absent, Text(<<Requirement, Includes(<<c>>)>>), Text(<<Includes(<<b>>)>>),
           Text(<<Includes(<<b, c>>), Requirement>>), Text(<<Constrains(<<c>>), Includes(<<c>>)>>)}
  @@ b :> {absent, NotText("undecodable"), Text(<<Requirement>>), Text(<<Includes(<<r>>)>>),
           Text(<<Includes(<<c>>), Requirement>>), Text(<<Constrains(<<c>>)>>),
           Text(<<Includes(<<b>>)>>)}
  @@ c :> {absent, NotText("unreadable"), NotText("outside"), Text(<<Requirement>>),
           Text(<<Includes(<<b>>)>>), Text(<<Includes(<<x>>)>>)}

MCDisks ==
  {r :> d[1] @@ v :> d[2] @@ x :> d[3] @@ b :> d[4] @@ c :> d[5] :
     d \in MCStates[r] \X MCStates[v] \X MCStates[x] \X MCStates[b] \X MCStates[c]}
=============================================================================
