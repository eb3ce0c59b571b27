----------------------------- MODULE MCCompiler -----------------------------
(***************************************************************************)
(* Workflows for checking Compiler.  Example is the repository's example    *)
(* workflow (src/unnamed/part_001, lines 1-34); Greeting is its first two  *)
(* calls, greet given a dir() output; the others end in each of action()'s *)
(* validation errors.                                                      *)
(***************************************************************************)
EXTENDS Compiler

Out(n, k) == [name |-> n, kind |-> k]
Src(r, j, o) == [ref |-> r, stmt |-> j, name |-> o]
In(n, src) == [name |-> n, src |-> src]
Call0(l, ok, ins, outs) == [label |-> l, argsOk |-> ok, inputs |-> ins, outputs |-> outs]

Save == Call0("save", TRUE, <<>>, <<Out("OUT", FileBuiltin(0).val)>>)
Greet(src) == Call0("greet", TRUE, <<In("GREETING", src)>>, <<Out("OUT", DirBuiltin(0).val)>>)

Example ==
    <<Save,
      Call0("greet", TRUE, <<In("GREETING", Src("output", 1, "OUT"))>>, <<>>),
      Call0("emphasize", TRUE, <<In("GREETING", Src("output", 1, "OUT"))>>,
            <<Out("OUT", FileBuiltin(0).val)>>),
      Call0("final", TRUE, <<In("GREETING", Src("output", 3, "OUT"))>>, <<>>)>>

Greeting      == <<Save, Greet(Src("output", 1, "OUT"))>>
BadArgs       == <<Save, Call0("greet", FALSE, <<>>, <<>>)>>
MalformedId   == <<Save, Greet(Src("malformed", 0, "OUT"))>>
AbsentId      == <<Save, Greet(Src("absent", 0, "OUT"))>>
BadKind       == <<Save, Call0("greet", TRUE, <<>>, <<Out("OUT", 2)>>)>>
WideKind      == <<Call0("save", TRUE, <<>>, <<Out("OUT", 256)>>)>>

GreetingOnly == {Greeting}
ConcurrentWorkflows == {Example, Greeting, BadKind}
WideKindOnly == {WideKind}
AllWorkflows == {Example, Greeting, BadArgs, MalformedId, AbsentId, BadKind}
MCLabels == {"save", "greet", "emphasize", "final"}
MCNames == {"OUT", "GREETING"}
\* The cluster as a finished Greeting build left it: save's action (id 1)
\* and its OUT artifact (id 2); ids from NewV7 are older than any later run's.
PreviousBuild == AddOutputTx(AddActionTx(EmptyDB, 1, "save"), 1, "OUT", 2, "save", ArtifactKindFile)
EmptyOnly == {EmptyDB}
AfterPreviousBuild == {PreviousBuild}
=============================================================================
