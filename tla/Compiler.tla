------------------------------ MODULE Compiler ------------------------------
(***************************************************************************)
(* `skycastle schedule <workflow>` (src/unnamed/part_001, main.go):        *)
(* Schedule clears the database, then evaluates the workflow script, whose *)
(* action(name, cmd, inputs, outputs) builtin drives package graph through *)
(* one transaction per step: AddAction, then per input a GetArtifact read  *)
(* and an AddInput write, then per output an AddOutput write.              *)
(*                                                                          *)
(* Every process in Clients is one `skycastle schedule` run against the    *)
(* same FoundationDB cluster; their transactions interleave.  Each write   *)
(* goes through db.Transact, which may fail with a non-retryable error     *)
(* (nothing committed) or hit commit_unknown_result after the commit took  *)
(* effect, in which case Transact runs the closure again: a second NewV7,  *)
(* a second commit.  Both are bounded by MaxErrors and MaxUnknown.         *)
(***************************************************************************)
EXTENDS GraphStore

CONSTANTS
    Clients,      \* concurrent `skycastle schedule` processes
    Workflows,    \* the scripts a process may evaluate (a call record is described below)
    MaxId,        \* the number of uuid.NewV7 values available
    MaxErrors,    \* transactions that fail with a non-retryable error
    MaxUnknown,   \* commits that report commit_unknown_result
    InitialDBs    \* what the cluster holds when the processes start

(***************************************************************************)
(* A script is a sequence of action() calls.  A call is a record:          *)
(*   label   : the name argument                                           *)
(*   argsOk  : UnpackArgs accepts the arguments                            *)
(*   inputs  : <<[name, src]>> in dict order; src.ref is "output" (the id  *)
(*             string of output src.name of statement src.stmt), "absent" *)
(*             (a well-formed uuid no artifact has) or "malformed" (not a  *)
(*             string or not a uuid)                                       *)
(*   outputs : <<[name, kind]>> in dict order; kind is what file()/dir()   *)
(*             returned, or another int                                     *)
(***************************************************************************)

Ids == 1..MaxId
NoId == 0        \* the uuid of an "absent" input: no artifact has it

VARIABLES
    db,           \* the FoundationDB key space
    clock,        \* clock[c]: process c's NewV7 clock
    errors,       \* non-retryable failures so far
    unknowns,     \* commit_unknown_result so far
    script,       \* script[c]: the workflow process c evaluates
    pc,           \* pc[c]: where process c is
    stmt,         \* stmt[c]: the action() call being evaluated
    pos,          \* pos[c]: the input or output entry being handled
    cur,          \* cur[c]: the action cursor returned by AddAction
    art,          \* art[c]: the artifact cursor returned by GetArtifact
    acts,         \* acts[c][j]: the action created by call j
    env           \* env[c][<<j, n>>]: call j's outputs["n"], an artifact id

vars == <<db, clock, errors, unknowns, script, pc, stmt, pos, cur, art, acts, env>>

(***************************************************************************)
(* uuid.NewV7 keeps its clock (lastV7time) in the process: the ids one     *)
(* process takes strictly increase, but nothing orders them against        *)
(* another process's, whose clock may run ahead or behind.  clock[c] is   *)
(* how many ids process c's clock has passed; its k-th next id is          *)
(* (clock[c] + k - 1) * |Clients| + Rank[c], so a process that has taken   *)
(* more ids is ahead of one that has taken fewer, whatever the real order. *)
(***************************************************************************)
Rank == CHOOSE f \in [Clients -> 1..Cardinality(Clients)] :
            \A x, y \in Clients : f[x] = f[y] => x = y

NewV7(c, k) == (clock[c] + k - 1) * Cardinality(Clients) + Rank[c]

\* A previous build's graph may still be in the cluster.  Its ids are
\* 1..n, older NewV7 values than any this run generates.
Init ==
    /\ db \in InitialDBs
    /\ clock = [c \in Clients |-> Cardinality(DOMAIN db.action \cup DOMAIN db.artifact)]
    /\ errors = 0
    /\ unknowns = 0
    /\ script \in [Clients -> Workflows]
    /\ pc = [c \in Clients |-> "start"]
    /\ stmt = [c \in Clients |-> 1]
    /\ pos = [c \in Clients |-> 1]
    /\ cur = [c \in Clients |-> NoId]
    /\ art = [c \in Clients |-> NoId]
    /\ acts = [c \in Clients |-> <<>>]
    /\ env = [c \in Clients |-> <<>>]

(***************************************************************************)
(* db.Transact and db.ReadTransact.  A write outcome is "ok" (committed    *)
(* once), "unknown" (committed, then the closure ran and committed again)  *)
(* or "error" (nothing committed, the error returned).                     *)
(***************************************************************************)
WriteOutcomes ==
    {"ok"} \cup (IF errors < MaxErrors THEN {"error"} ELSE {})
           \cup (IF unknowns < MaxUnknown THEN {"unknown"} ELSE {})
ReadOutcomes == {"ok"} \cup (IF errors < MaxErrors THEN {"error"} ELSE {})

\* Runs of the closure whose effect is committed.
Commits(o) == CASE o = "ok" -> 1 [] o = "unknown" -> 2 [] o = "error" -> 0

\* The database after Transact with outcome o, given the database after
\* one run of the closure (once) and after two runs (twice); each run
\* generates its own uuid, NewV7(c, 1) and then NewV7(c, 2).
Transact(once, twice, o) ==
    CASE o = "ok"      -> once
      [] o = "unknown" -> twice
      [] o = "error"   -> db

\* Variant: the result of the first run.
ReturnedFirst(c, o) == NewV7(c, 1)

\* The uuid of the run whose result Transact returns: the last one.
Returned(c, o) == NewV7(c, Commits(o))

\* The budget and uuid bookkeeping of a write that generates a uuid.
CountWrite(c, o) ==
    /\ NewV7(c, Commits(o)) <= MaxId
    /\ clock' = [clock EXCEPT ![c] = @ + Commits(o)]
    /\ errors' = errors + (IF o = "error" THEN 1 ELSE 0)
    /\ unknowns' = unknowns + (IF o = "unknown" THEN 1 ELSE 0)

Call(c) == script[c][stmt[c]]

\* The builtins file() and dir(): no argument is accepted; each returns
\* the ArtifactKind as a Starlark int.
FileBuiltin(nargs) == IF nargs > 0 THEN Err("file does not accept arguments") ELSE Ok(ArtifactKindFile)
DirBuiltin(nargs) == IF nargs > 0 THEN Err("dir does not accept arguments") ELSE Ok(ArtifactKindDirectory)

\* graph.ArtifactKind(artifactTypeInt64): the conversion to a byte keeps
\* the low eight bits; the switch then checks the converted value.
ToArtifactKind(k) == k % 256

\* Variant: the switch on the kind is missing.
KindUnchecked(k) == TRUE

ValidKind(k) == ToArtifactKind(k) \in ArtifactKinds

Fail(c) == pc' = [pc EXCEPT ![c] = "failed"]

(***************************************************************************)
(* Schedule: os.ReadFile, BOXOPS_REPO_ROOT, RepoVersion (the work tree     *)
(* must be clean), filepath.Abs and filepath.Rel; any of them returns an  *)
(* error, and main exits 1, before the cluster is opened.                  *)
(***************************************************************************)
Prepare(c) ==
    /\ pc[c] = "start"
    /\ \E ok \in BOOLEAN : pc' = [pc EXCEPT ![c] = IF ok THEN "clear" ELSE "failed"]
    /\ UNCHANGED <<db, clock, errors, unknowns, script, stmt, pos, cur, art, acts, env>>

\* Then clearDatabase(db) (its error is dropped), then ExecFile.
ClearStep(c) ==
    /\ pc[c] = "clear"
    /\ \E o \in WriteOutcomes :
          /\ db' = Transact(ClearDatabase(db), ClearDatabase(ClearDatabase(db)), o)
          /\ errors' = errors + (IF o = "error" THEN 1 ELSE 0)
          /\ unknowns' = unknowns + (IF o = "unknown" THEN 1 ELSE 0)
    /\ pc' = [pc EXCEPT ![c] = "stmt"]
    /\ UNCHANGED <<clock, script, stmt, pos, cur, art, acts, env>>

\* The script has run to its end: ExecFileOptions returns nil.
ScriptDone(c) ==
    /\ pc[c] = "stmt"
    /\ stmt[c] > Len(script[c])
    /\ pc' = [pc EXCEPT ![c] = "done"]
    /\ UNCHANGED <<db, clock, errors, unknowns, script, stmt, pos, cur, art, acts, env>>

(***************************************************************************)
(* action(): UnpackArgs, then g.AddAction(label, command).                 *)
(***************************************************************************)
BeginAction(c) ==
    /\ pc[c] = "stmt"
    /\ stmt[c] <= Len(script[c])
    /\ \/ /\ ~Call(c).argsOk
          /\ Fail(c)
          /\ UNCHANGED <<db, clock, errors, unknowns, cur, acts>>
       \/ /\ Call(c).argsOk
          /\ \E o \in WriteOutcomes :
                /\ db' = LET Tx(d, id) == AddActionTx(d, id, Call(c).label)
                       IN  Transact(Tx(db, NewV7(c, 1)), Tx(Tx(db, NewV7(c, 1)), NewV7(c, 2)), o)
                /\ CountWrite(c, o)
                /\ IF o = "error"
                   THEN Fail(c) /\ UNCHANGED <<cur, acts>>
                   ELSE /\ pc' = [pc EXCEPT ![c] = "input"]
                        /\ cur' = [cur EXCEPT ![c] = Returned(c, o)]
                        /\ acts' = [acts EXCEPT ![c] = Put(@, stmt[c], Returned(c, o))]
    /\ pos' = [pos EXCEPT ![c] = 1]
    /\ UNCHANGED <<script, stmt, art, env>>

(***************************************************************************)
(* The inputs loop: check the value, uuid.Parse it, g.GetArtifact (a read  *)
(* transaction of its own), then action.AddInput, whose error is ignored.  *)
(***************************************************************************)
InputId(c, src) ==
    IF src.ref = "output" THEN env[c][<<src.stmt, src.name>>] ELSE NoId

ResolveInput(c) ==
    LET ins == Call(c).inputs
        src == ins[pos[c]].src
    IN
    /\ pc[c] = "input"
    /\ pos[c] <= Len(ins)
    /\ \/ /\ src.ref = "malformed"
          /\ Fail(c)
          /\ UNCHANGED <<errors, art>>
       \/ /\ src.ref # "malformed"
          /\ \E o \in ReadOutcomes :
                /\ errors' = errors + (IF o = "error" THEN 1 ELSE 0)
                /\ IF o = "ok" /\ GetArtifact(db, InputId(c, src)).ok
                   THEN /\ art' = [art EXCEPT ![c] = InputId(c, src)]
                        /\ pc' = [pc EXCEPT ![c] = "wire"]
                   ELSE Fail(c) /\ UNCHANGED art
    /\ UNCHANGED <<db, clock, unknowns, script, stmt, pos, cur, acts, env>>

\* Variant: the loop index is not advanced.
WireInputStuck(c) ==
    /\ pc[c] = "wire"
    /\ \E o \in WriteOutcomes :
          /\ db' = LET Tx(d) == AddInputTx(d, cur[c], Call(c).inputs[pos[c]].name, art[c])
                 IN  Transact(Tx(db), Tx(Tx(db)), o)
          /\ errors' = errors + (IF o = "error" THEN 1 ELSE 0)
          /\ unknowns' = unknowns + (IF o = "unknown" THEN 1 ELSE 0)
    /\ pc' = [pc EXCEPT ![c] = "input"]
    /\ UNCHANGED <<pos, clock, script, stmt, cur, art, acts, env>>

\* action.AddInput(name, artifact): the returned error is dropped and the
\* loop goes on with the next input.
WireInput(c) ==
    /\ pc[c] = "wire"
    /\ \E o \in WriteOutcomes :
          /\ db' = LET Tx(d) == AddInputTx(d, cur[c], Call(c).inputs[pos[c]].name, art[c])
                 IN  Transact(Tx(db), Tx(Tx(db)), o)
          /\ errors' = errors + (IF o = "error" THEN 1 ELSE 0)
          /\ unknowns' = unknowns + (IF o = "unknown" THEN 1 ELSE 0)
    /\ pos' = [pos EXCEPT ![c] = @ + 1]
    /\ pc' = [pc EXCEPT ![c] = "input"]
    /\ UNCHANGED <<clock, script, stmt, cur, art, acts, env>>

InputsDone(c) ==
    /\ pc[c] = "input"
    /\ pos[c] > Len(Call(c).inputs)
    /\ pc' = [pc EXCEPT ![c] = "output"]
    /\ pos' = [pos EXCEPT ![c] = 1]
    /\ UNCHANGED <<db, clock, errors, unknowns, script, stmt, cur, art, acts, env>>

(***************************************************************************)
(* The outputs loop: the kind must be ArtifactKindFile or                  *)
(* ArtifactKindDirectory; action.AddOutput(name, label, kind) creates the  *)
(* artifact with the action's label; its id goes into the outputs dict.    *)
(***************************************************************************)
AddOutput(c) ==
    LET out == Call(c).outputs[pos[c]]
    IN
    /\ pc[c] = "output"
    /\ pos[c] <= Len(Call(c).outputs)
    /\ \/ /\ ~ValidKind(out.kind)
          /\ Fail(c)
          /\ UNCHANGED <<db, clock, errors, unknowns, pos, env>>
       \/ /\ ValidKind(out.kind)
          /\ \E o \in WriteOutcomes :
                /\ db' = LET Tx(d, id) == AddOutputTx(d, cur[c], out.name, id, Call(c).label,
                                                   ToArtifactKind(out.kind))
                       IN  Transact(Tx(db, NewV7(c, 1)), Tx(Tx(db, NewV7(c, 1)), NewV7(c, 2)), o)
                /\ CountWrite(c, o)
                /\ IF o = "error"
                   THEN Fail(c) /\ UNCHANGED <<pos, env>>
                   ELSE /\ env' = [env EXCEPT ![c] = Put(@, <<stmt[c], out.name>>, Returned(c, o))]
                        /\ pos' = [pos EXCEPT ![c] = @ + 1]
                        /\ UNCHANGED pc
    /\ UNCHANGED <<script, stmt, cur, art, acts>>

\* The call returns its struct; the script goes on with the next call.
EndAction(c) ==
    /\ pc[c] = "output"
    /\ pos[c] > Len(Call(c).outputs)
    /\ pc' = [pc EXCEPT ![c] = "stmt"]
    /\ stmt' = [stmt EXCEPT ![c] = @ + 1]
    /\ UNCHANGED <<db, clock, errors, unknowns, script, pos, cur, art, acts, env>>

\* Every process has exited.
Finished ==
    /\ \A c \in Clients : pc[c] \in {"done", "failed"}
    /\ UNCHANGED vars

\* One step of process c.
Step(c) ==
    \/ Prepare(c) \/ ClearStep(c) \/ ScriptDone(c) \/ BeginAction(c)
    \/ ResolveInput(c) \/ WireInput(c) \/ InputsDone(c)
    \/ AddOutput(c) \/ EndAction(c)

Next == (\E c \in Clients : Step(c)) \/ Finished

Spec == Init /\ [][Next]_vars

\* Each `skycastle schedule` is its own OS process running one goroutine
\* that never waits on another process: while it can take a step, it
\* eventually does.
FairSpec == Spec /\ \A c \in Clients : WF_vars(Step(c))

TypeOK ==
    /\ IsDB(db, Ids)
    /\ clock \in [Clients -> 0..MaxId]
    /\ errors \in 0..MaxErrors /\ unknowns \in 0..MaxUnknown
    /\ pc \in [Clients -> {"start", "clear", "stmt", "input", "wire", "output", "done", "failed"}]
    /\ cur \in [Clients -> Ids \cup {NoId}] /\ art \in [Clients -> Ids \cup {NoId}]
    /\ \A c \in Clients : /\ stmt[c] \in 1..(Len(script[c]) + 1)
                          /\ \A j \in DOMAIN acts[c] : acts[c][j] \in Ids
                          /\ \A k \in DOMAIN env[c] : env[c][k] \in Ids

(***************************************************************************)
(* Properties.                                                              *)
(***************************************************************************)

\* The two reverse indexes never diverge from the edges they mirror: an
\* input edge (action, artifact) exists exactly when the consumer key
\* (artifact, action) does, and an output edge exists exactly when the
\* producer index maps its artifact to its action.  addActionInputTransaction
\* and addActionOutputTransaction write both halves in one transaction and
\* clearDatabase removes both, whatever the processes' interleaving.
IndexesAgree ==
    /\ DOMAIN db.input = {<<e[2], e[1]>> : e \in db.consumer}
    /\ \A e \in DOMAIN db.output : e[2] \in DOMAIN db.producer /\ db.producer[e[2]] = e[1]
    /\ \A ar \in DOMAIN db.producer : <<db.producer[ar], ar>> \in DOMAIN db.output

\* The compiler creates artifacts only through AddOutput, so every
\* artifact record has a producer and every producer entry has its
\* artifact record: the nested addArtifactTransaction and the producer Set
\* commit together, also when commit_unknown_result makes Transact run the
\* closure twice and when another process clears the database.
ProducedArtifactsComplete ==
    /\ DOMAIN db.artifact = DOMAIN db.producer
    /\ \A e \in DOMAIN db.output : e[2] \in DOMAIN db.artifact

\* No edge or index entry names an action or artifact that has no record,
\* so no navigation read meets a dangling reference (the integrity error
\* of spec section 4.3).  AddInput and AddOutput are blind writes that use
\* cursors read in earlier transactions.
EdgesReferenceEntities ==
    /\ \A e \in DOMAIN db.input \cup DOMAIN db.output :
          e[1] \in DOMAIN db.action /\ e[2] \in DOMAIN db.artifact
    /\ \A e \in db.consumer : e[1] \in DOMAIN db.artifact /\ e[2] \in DOMAIN db.action
    /\ \A ar \in DOMAIN db.producer : db.producer[ar] \in DOMAIN db.action

\* Every artifact id the script got back in a call's outputs dict resolves
\* back: Producer() returns that call's action, and Outputs() of that
\* action maps the output's name to that same id.  When Transact runs the
\* AddOutput closure twice, the action has two output edges with that name
\* and only the NewV7 ordering of the scan makes the returned one win.
ScriptOutputsResolve ==
    \A c \in Clients : \A k \in DOMAIN env[c] :
        LET ar   == env[c][k]
            ac   == acts[c][k[1]]
            outs == ResolveOutputs(db, ac)
        IN  /\ ResolveProducer(db, ar) = Ok(ac)
            /\ outs.ok /\ k[2] \in DOMAIN outs.val /\ outs.val[k[2]] = ar

\* Each action() call creates at most one action record and each of its
\* outputs at most one artifact record (spec section 1, "exactly-once
\* provenance"; section 8, scenario A: one action and one artifact).
OneRecordPerCall ==
    /\ Cardinality(DOMAIN db.action)
         <= Cardinality(UNION {{<<c, j>> : j \in DOMAIN acts[c]} : c \in Clients})
    /\ Cardinality(DOMAIN db.artifact)
         <= Cardinality(UNION {{<<c, k>> : k \in DOMAIN env[c]} : c \in Clients})

\* When a script has run to its end, every input it declared is wired:
\* Inputs() of each call's action maps each input name to the artifact the
\* script passed (spec section 8; section 7: store errors propagate and
\* abort the script).
CompletedScriptWired ==
    \A c \in Clients : pc[c] = "done" =>
        \A j \in 1..Len(script[c]) : \A i \in 1..Len(script[c][j].inputs) :
            LET in  == script[c][j].inputs[i]
                res == ResolveInputs(db, acts[c][j])
            IN  res.ok /\ in.name \in DOMAIN res.val
                       /\ res.val[in.name] = InputId(c, in.src)

\* Every artifact the script got back has the kind the script declared for
\* that output: file() or dir(), anything else being rejected (spec
\* sections 4.2 and 7: an unknown artifact-kind token is a validation error).
DeclaredKindsStored ==
    \A c \in Clients : \A k \in DOMAIN env[c] :
        LET outs == script[c][k[1]].outputs
            out  == outs[CHOOSE i \in DOMAIN outs : outs[i].name = k[2]]
        IN  env[c][k] \in DOMAIN db.artifact => db.artifact[env[c][k]].kind = out.kind

\* Every process exits: its script runs to its end, or the first error
\* aborts it (spec section 7).  Each loop of action() moves past every
\* input and output, an ignored AddInput error included, and a
\* commit_unknown_result rerun is part of the same Transact call.
Termination == <>(\A c \in Clients : pc[c] \in {"done", "failed"})

Entities(d) == DOMAIN d.action \cup DOMAIN d.artifact

\* Wipe-then-build (spec section 6, the administrative boundary): Schedule
\* calls clearDatabase before evaluating the script, so once a process has
\* run its script to the end, no action or artifact that was in the
\* cluster when it started clearing is left; a later navigation sees only
\* builds started after that clear.
WipeThenBuild ==
    \A c \in Clients : \A id \in Ids :
        [](pc[c] = "clear" /\ id \in Entities(db) => [](pc[c] = "done" => id \notin Entities(db)))

(***************************************************************************)
(* Refinement: the forward relations of the database are the abstract      *)
(* graph; the consumer and producer indexes are implementation detail.     *)
(***************************************************************************)
Graph == INSTANCE GraphAbstract
            WITH actions <- db.action, artifacts <- db.artifact,
                 consumes <- db.input, produces <- db.output

\* Every step of the processes together is a step of the abstract graph:
\* no transaction adds an edge to a missing entity, creates two entities,
\* or gives an artifact a second producer.
GraphSpec == Graph!GSpec

=============================================================================
