----------------------------- MODULE Navigation -----------------------------
(***************************************************************************)
(* The Graph Navigation Layer (src/unnamed/part_002 artifactCursor,        *)
(* part_004 actionCursor, graph.go Graph.Actions) used by readers while    *)
(* a build runs.  A reader lists the actions, takes one action cursor,     *)
(* follows its Outputs() or Inputs() to an artifact cursor, and asks that  *)
(* artifact for its Producer() or Consumers().  Each accessor is its own   *)
(* db.ReadTransact: one snapshot of `db`, taken at the step, between any   *)
(* two transactions of the build.  A cursor keeps only the id it was       *)
(* built from; the label, kind and command it caches are not read by any  *)
(* accessor below.                                                          *)
(***************************************************************************)
EXTENDS Compiler

CONSTANT Readers

VARIABLES
    rpc,    \* rpc[r]: "idle", "action" (holds an action cursor) or "artifact"
    rac,    \* rac[r]: the action cursor's id
    rar,    \* rar[r]: the artifact cursor's id
    rvia,   \* rvia[r]: "output" or "input", the map rar[r] was taken from
    rres    \* rres[r]: the last Producer() or Consumers() result

rvars == <<rpc, rac, rar, rvia, rres>>

NoResult == [kind |-> "none"]

ReadersInit ==
    /\ rpc = [r \in Readers |-> "idle"]
    /\ rac = [r \in Readers |-> NoId]
    /\ rar = [r \in Readers |-> NoId]
    /\ rvia = [r \in Readers |-> "output"]
    /\ rres = [r \in Readers |-> NoResult]

\* Graph.Actions: actionsTransaction scans the action subspace; the reader
\* goes on with one of the cursors in the returned slice.
ReadActions(r) ==
    /\ rpc[r] = "idle"
    /\ \E i \in DOMAIN ListActions(db) :
          /\ rac' = [rac EXCEPT ![r] = ListActions(db)[i]]
          /\ rpc' = [rpc EXCEPT ![r] = "action"]
    /\ UNCHANGED <<rar, rvia, rres>>

\* actionCursor.Outputs / actionCursor.Inputs: one read transaction of
\* actionOutputsTransaction or actionInputsTransaction; on an error or an
\* empty map the reader starts over.
FollowEdge(r, via, res) ==
    /\ rpc[r] = "action"
    /\ \/ /\ res.ok /\ DOMAIN res.val # {}
          /\ \E n \in DOMAIN res.val :
                /\ rar' = [rar EXCEPT ![r] = res.val[n]]
                /\ rvia' = [rvia EXCEPT ![r] = via]
                /\ rpc' = [rpc EXCEPT ![r] = "artifact"]
       \/ /\ ~res.ok \/ DOMAIN res.val = {}
          /\ rpc' = [rpc EXCEPT ![r] = "idle"]
          /\ UNCHANGED <<rar, rvia>>
    /\ UNCHANGED <<rac, rres>>

ReadOutputs(r) == FollowEdge(r, "output", ResolveOutputs(db, rac[r]))
ReadInputs(r) == FollowEdge(r, "input", ResolveInputs(db, rac[r]))

\* artifactCursor.Producer / artifactCursor.Consumers: one read
\* transaction of artifactProducerTransaction or
\* artifactConsumersTransaction; the result, with the action cursor the
\* artifact was reached from, is what the reader sees.
Observe(r, kind, res) ==
    /\ rpc[r] = "artifact"
    /\ rres' = [rres EXCEPT ![r] = [kind |-> kind, via |-> rvia[r], from |-> rac[r],
                                    res |-> res]]
    /\ rpc' = [rpc EXCEPT ![r] = "idle"]
    /\ UNCHANGED <<rac, rar, rvia>>

ReadProducer(r) == Observe(r, "producer", ResolveProducer(db, rar[r]))
ReadConsumers(r) == Observe(r, "consumers", ResolveConsumers(db, rar[r]))

NavInit == Init /\ ReadersInit

NavNext ==
    \/ Next /\ UNCHANGED rvars
    \/ /\ \E r \in Readers :
             \/ ReadActions(r) \/ ReadOutputs(r) \/ ReadInputs(r)
             \/ ReadProducer(r) \/ ReadConsumers(r)
       /\ UNCHANGED vars

NavSpec == NavInit /\ [][NavNext]_<<vars, rvars>>

\* Navigation answers agree with the edge they were reached by.  During one
\* build, a reader that took artifact x from Outputs() of action a and then
\* calls x.Producer() gets exactly a.  If it took x from Inputs() of a, then
\* x.Consumers() succeeds and lists a.  The two accessors are separate read
\* transactions, so the build's later transactions, including duplicated
\* commits and failed steps, run between them.
NavigationAgrees ==
    \A r \in Readers :
        /\ rres[r].kind = "producer" /\ rres[r].via = "output" =>
               rres[r].res = Ok(rres[r].from)
        /\ rres[r].kind = "consumers" /\ rres[r].via = "input" =>
               rres[r].res.ok /\ \E i \in DOMAIN rres[r].res.val : rres[r].res.val[i] = rres[r].from
=============================================================================
