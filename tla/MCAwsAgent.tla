----------------------------- MODULE MCAwsAgent -----------------------------
(***************************************************************************)
(* Checks the agent's AWS auth method.  `conf` is any config the agent's   *)
(* HCL can give it, over the values below; one step runs NewAWSAuthMethod  *)
(* on it, the next runs Authenticate on the method in any environment:     *)
(* whether the SDK config loads, the region IMDS reports, and whether      *)
(* IMDS gives credentials.  The harness stops after that step.             *)
(***************************************************************************)
EXTENDS AwsAgent, TLC

CONSTANTS
    RegionValues,   \* values a region key or IMDS may give
    GlobalValues    \* values of the use_global_endpoint key, by Go type

VARIABLES conf, phase, method, out

\* The values each key may have: absent, of its type, or of another type.
KeyValues ==
    [region |-> {[type |-> "string", val |-> r] : r \in RegionValues} \cup {[type |-> "int", val |-> 1]},
     use_global_endpoint |-> GlobalValues,
     server_id |-> {[type |-> "string", val |-> "bao"], [type |-> "int", val |-> 1]},
     role |-> {[type |-> "string", val |-> "app"], [type |-> "bool", val |-> TRUE]}]

ConfigMaps ==
    UNION {[ks -> UNION {KeyValues[k] : k \in ks}] : ks \in SUBSET DOMAIN KeyValues}
WellKeyed(m) == \A k \in DOMAIN m : m[k] \in KeyValues[k]

Confs ==
    {[present |-> FALSE, mountPath |-> "auth/aws", config |-> <<>>]}
    \cup {[present |-> TRUE, mountPath |-> "auth/aws", config |-> m] : m \in {m \in ConfigMaps : WellKeyed(m)}}

Creds == {[key |-> "role", session |-> TRUE]}
Envs == [load : BOOLEAN, imdsRegion : RegionValues,
         credsOk : BOOLEAN, creds : Creds]

RegionalGlobalValues == {[type |-> "bool", val |-> FALSE], [type |-> "string", val |-> "true"]}
AllGlobalValues == RegionalGlobalValues \cup {[type |-> "bool", val |-> TRUE]}

None == [ok |-> FALSE, val |-> "none"]

Init == conf \in Confs /\ phase = "new" /\ method = None /\ out = None

New ==
    /\ phase = "new"
    /\ method' = NewAWSAuthMethod(conf)
    /\ phase' = IF method'.ok THEN "login" ELSE "done"
    /\ UNCHANGED <<conf, out>>

Login ==
    /\ phase = "login"
    /\ \E env \in Envs : out' = Authenticate(method.val, env)
    /\ phase' = "done"
    /\ UNCHANGED <<conf, method>>

Next == New \/ Login

Spec == Init /\ [][Next]_<<conf, phase, method, out>>

\* NewAWSAuthMethod accepts exactly the configs whose present keys all
\* have the key's Go type, and the method it returns holds each present
\* key's value, the zero value for an absent one.
ConfigRead ==
    phase # "new" =>
        /\ method.ok <=> conf.present /\ \A k \in DOMAIN conf.config : conf.config[k].type = KeyType[k]
        /\ method.ok => \A k \in DOMAIN KeyType :
              LET f == [region |-> "region", use_global_endpoint |-> "useGlobalEndpoint",
                        server_id |-> "serverId", role |-> "role"][k]
              IN  method.val[f] = IF k \in DOMAIN conf.config THEN conf.config[k].val
                                  ELSE ZeroValue[KeyType[k]]

\* Every login Authenticate returns lets OpenBao replay a request STS
\* accepts, posted to the method's mount, with the configured role.
LoginAccepted ==
    out.ok =>
        /\ StsAccepts(Replay(out.val.payload))
        /\ out.val.path = <<method.val.mountPath, "/login">>
        /\ out.val.payload.role = method.val.role
=============================================================================
