------------------------------ MODULE AwsAgent ------------------------------
(***************************************************************************)
(* The AWS auth method of the OpenBao agent and proxy                      *)
(* (src/command/agentproxyshared/auth/aws/aws.go).  NewAWSAuthMethod reads *)
(* the optional keys region, use_global_endpoint, server_id and role of    *)
(* the method's config map; Authenticate builds the login the agent posts  *)
(* to <mount path>/login: it loads the AWS config (the configured region,  *)
(* or the one IMDS reports), takes the instance role's credentials from    *)
(* IMDS, resolves the STS endpoint, and signs sts:GetCallerIdentity.       *)
(*                                                                          *)
(* A config is a record: present is FALSE for a nil *AuthConfig; config   *)
(* is the Config map, a nil map being the empty one (no key is found in    *)
(* either); a value is a record [type, val] for the Go type it decoded to. *)
(***************************************************************************)
EXTENDS AwsLogin

Ok(v) == [ok |-> TRUE, val |-> v]
Err(e) == [ok |-> FALSE, val |-> e]

\* The keys NewAWSAuthMethod reads, the Go type each must have, and the
\* awsMethod field's zero value when the key is absent.
ConfigKeys == <<"region", "use_global_endpoint", "server_id", "role">>
KeyType == [region |-> "string", use_global_endpoint |-> "bool",
            server_id |-> "string", role |-> "string"]
ZeroValue == [string |-> "", bool |-> FALSE]

\* The positions, in the code's order, of the keys present with another type.
BadKeys(m) == {i \in 1..4 : ConfigKeys[i] \in DOMAIN m /\ m[ConfigKeys[i]].type # KeyType[ConfigKeys[i]]}

\* Variant: the role value is not type-checked; a non-string reads as "".
NewAWSAuthMethodRoleUnchecked(conf) ==
    LET m == conf.config
        bad == {i \in 1..3 : ConfigKeys[i] \in DOMAIN m /\ m[ConfigKeys[i]].type # KeyType[ConfigKeys[i]]}
        Field(k) == IF k \in DOMAIN m /\ m[k].type = KeyType[k] THEN m[k].val ELSE ZeroValue[KeyType[k]]
    IN  CASE ~conf.present -> Err("empty config")
          [] bad # {} -> Err(ConfigKeys[CHOOSE i \in bad : \A j \in bad : i <= j])
          [] OTHER -> Ok([mountPath |-> conf.mountPath, region |-> Field("region"),
                          useGlobalEndpoint |-> Field("use_global_endpoint"),
                          serverId |-> Field("server_id"), role |-> Field("role")])

\* NewAWSAuthMethod: an error for a nil config, or naming the first key
\* whose value has the wrong type; otherwise the method, with the zero
\* value for every absent key.
NewAWSAuthMethod(conf) ==
    LET m == conf.config
        bad == BadKeys(m)
        Field(k) == IF k \in DOMAIN m THEN m[k].val ELSE ZeroValue[KeyType[k]]
    IN  CASE ~conf.present -> Err("empty config")
          [] bad # {} -> Err(ConfigKeys[CHOOSE i \in bad : \A j \in bad : i <= j])
          [] OTHER -> Ok([mountPath |-> conf.mountPath, region |-> Field("region"),
                          useGlobalEndpoint |-> Field("use_global_endpoint"),
                          serverId |-> Field("server_id"), role |-> Field("role")])

\* loadConfig: the configured region, else the region IMDS reports
\* ("" when IMDS cannot tell).
LoadConfig(region, imdsRegion) == IF region # "" THEN region ELSE imdsRegion

\* retrieveImdsCredentials: ec2rolecreds through a credentials cache.
RetrieveImdsCredentials(env) == IF env.credsOk THEN Ok(env.creds) ELSE Err("imds")

(***************************************************************************)
(* resolveStsEndpoint: the SDK's STS endpoint rules (library code).  With  *)
(* UseGlobalEndpoint, a region of the legacy global set resolves to        *)
(* sts.amazonaws.com, whose signing region is us-east-1; every other       *)
(* region resolves to its regional endpoint; no region is an error.        *)
(***************************************************************************)
LegacyGlobalRegions ==
    {"ap-northeast-1", "ap-south-1", "ap-southeast-1", "ap-southeast-2", "ca-central-1",
     "eu-central-1", "eu-north-1", "eu-west-1", "eu-west-2", "eu-west-3", "sa-east-1",
     "us-east-1", "us-east-2", "us-west-1", "us-west-2"}
ResolveStsEndpoint(region, useGlobalEndpoint) ==
    CASE region = "" -> Err("Missing Region")
      [] useGlobalEndpoint /\ region \in LegacyGlobalRegions -> Ok(StsUrl(GlobalStsHost))
      [] OTHER -> Ok(StsUrl(StsHost(region)))

\* Variant: the request is signed for us-east-1 whatever the region.
LoginRequestUsEast(j, region, cr, endpoint) ==
    LET hash == PayloadHash(StsBody)
        h == HeaderSet(HeaderSet(HeaderSet(HeaderSet(<<>>,
                 "Host", endpoint.host),
                 "Content-Type", "application/x-www-form-urlencoded; charset=utf-8"),
                 "X-Vault-AWS-IAM-Server-ID", j.serverId),
                 "X-Amz-Content-Sha256", hash)
        signed == SignHTTP(h, cr, hash, "sts", "us-east-1", endpoint.host)
    IN  [path |-> <<j.mountPath, "/login">>,
         header |-> [n \in {"Content-Type"} |-> <<"application/json">>],
         payload |-> [role |-> j.role, iam_http_request_method |-> "POST",
                      iam_request_url |-> Base64(endpoint), iam_request_body |-> Base64(StsBody),
                      iam_request_headers |-> Base64(Json(HeaderMap(signed)))]]

\* Authenticate after its three fallible calls: the signed request's
\* headers, the header map, and the login path, header and payload.
\* The request is signed for cfg.Region.
LoginRequest(j, region, cr, endpoint) ==
    LET hash == PayloadHash(StsBody)
        h == HeaderSet(HeaderSet(HeaderSet(HeaderSet(<<>>,
                 "Host", endpoint.host),
                 "Content-Type", "application/x-www-form-urlencoded; charset=utf-8"),
                 "X-Vault-AWS-IAM-Server-ID", j.serverId),
                 "X-Amz-Content-Sha256", hash)
        signed == SignHTTP(h, cr, hash, "sts", region, endpoint.host)
    IN  [path |-> <<j.mountPath, "/login">>,
         header |-> [n \in {"Content-Type"} |-> <<"application/json">>],
         payload |-> [role |-> j.role, iam_http_request_method |-> "POST",
                      iam_request_url |-> Base64(endpoint), iam_request_body |-> Base64(StsBody),
                      iam_request_headers |-> Base64(Json(HeaderMap(signed)))]]

\* (j *awsMethod) Authenticate, given what the environment answers: env.load
\* is whether LoadDefaultConfig succeeds, env.imdsRegion the region IMDS
\* reports ("" if none), env.credsOk whether IMDS gives credentials and
\* env.creds the credentials it gives.
Authenticate(j, env) ==
    LET region == LoadConfig(j.region, env.imdsRegion)
        cr == RetrieveImdsCredentials(env)
        ep == ResolveStsEndpoint(region, j.useGlobalEndpoint)
    IN  CASE ~env.load -> Err("failed to load AWS config")
          [] ~cr.ok -> Err("failed to retrieve credentials from IMDS")
          [] ~ep.ok -> Err("failed to resolve STS endpoint")
          [] OTHER -> Ok(LoginRequest(j, region, cr.val, ep.val))
=============================================================================
