------------------------------ MODULE AwsLogin ------------------------------
(***************************************************************************)
(* The OpenBao AWS IAM login request, as the token fetcher                  *)
(* (src/code/openbao/auth/aws/main.go) and the agent auth method           *)
(* (src/command/agentproxyshared/auth/aws/aws.go) build it: a signed       *)
(* sts:GetCallerIdentity request whose url, body and headers travel,        *)
(* JSON and base64 encoded, in the login payload, for OpenBao to replay     *)
(* against STS.                                                             *)
(*                                                                          *)
(* Data is abstracted to what the login depends on: a header is a function *)
(* from canonical names to sequences of values; a url is its host; a       *)
(* hash, a signature, a JSON document and a base64 string are records that *)
(* keep what they were made from, so decoding them is exact.  The SDK's    *)
(* signer (library code) is reduced to the headers it adds.                *)
(***************************************************************************)
EXTENDS Naturals, Sequences, FiniteSets

\* The bytes "Action=GetCallerIdentity&Version=2011-06-15": main.go's
\* literal, and aws.go's url.Values{Action, Version}.Encode().
StsBody == "Action=GetCallerIdentity&Version=2011-06-15"

\* "sts." + region + ".amazonaws.com", and the global sts.amazonaws.com,
\* each with the region STS expects a request to it to be signed for.
StsHost(region) == [name |-> region, region |-> region]
GlobalStsHost == [name |-> "global", region |-> "us-east-1"]
StsUrl(host) == [scheme |-> "https", host |-> host]

\* textproto.CanonicalMIMEHeaderKey on the names the code uses.
CanonicalKey(k) ==
    IF k = "X-Vault-AWS-IAM-Server-ID" THEN "X-Vault-Aws-Iam-Server-Id" ELSE k

\* http.Header.Add and http.Header.Set.
HeaderAdd(h, k, v) ==
    LET ck == CanonicalKey(k) IN
    [n \in DOMAIN h \cup {ck} |-> IF n = ck THEN (IF ck \in DOMAIN h THEN Append(h[n], v) ELSE <<v>>)
                                  ELSE h[n]]
HeaderSet(h, k, v) ==
    LET ck == CanonicalKey(k) IN [n \in DOMAIN h \cup {ck} |-> IF n = ck THEN <<v>> ELSE h[n]]

\* sha256.Sum256 then hex.EncodeToString.
PayloadHash(body) == [sha256 |-> body]

(***************************************************************************)
(* v4.Signer.SignHTTP (library code): it sets X-Amz-Date, the session      *)
(* token of temporary credentials, and an Authorization header naming the  *)
(* credentials, the credential scope (region, service), the headers it     *)
(* signed and the payload hash it was given.                               *)
(***************************************************************************)
SignHTTP(h, creds, hash, service, region, host) ==
    LET dated  == HeaderSet(h, "X-Amz-Date", "now")
        tokened == IF creds.session THEN HeaderSet(dated, "X-Amz-Security-Token", creds)
                   ELSE dated
        auth == [creds |-> creds.key, region |-> region, service |-> service,
                 signed |-> DOMAIN tokened \cup {"Host"}, hash |-> hash, host |-> host]
    IN  HeaderSet(tokened, "Authorization", auth)

\* The header map of authenticate (main.go) and Authenticate (aws.go):
\* a header with no value is left out, one value is a JSON string, more
\* are a JSON list.
HeaderMap(h) ==
    [k \in {n \in DOMAIN h : Len(h[n]) > 0} |->
        IF Len(h[k]) = 1 THEN [str |-> h[k][1]] ELSE [list |-> h[k]]]

\* json.Marshal and base64.StdEncoding.EncodeToString.
Json(v) == [json |-> v]
Base64(v) == [b64 |-> v]

(***************************************************************************)
(* What OpenBao does with a login (external): it base64 and JSON decodes   *)
(* the fields and rebuilds the request it sends to STS, adding each        *)
(* header value with Header.Add.                                           *)
(***************************************************************************)
ParseHeaders(m) ==
    [k \in DOMAIN m |-> IF "str" \in DOMAIN m[k] THEN <<m[k].str>> ELSE m[k].list]
Replay(payload) ==
    [url |-> payload.iam_request_url.b64, body |-> payload.iam_request_body.b64,
     headers |-> ParseHeaders(payload.iam_request_headers.b64.json)]

\* STS accepts a replayed request when it carries an Authorization whose
\* scope names the region of the host it is sent to, whose signed headers
\* are all present, and whose payload hash is the body's.
StsAccepts(req) ==
    /\ "Authorization" \in DOMAIN req.headers
    /\ LET auth == req.headers["Authorization"][1] IN
          /\ auth.host = req.url.host
          /\ auth.region = req.url.host.region
          /\ auth.service = "sts"
          /\ auth.signed \subseteq DOMAIN req.headers \cup {"Host"}
          /\ auth.hash = PayloadHash(req.body)
=============================================================================
