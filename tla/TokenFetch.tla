----------------------------- MODULE TokenFetch -----------------------------
(***************************************************************************)
(* The OpenBao token fetcher (src/code/openbao/auth/aws/main.go): one run  *)
(* loads the AWS config with the IMDS region, gets the instance role's     *)
(* credentials from IMDS, signs an sts:GetCallerIdentity request, logs in  *)
(* to OpenBao with it, and writes the client token to /run/openbao/token:  *)
(* OpenFile(O_CREATE|O_WRONLY|O_TRUNC, 0640), WriteString, then Fchown to  *)
(* group 999.  Every error is log.Fatalf: the process exits at once, and   *)
(* the file stays as far as the run got.                                   *)
(*                                                                          *)
(* The program may run more than once per boot (RunsPerBoot), one run at a *)
(* time; /run is a tmpfs, so a reboot (at most MaxReboots) removes the     *)
(* file.  A reader, a process of group 999 that is not the file's owner,   *)
(* opens and reads the file at any time.                                   *)
(***************************************************************************)
EXTENDS AwsLogin, TLC

CONSTANTS
    Regions,      \* regions IMDS may report
    Creds,        \* instance role credentials IMDS may return
    Tokens,       \* client tokens OpenBao may issue; "" is a 200 without auth.client_token
    RunsPerBoot,  \* runs of the program between two boots
    MaxReboots

\* The process's group (root) and the group the file is handed to.
RootGroup == 0
TokenGroup == 999

\* The HTTP answers of the login: an error of client.Do, a status other
\* than 200, a failed body read, a body that is not JSON, or a token.
Failures == {"transport", "status", "read", "json"}
Responses == Failures \cup Tokens

NoCreds == [key |-> "none", session |-> FALSE]

\* A read the open refused, with the errno.
Refused(e) == [ok |-> FALSE, data |-> e]

NoFile == [exists |-> FALSE, data |-> "", group |-> RootGroup, mode |-> 416]

VARIABLES
    pc,       \* the run's next step, or how it ended
    cfg,      \* the loaded config's region
    creds,    \* the credentials from IMDS
    sig,      \* the headers getSigV4Headers returned
    sent,     \* the login payloads this run sent to OpenBao (at most one)
    token,    \* the token authenticate returned
    file,     \* /run/openbao/token
    runs,     \* runs started this boot
    reboots,
    issued,   \* tokens OpenBao has returned
    seen      \* the reader's last read: the content, or the open's errno

vars == <<pc, cfg, creds, sig, sent, token, file, runs, reboots, issued, seen>>

Exited == {"idle", "exit0", "fatal"}

Init ==
    /\ pc = "idle" /\ cfg = "none" /\ creds = NoCreds /\ sig = <<>> /\ sent = {}
    /\ token = "none" /\ file = NoFile /\ runs = 0 /\ reboots = 0 /\ issued = {}
    /\ seen = Refused("enoent")

Fatal == pc' = "fatal"

\* The program is started again.
Start ==
    /\ pc \in Exited /\ runs < RunsPerBoot
    /\ pc' = "config" /\ runs' = runs + 1
    /\ cfg' = "none" /\ creds' = NoCreds /\ sig' = <<>> /\ sent' = {} /\ token' = "none"
    /\ UNCHANGED <<file, reboots, issued, seen>>

\* config.LoadDefaultConfig(ctx, config.WithEC2IMDSRegion()).
LoadConfig ==
    /\ pc = "config"
    /\ \/ \E r \in Regions : cfg' = r /\ pc' = "creds"
       \/ Fatal /\ UNCHANGED cfg
    /\ UNCHANGED <<creds, sig, sent, token, file, runs, reboots, issued, seen>>

\* getImdsCredentials: ec2rolecreds through a credentials cache.
GetImdsCredentials ==
    /\ pc = "creds"
    /\ \/ \E c \in Creds : creds' = c /\ pc' = "sign"
       \/ Fatal /\ UNCHANGED creds
    /\ UNCHANGED <<cfg, sig, sent, token, file, runs, reboots, issued, seen>>

\* The loop of getSigV4Headers: every value of every given header, with
\* req.Header.Add.
RECURSIVE AddValues(_, _, _)
AddValues(h, k, vs) ==
    IF vs = <<>> THEN h ELSE AddValues(HeaderAdd(h, k, Head(vs)), k, Tail(vs))

RECURSIVE AddHeaders(_, _, _)
AddHeaders(h, given, ks) ==
    IF ks = {} THEN h
    ELSE LET k == CHOOSE k \in ks : TRUE
         IN  AddHeaders(AddValues(h, k, given[k]), given, ks \ {k})

\* Variant: the request is not signed; the headers come back as added.
GetSigV4HeadersUnsigned(region, cr, service, url, body, headers) ==
    HeaderSet(AddHeaders(<<>>, headers, DOMAIN headers), "X-Amz-Content-Sha256", PayloadHash(body))

\* getSigV4Headers: the given headers added, the payload hash set, then
\* the request signed for cfg.Region; req.Header is returned.
GetSigV4Headers(region, cr, service, url, body, headers) ==
    LET hashed == HeaderSet(AddHeaders(<<>>, headers, DOMAIN headers),
                            "X-Amz-Content-Sha256", PayloadHash(body))
    IN  SignHTTP(hashed, cr, PayloadHash(body), service, region, url.host)

\* main: the http.Header literal passed to getSigV4Headers.
StsHeaders(region) ==
    ("Host" :> <<StsHost(region)>>)
    @@ ("Content-Type" :> <<"application/x-www-form-urlencoded; charset=utf-8">>)
    @@ ("X-Vault-AWS-IAM-Server-ID" :> <<"openbao.internal.boxops.co.uk">>)

Sign ==
    /\ pc = "sign"
    /\ \/ /\ sig' = GetSigV4Headers(cfg, creds, "sts", StsUrl(StsHost(cfg)), StsBody,
                                    StsHeaders(cfg))
          /\ pc' = "auth"
       \/ Fatal /\ UNCHANGED sig
    /\ UNCHANGED <<cfg, creds, sent, token, file, runs, reboots, issued, seen>>

\* authenticate's payload: role identity-app, the url, body and the
\* header map, each base64 encoded.
LoginPayload(url, body, headers) ==
    [role |-> "identity-app", iam_http_request_method |-> "POST",
     iam_request_url |-> Base64(url), iam_request_body |-> Base64(body),
     iam_request_headers |-> Base64(Json(HeaderMap(headers)))]

\* authenticate up to client.Do: the POST to v1/auth/aws/login is sent;
\* &http.Client{} has no Timeout and ctx is context.Background(), so the
\* run waits for OpenBao's answer with nothing to end the wait.
PostLogin ==
    /\ pc = "auth"
    /\ sent' = {LoginPayload(StsUrl(StsHost(cfg)), StsBody, sig)}
    /\ pc' = "await"
    /\ UNCHANGED <<cfg, creds, sig, token, file, runs, reboots, issued, seen>>

\* Variant: the status code is not checked; an error body has no
\* auth.client_token, so the token is "".
LoginAnswerStatusUnchecked ==
    /\ pc = "await"
    /\ \E resp \in Responses :
          CASE resp \in {"transport", "read", "json"} -> Fatal /\ UNCHANGED <<token, issued>>
            [] resp = "status" -> token' = "" /\ pc' = "open" /\ UNCHANGED issued
            [] OTHER -> token' = resp /\ issued' = issued \cup {resp} /\ pc' = "open"
    /\ UNCHANGED <<cfg, creds, sig, sent, file, runs, reboots, seen>>

\* Variant: a transport error is retried with the same request.
LoginAnswerRetry ==
    /\ pc = "await"
    /\ \E resp \in Responses :
          CASE resp = "transport" -> pc' = "auth" /\ UNCHANGED <<token, issued>>
            [] resp \in Failures -> Fatal /\ UNCHANGED <<token, issued>>
            [] OTHER -> token' = resp /\ issued' = issued \cup {resp} /\ pc' = "open"
    /\ UNCHANGED <<cfg, creds, sig, sent, file, runs, reboots, seen>>

\* authenticate from client.Do's return: the transport error, the status,
\* the body read and the JSON checks.  A 200 whose JSON has no
\* auth.client_token returns "".
LoginAnswer ==
    /\ pc = "await"
    /\ \E resp \in Responses :
          IF resp \in Failures
          THEN Fatal /\ UNCHANGED <<token, issued>>
          ELSE /\ token' = resp /\ issued' = issued \cup {resp}
               /\ pc' = "open"
    /\ UNCHANGED <<cfg, creds, sig, sent, file, runs, reboots, seen>>

\* Variant: the file is created readable by others (0644).
OpenTokenWorldReadable ==
    /\ pc = "open"
    /\ \/ /\ file' = IF file.exists THEN [file EXCEPT !.data = ""]
                     ELSE [NoFile EXCEPT !.exists = TRUE, !.mode = 420]
          /\ pc' = "write"
       \/ Fatal /\ UNCHANGED file
    /\ UNCHANGED <<cfg, creds, sig, sent, token, runs, reboots, issued, seen>>

\* os.OpenFile(O_CREATE|O_WRONLY|O_TRUNC, 0640): a new file is owned by
\* the process's group with mode 0640 (umask 022); an existing one keeps
\* its group and mode and is emptied.
OpenToken ==
    /\ pc = "open"
    /\ \/ /\ file' = IF file.exists THEN [file EXCEPT !.data = ""]
                     ELSE [NoFile EXCEPT !.exists = TRUE]
          /\ pc' = "write"
       \/ Fatal /\ UNCHANGED file
    /\ UNCHANGED <<cfg, creds, sig, sent, token, runs, reboots, issued, seen>>

\* Variant: WriteString's error is not checked.
WriteTokenUnchecked ==
    /\ pc = "write"
    /\ \/ file' = [file EXCEPT !.data = token]
       \/ UNCHANGED file
    /\ pc' = "chown"
    /\ UNCHANGED <<cfg, creds, sig, sent, token, runs, reboots, issued, seen>>

\* file.WriteString(*token).
WriteToken ==
    /\ pc = "write"
    /\ \/ file' = [file EXCEPT !.data = token] /\ pc' = "chown"
       \/ Fatal /\ UNCHANGED file
    /\ UNCHANGED <<cfg, creds, sig, sent, token, runs, reboots, issued, seen>>

\* unix.Fchown(fd, -1, 999); main returns and the process exits 0.
ChownToken ==
    /\ pc = "chown"
    /\ \/ file' = [file EXCEPT !.group = TokenGroup] /\ pc' = "exit0"
       \/ Fatal /\ UNCHANGED file
    /\ UNCHANGED <<cfg, creds, sig, sent, token, runs, reboots, issued, seen>>

\* The machine reboots: the process, if any, dies and /run is empty.
Reboot ==
    /\ reboots < MaxReboots
    /\ reboots' = reboots + 1 /\ runs' = 0
    /\ pc' = "idle" /\ file' = NoFile
    /\ UNCHANGED <<cfg, creds, sig, sent, token, issued, seen>>

\* A group-999 process opens the file for reading: rw-r----- lets the
\* owner's group in, and others only with mode 0644.
ReadToken ==
    /\ seen' = CASE ~file.exists -> Refused("enoent")
                 [] file.group = TokenGroup \/ file.mode = 420 -> [ok |-> TRUE, data |-> file.data]
                 [] OTHER -> Refused("eacces")
    /\ UNCHANGED <<pc, cfg, creds, sig, sent, token, file, runs, reboots, issued>>

Next ==
    \/ Start \/ LoadConfig \/ GetImdsCredentials \/ Sign \/ PostLogin \/ LoginAnswer
    \/ OpenToken \/ WriteToken \/ ChownToken \/ Reboot \/ ReadToken

Spec == Init /\ [][Next]_vars

\* The steps the running process takes itself.  OpenBao's answer is not
\* one of them: a server or network that never answers is a behaviour
\* the code allows.  Start, Reboot and the reader are the operator's and
\* the other process's, and need not happen.
RunSteps ==
    LoadConfig \/ GetImdsCredentials \/ Sign \/ PostLogin
    \/ OpenToken \/ WriteToken \/ ChownToken

FairSpec == Spec /\ WF_vars(RunSteps)

TypeOK ==
    /\ pc \in Exited \cup {"config", "creds", "sign", "auth", "await", "open", "write", "chown"}
    /\ cfg \in Regions \cup {"none"} /\ creds \in Creds \cup {NoCreds}
    /\ token \in Tokens \cup {"none"} /\ issued \subseteq Tokens
    /\ file.exists \in BOOLEAN /\ file.data \in Tokens \cup {""}
    /\ file.group \in {RootGroup, TokenGroup} /\ file.mode \in {416, 420}
    /\ runs \in 0..RunsPerBoot /\ reboots \in 0..MaxReboots

\* The reader never gets an empty or made-up token: whenever it can open
\* /run/openbao/token, the file holds a token OpenBao issued.  Between
\* OpenFile and WriteString the file is empty, and Fchown comes last, so
\* this rests on the order of the three calls and on the mode 0640.
ReaderSeesIssuedToken ==
    seen.ok => seen.data \in issued \ {""}

\* A run that exits 0 leaves the token it got in the file, readable by
\* group 999: every one of OpenFile, WriteString and Fchown succeeded.
ExitZeroLeavesToken ==
    pc = "exit0" => /\ file.exists /\ file.group = TokenGroup /\ file.data = token

\* The login OpenBao receives lets it replay a request STS accepts: the
\* decoded url, body and headers carry a signature for the STS host's
\* region, over headers that are all sent, with the body's hash.
LoginCarriesSignedRequest ==
    \A p \in sent : StsAccepts(Replay(p))
\* Every run either ends (exit 0, log.Fatalf, or killed by a reboot) or is
\* left waiting forever for OpenBao's answer to the login POST: every
\* other step of main ends with a result or a Fatalf, and the login is
\* the one call made with no timeout and no deadline on its context.
RunEndsOrAwaitsLogin ==
    <>[](pc \in Exited \cup {"await"})
=============================================================================
