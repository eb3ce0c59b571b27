\* The token fetcher run once per boot, across two boots; every call may
\* fail.
\* OpenBao may leave the login unanswered; the program's own steps are
\* weakly fair.
CONSTANTS
    Regions <- MCRegions
    Creds <- MCCreds
    Tokens <- TwoTokens
    RunsPerBoot = 1
    MaxReboots = 2
SPECIFICATION FairSpec
INVARIANT TypeOK
INVARIANT ReaderSeesIssuedToken
INVARIANT ExitZeroLeavesToken
INVARIANT LoginCarriesSignedRequest
PROPERTY RunEndsOrAwaitsLogin
