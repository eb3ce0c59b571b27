\* The token fetcher run twice in one boot, to renew the token.
CONSTANTS
    Regions <- MCRegions
    Creds <- MCCreds
    Tokens <- OneToken
    RunsPerBoot = 2
    MaxReboots = 0
SPECIFICATION Spec
INVARIANT ReaderSeesIssuedToken
