SPECIFICATION StalledSpec
CONSTANTS
    Invocations = {1, 2}
    MaxHops = 3
    Keys = {"k1", "k2"}
    HopIds <- MCHopIds
    Urls <- MCUrls
    HostOf <- MCHostOf
    OriginOf <- MCOriginOf
    Addresses <- MCAddresses
    MetadataNames = {"metadata"}
    Faults = {"HOST", "SWAP", "SPELLING", "DIAL", "VOUCH", "TLS", "RESPONSE", "DEATH", "LOSE", "CRASH"}
    Calls <- MCCalls
    Covered <- MCCovered
    GrantRequests = 3
    CredentialAt = {"home:443", "away:443"}
    SecretUse = TRUE
    AddressRules = {"home:443"}
    DeniedAddresses <- MCDenied
    TaintDenied = {"home:8443"}
    Budget <- MCBudget
INVARIANT FailedSentNothing
CHECK_DEADLOCK FALSE
