CONSTANTS
    r1 = r1
    r2 = r2
    patA = patA
    patB = patB
    keyA = keyA
    keyB = keyB
    alice = alice
    bob = bob
    NoLogin = NoLogin
    Requests = {r1, r2}
    Tokens = {patA, patB}
    Keys = {keyA, keyB}
    Logins = {alice, bob}
    LoginOf <- Owners
    Digest <- Digests
    TTL = 2
    Timeout = 2
    MaxTime = 4
SPECIFICATION Spec
INVARIANTS RunsAsTokenOwner OnlyFreshTokens
PROPERTIES EntriesLastLonger
