\* A logout whose access token has expired.
SPECIFICATION Spec
CONSTANTS
    Users = {u1}
    Pairs = {r1, r2, r3, r4, r5, r6}
    Calls = {c1, c2}
    OneProcess = TRUE
    Faults = {"lost", "reload"}
    MaxOps = 3
    MaxFaults = 1
    None = None
INVARIANT LogoutEndsSession
