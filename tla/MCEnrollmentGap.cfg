CONSTANTS
    r1 = r1  r2 = r2  r3 = r3  a1 = a1  a2 = a2
    Registrations = {r1, r2, r3}  Actions = {a1}
    Handle <- Handles  Owner <- Owners  AccountNonce <- SameNonce  Deadline <- Deadlines
    Codes = {c1}  NoCode = NoCode  NoIntent = NoIntent
    Requests = {q1, q2}
    MaxStored = 2  MaxTime = 2
SPECIFICATION Spec
INVARIANTS SignedIsSent
CHECK_DEADLOCK FALSE
