CONSTANTS
    None = None
    Secrets = {s1}
    Typed <- MCTyped
    MaxLen = 4
    MaxIssuerLen = 2
SPECIFICATION Spec
INVARIANT NoEmptyToken
