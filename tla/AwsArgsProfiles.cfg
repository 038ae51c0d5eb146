\* Every argument list of up to 3 tokens.
CONSTANT MaxArgs = 3
SPECIFICATION Spec
INVARIANT AcceptedArgsHaveProfiles
