SPECIFICATION Spec
CONSTANT Sessions = {s1, s2}
INVARIANT AccountsAreMigrated
