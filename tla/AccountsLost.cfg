SPECIFICATION SplitSpec
CONSTANT Account = {a1, a2}
INVARIANT AccountsMoved
