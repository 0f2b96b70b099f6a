SPECIFICATION Spec
CONSTANTS
  WINDOW_SIZE = 2
  Posts <- ServerPosts
INVARIANT MismatchIsRepaired
