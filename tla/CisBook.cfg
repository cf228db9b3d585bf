SPECIFICATION Spec
CONSTANTS
  Books <- CommentBooks
  Base = 4
INVARIANT BooksTaken
CHECK_DEADLOCK FALSE
