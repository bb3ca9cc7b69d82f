SPECIFICATION Spec
CONSTANTS
  MaxFd = 7
  SHELL_FD_BASE = 4
  f1 = f1
  f2 = f2
  Tty = Tty
  Cap = Cap
  Closed = Closed
  Files <- MCFiles
  Redirects <- MCRedirects
  MaxRedirects = 3
  MaxDepth = 2
  MaxExecs = 1
  Captures = {TRUE, FALSE}
INVARIANTS RedirTypeOK NoCopiesLeft
PROPERTIES RestoredOnEnd ExecPermanent
CONSTRAINT Untangled
