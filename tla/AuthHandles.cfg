SPECIFICATION HandlesSpec
CONSTANTS
  Clients = {c1}
  Uids = {0, 1}
  Gids = {5}
  MaxHandles = 3
INVARIANTS AuthorityConfined
