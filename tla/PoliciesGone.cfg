CONSTANTS
  Ban = ban
  t1 = t1
  t2 = t2
  Tweaks <- MCTweaks
  Order <- MCOrder
  Helped <- MCHelped
  Shims = {npm}
  Undecodable <- MCBadZshrc
  MaxFailures = 0
  MaxActions = 1
  None = None
SPECIFICATION Spec
CHECK_DEADLOCK FALSE
INVARIANT NeverSilentlyGone
