SPECIFICATION Spec
CONSTANTS
  Groups = {g1, g2}
  Emojis = {e1, e2}
  Channels = {c1}
  Users = {u1}
  Roles = {100, 400}
  Nil = Nil
  Missing = Missing
  Foreign = Foreign
  MaxCommands = 2
  MaxSegments = 3
  MaxEvents = 1
SYMMETRY NameSymmetry
INVARIANTS
  TypeOK
  ChainStops
  Announced
  OneAnnouncement
  EmojiUnique
  MappingsHaveRows
  NobodyStranded
PROPERTIES
  AdminOnly
  ReactionsAsShown
CHECK_DEADLOCK FALSE
