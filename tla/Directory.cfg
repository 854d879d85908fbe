SPECIFICATION MCSpec
CONSTANTS
  a = a  b = b  d = d
  need = need  wish = wish
  NoAgent = NoAgent
  Agents = {a, b, d}
  Calls = {c1}
  Capabilities = {need, wish}
  Cards <- MCCards
  Active = {b, d}
  Meetings <- MCMeetings
  Wants <- MCWants
  Required = {need}
  Preferred = {wish}
  MaxRooms = 3
INVARIANT DirectoryTypeOK
PROPERTIES NoNeedlessRoom RouteServes
