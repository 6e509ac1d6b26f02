SPECIFICATION FairSpec
CONSTANTS
  None = None
  jpg = jpg
  png = png
  hid = hid
  u1 = u1
  u2 = u2
  u3 = u3
  r1 = r1
  r2 = r2
  Slots = {"member", "spouse"}
  Uploads = {u1, u2, u3}
  Files = {jpg, png, hid}
  Entered = {png}
  Unshared = {hid}
  Limit = 1
  Offset = 0
  Ext <- Extensions
  Requests = {r1, r2}
  Ops = {"upload", "profile", "remove", "delete", "link", "media", "batch", "single"}
  Settings <- Remote
  Deployments <- OneUploaded
  MaxCalls = 2
  MaxFaults = 1
CHECK_DEADLOCK FALSE
INVARIANTS NoDangling
PROPERTIES ReplacedFirst Copied
