SPECIFICATION Spec
CONSTANTS
  Uploads = {u1, u2}
  Kinds <- PlainKinds
  Hole = Hole
INVARIANTS
  AcknowledgedIsStored
  DownloadedAsUploaded
