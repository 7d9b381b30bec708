SPECIFICATION Spec
CONSTANTS
  Uploads = {u1}
  Kinds <- LargeKinds
  Hole = Hole
INVARIANT DownloadedAsUploaded
