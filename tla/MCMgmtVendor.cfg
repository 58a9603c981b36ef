\* Frames of vendors and manufacturers.
SPECIFICATION Spec
CONSTANTS
  Frames <- VendorFrames
  Requests = {}
INVARIANT VendorRefused
