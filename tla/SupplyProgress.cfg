SPECIFICATION Spec
CONSTANTS
  Repos <- LargerWorldRepos
  Buildable = {"able", "near", "behind"}
  Near = {"near"}
  Refused = {}
  Owner <- WorldOwner
  Family <- WorldOwner
  OwnerLimit = 1
  ReviewLimit = 1
  Catalog = {}
  Known = {"near"}
  Focused <- WorldFocused
  Broad = "broad"
  Pages = 2
  Listing <- WorldListing
  BacklogLimit = 1
  Attempts = 1
  MaxChanges = 1
  MaxFaults = 1
  MaxPlans = 0
PROPERTIES Supplied
