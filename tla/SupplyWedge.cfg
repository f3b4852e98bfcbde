SPECIFICATION Spec
CONSTANTS
  Repos <- WorldRepos
  Buildable = {"able", "near"}
  Near = {"near"}
  Refused = {}
  Owner <- WorldOwner
  Family <- WorldOwner
  OwnerLimit = 1
  ReviewLimit = 1
  Catalog = {}
  Known = {"near"}
  Focused <- WorldFocused
  Broad = "broad"
  Pages = 2
  Listing <- WorldListing
  BacklogLimit = 1
  Attempts = 1
  MaxChanges = 0
  MaxFaults = 1
  MaxPlans = 0
PROPERTIES SupplyRecovers
