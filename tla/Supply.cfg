SPECIFICATION Spec
CONSTANTS
  Repos <- WorldRepos
  Buildable = {"able", "near"}
  Near = {"near"}
  Refused = {}
  Owner <- WorldOwner
  Family <- WorldOwner
  OwnerLimit = 1
  ReviewLimit = 1
  Catalog = {"broken"}
  Known = {"near"}
  Focused <- WorldFocused
  Broad = "broad"
  Pages = 2
  Listing <- WorldListing
  BacklogLimit = 1
  Attempts = 2
  MaxChanges = 1
  MaxFaults = 1
  MaxPlans = 1
INVARIANTS TypeOK JobsProven OneCampaign
