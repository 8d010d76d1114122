SPECIFICATION MCSpec
CONSTANTS
  Names <- MCNames
  Groups <- MCGroups
  IdOf <- MCIdOf
  MspOf <- MCMspOf
  PublicOnly <- MCPublicOnly
  Targets <- MCTargets
  Offers <- MCOffers
INVARIANTS
  MembersResolved
  OnlyAdditions
  OutcomeDetermined
