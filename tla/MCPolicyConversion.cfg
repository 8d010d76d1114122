SPECIFICATION Spec
CONSTANTS
  Orgs = {o1, o2}
  Pending = Pending
  Rejected = Rejected
  PrincipalBytes <- MCPrincipalBytes
INVARIANTS
  OrganizationsAgree
  AcceptsAsSource
  SupportedIsConverted
