CONSTANTS
  Session = {s1, s2, s3}
SPECIFICATION ProviderSpec
INVARIANTS DelegationEnds DeviceLostOnlyToAnother
