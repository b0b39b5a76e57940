\* A warm verifier goes on accepting v3 tokens of a retired key.
CONSTANTS
  p1 = p1
  p2 = p2
  ed = ed
  alias = alias
  v1 = v1
  foot = foot
  NoKey = NoKey
  NoRef = NoRef
  NoFooter = NoFooter
  s1 = s1
  Keys <- MCKeys
  SpecOf <- MCSpecOf
  KeyRefs = {alias}
  Signers = {s1}
  Verifiers = {v1}
  Skew <- MCSkew
  Configs <- MCConfigs
  SourceArgs = {"none", "kms", "env", "typo"}
  Extras = {"other"}
  Footers = {foot}
  AccessSeconds = 1
  RefreshSeconds = 2
  CustomSeconds = {0}
  MaxTime = 2
  MaxRotations = 2
  MaxTokens = 1
  Base = 4
  Width = 2
  EdPrefix <- MCEdPrefix
  EdLen = 2
  P384Prefix <- MCP384Prefix
  OnCurve <- MCOnCurve
  V3_HEADER <- MCV3
  V4_HEADER <- MCV4
SPECIFICATION Spec
INVARIANT RotationIsImmediate
SYMMETRY MCSymmetry
