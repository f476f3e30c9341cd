SPECIFICATION Spec
CONSTANTS
  Forms <- MCForms
  Certificates <- MCCertificates
  IsUtf8 <- MCIsUtf8
INVARIANTS
  XInv
  NamesAsMeant
PROPERTY
  WalkDescends
