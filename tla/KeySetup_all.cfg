\* Two keys, two systems of the device, setups repeated.
SPECIFICATION FairSpec
CONSTANTS
  DefaultKey = {rsa}
  OwnKey = {own}
  NoKey = NoKey
  HostKey = {h1, h2}
  NoHostKey = NoHostKey
  MaxLines = 2
INVARIANTS
  TypeOK
  FingerprintIsKnown
  RegisteredKeyWorks
PROPERTIES
  AddsOnlyRefusedKeys
  EverySetupEnds
