SPECIFICATION CollectSpec
CONSTANTS
  k1 = k1
  k2 = k2
  k3 = k3
  k4 = k4
  p1 = p1
  p2 = p2
  p3 = p3
  KeyIds = {k1, k2, k3, k4}
  NoSpec = NoSpec
  AnySlot = AnySlot
  Unsafe = Unsafe
  MaxUpload = 4
  MaxMember = 3
  MaxTotal = 5
  MaxEntries = 2
  Chunk = 2
  MaxLines = 3
  MaxPacket = 12
  RecvSize = 4
  Table <- MCTable
  UsedLists = {1, 3}
  PathScanners = {"source", "config"}
  Names = {"RSA", "MD5", "SHA-1", "AES", "ML-DSA", "openssl", "P", "p", "q", "hashlib", "Crypto", "rsa", "OPENSSL", "PYOPENSSL", "x25519", "DH", "ECDH", "3DES", "SSH-2.0", "IPsec", "OpenVPN", "S/MIME", "TLSv1.0", "TLSv1.2", "ML-KEM"}
  Sizes = {2048, 4096}
  Params = {"curve", "material", "ECB", "GCM", "ML-KEM", "x25519"}
  Libraries <- MCLibraries
  Places <- MCPlaces
  Methods = {"parse", "import-attribution", "python-ast", "pattern", "config", "manifest-parse"}
  CallRules <- MCCallRules
  SizeArg <- MCSizeArg
  ModeRules <- MCModeRules
  Endings <- MCEndings
  Families <- MCFamilies
  Matches <- MCMatches
  Rules = 2
  Means <- MCMeans
  PqcKems = {"ML-KEM"}
  Agreements = {"DH", "ECDH"}
  Exposes <- MCExposes
  PartOf <- MCPartOf
  NotAModule = {"self"}
  Unnamed = Unnamed
  Prints = {p1, p2, p3}
  LowerCase <- MCLowerCase
  Providers = {"P", "p", "q", "hashlib", "Crypto", "rsa", "AES"}
  None = None
  Absent = Absent
  Jobs <- ExposedJobs
INVARIANT ExposuresListed
