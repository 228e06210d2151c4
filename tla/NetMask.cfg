SPECIFICATION MaskSpec
CONSTANT OctetBits = 3
INVARIANTS InstalledAsConfigured AcceptsExactlyPrefixes
