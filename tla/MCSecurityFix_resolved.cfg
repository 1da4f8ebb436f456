SPECIFICATION Spec
CONSTANTS
  krb = krb
  ssl = ssl
  libkrb = libkrb
  krbtools = krbtools
  libssl = libssl
  Sources <- MCSources
  Binaries <- MCBinaries
  SourceOf <- MCSourceOf
  NCves = 2
  Cve <- MCCve
  NUsns = 3
  Usn <- MCUsn
  Top = 3
  Installs <- MCInstalls
  MaxFixes = 2
INVARIANT EnabledMeansFixed
CHECK_DEADLOCK FALSE
