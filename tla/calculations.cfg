\* The computing requests over bounded inputs; 1000 parts to a whole keep every
\* product within the 32-bit integers of TLC.
SPECIFICATION Spec
CONSTANTS
  Unknown = Unknown NoRole = NoRole NoPublisher = NoPublisher
  NoFee = NoFee NoAmount = NoAmount Unstated = Unstated Nobody = Nobody NoValue = NoValue NoBound = NoBound
  Unit = 1000
  Chunk = 2
  Agreement <- MCAgreement
  Split <- MCSplit
  Works <- MCWorks
  Catalogues <- MCCatalogues
  Statements <- MCStatements
  Claims <- MCClaims
  Codes <- MCCodes
  Listings <- MCListings
  Streams <- MCStreams
  Tagged <- MCTagged
  PublisherSocieties <- MCSocieties
  Repertoires <- MCRepertoires
  Batches <- MCBatches
  Desks <- MCDesks
  PageRows = 2
  Absent = 99
  Hits = 2
INVARIANTS RegistrationFileSound TransferKeepsWorks PaidInFull OwnershipSound MisreadingsCaught PlaybackHonest TagsHonest ExportsHonest AlbumsTogether ListingsHonest
