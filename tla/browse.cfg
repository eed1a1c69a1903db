SPECIFICATION BrowseSpec
CONSTANTS
  Special <- SomeSpecial
  Kept <- SomeKept
  Narrow <- SomeNarrow
  Words <- SomeWords
  Shas = {"0123456789abcdef0123456789abcdef01234567"}
  Names <- SomeNames
  Pattern <- SomePattern
  Indexes <- SomeIndexes
  Typed <- SomeUrls
  Uploads = {"n"}
  Directories <- SomeDirectories
  MaxRepos = 2
INVARIANTS
  BrowseTypeOK
  LinksLead
  Reachable
  FormLands
