SPECIFICATION Spec
CONSTANTS
  Chars <- MCChars
  OtherCountry = "XK"
  Postcodes <- MCPostcodes
  Typed <- MCTyped
  FileForm <- MCFileForm
INVARIANTS EverySpellingIsFound FoundIsMeant ValidIsTaken
