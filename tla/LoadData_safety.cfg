SPECIFICATION Spec
CONSTANTS
  Countries = {AT, DE}
  ExtraCountry = AT
  TTL = 1
  NoRow = NoRow  NoDb = NoDb  NoZip = NoZip
  MaxNow = 3
INVARIANTS TypeOK NeverEmptyWithCache FreshMeansConfigured FreshIsTwoTTLs LastUpdatedIsHonest
 
