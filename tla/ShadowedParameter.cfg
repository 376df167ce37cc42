SPECIFICATION MCSpec
CONSTANTS
  TypeIds = {"int4", "text", "jsonb", "point", "email", "login", "nick", "code", "codes", "points", "state"}
  TableIds = {"users", "orgs", "audit", "new"}
  NoType = "no type"
  NoTable = "no table"
  Schemas <- AllSchemas
  MaxRounds = 2
  MaxChanges = 0
  Files <- Naming
  Words <- AllWords
  Mapped <- AllMapped
  Renames <- AllRenames
  Initial <- FirstLetters
CHECK_DEADLOCK FALSE
INVARIANT ReservedFirst
