SPECIFICATION MCSpec
CONSTANTS
  TypeIds = {"int4", "text", "jsonb", "point", "email", "login", "nick", "code", "codes", "points", "state"}
  TableIds = {"users", "orgs", "audit", "new"}
  NoType = "no type"
  NoTable = "no table"
  Schemas <- AllSchemas
  MaxRounds = 2
  MaxChanges = 1
  Files <- AllFiles
  Words <- AllWords
  Mapped <- AllMapped
  Renames <- AllRenames
  Initial <- FirstLetters
CHECK_DEADLOCK FALSE
INVARIANTS
  Closed
  ScansOwnColumn
  ColumnOverridesHonoured
  ParameterOverridesHonoured
  NullFits
  NamedForColumn
  DeclaresOnce
  NamesResolve
