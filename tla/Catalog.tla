------------------------------- MODULE Catalog -------------------------------
(***************************************************************************)
(* What pgc reads of the system catalogs (src/internal/catalog/catalog.go):*)
(* Load asks for the tables its queries touch, for their columns, for the  *)
(* types, round after round until every element and base type is there,    *)
(* and for the labels of the enums.  Each is a query of its own, and the   *)
(* schema may change between any two.                                      *)
(***************************************************************************)
EXTENDS Integers, Sequences

CONSTANTS
  TypeIds, TableIds,
  NoType,      \* no element, no base
  Schemas,     \* bound: the schemas the database may have
  MaxRounds,   \* 8 in the code
  MaxChanges   \* bound: changes of the schema behind pgc's back

VARIABLES
  schema,      \* what the database has: its types and its tables
  changes,
  load,        \* the query Load is about to send
  wanted,      \* the types and tables it was asked for
  tables,      \* Catalog.tables
  types,       \* Catalog.types
  enums,       \* Catalog.enums
  pending,     \* the types of the next round
  round

dbVars == <<schema, changes>>
loadVars == <<load, wanted, tables, types, enums, pending, round>>
catalogVars == <<dbVars, loadVars>>

\* A type has a kind ("base", "enum", "domain" or "array"), the types it
\* refers to and its labels; a table has its columns, in attnum order.
Type == [kind : STRING, elem : TypeIds \cup {NoType}, base : TypeIds \cup {NoType},
         labels : Seq(STRING)]
Column == [name : STRING, attnum : Nat, type : TypeIds, notnull : BOOLEAN]
Table == [schema : STRING, name : STRING, columns : Seq(Column)]

Maps(f, D, R) == DOMAIN f \subseteq D /\ f \in [DOMAIN f -> R]
Empty == [x \in {} |-> x]

ASSUME CatalogAssumption ==
  /\ \A s \in Schemas : Maps(s.types, TypeIds, Type) /\ Maps(s.tables, TableIds, Table)
  /\ NoType \notin TypeIds
  /\ MaxRounds \in Nat

\* What a type refers to (Elem and Base).
References(t) == {t.elem, t.base} \ {NoType}

Unloaded(ts) == (UNION {References(ts[o]) : o \in DOMAIN ts}) \ DOMAIN ts

ColumnTypes(ts) ==
  UNION {{ts[b].columns[k].type : k \in DOMAIN ts[b].columns} : b \in DOMAIN ts}

-----------------------------------------------------------------------------
InitCatalog ==
  /\ schema \in Schemas /\ changes = 0
  /\ load = "idle" /\ wanted = [types |-> {}, tables |-> {}]
  /\ tables = Empty /\ types = Empty /\ enums = Empty
  /\ pending = {} /\ round = 0

\* Somebody else changes the schema.
Change ==
  /\ changes < MaxChanges
  /\ schema' \in Schemas \ {schema} /\ changes' = changes + 1
  /\ UNCHANGED loadVars

Asks(typeIds, tableIds) ==
  /\ load = "idle"
  /\ load' = "tables" /\ wanted' = [types |-> typeIds, tables |-> tableIds]
  /\ UNCHANGED <<dbVars, tables, types, enums, pending, round>>

\* pg_class: a table that is not there is an error.
LoadTables ==
  /\ load = "tables"
  /\ load' = IF wanted.tables \subseteq DOMAIN schema.tables THEN "columns" ELSE "failed"
  /\ tables' = [b \in wanted.tables \cap DOMAIN schema.tables |->
                  [schema.tables[b] EXCEPT !.columns = <<>>]]
  /\ UNCHANGED <<dbVars, wanted, types, enums, pending, round>>

\* Mutant: the types of the columns are not asked for.
OnlyDescribed(ts) == wanted.types

\* A model may use types that no query mentions.
FirstRound(ts) == wanted.types \cup ColumnTypes(ts)

\* pg_attribute, which has no row of a table dropped in the meantime.
LoadColumns ==
  /\ load = "columns"
  /\ LET read == [b \in DOMAIN tables |->
                    IF b \in DOMAIN schema.tables
                    THEN [tables[b] EXCEPT !.columns = schema.tables[b].columns] ELSE tables[b]]
     IN  tables' = read /\ pending' = FirstRound(read)
  /\ load' = "types" /\ round' = 0
  /\ UNCHANGED <<dbVars, wanted, types, enums>>

\* One round of pg_type: the rows, then what they refer to and is not loaded.
LoadTypes ==
  /\ load = "types" /\ pending # {} /\ round <= MaxRounds
  /\ LET found == pending \cap DOMAIN schema.types
         read  == [o \in DOMAIN types \cup found |->
                     IF o \in found THEN schema.types[o] ELSE types[o]]
     IN  /\ types' = read
         /\ load' = IF pending \subseteq DOMAIN read THEN "types" ELSE "failed"
         /\ pending' = Unloaded(read)
  /\ round' = round + 1
  /\ UNCHANGED <<dbVars, wanted, tables, enums>>

TooDeep ==
  /\ load = "types" /\ pending # {} /\ round > MaxRounds
  /\ load' = "failed"
  /\ UNCHANGED <<dbVars, wanted, tables, types, enums, pending, round>>

\* pg_enum, for the types that were enums when they were read.
LoadEnums ==
  /\ load = "types" /\ pending = {}
  /\ load' = "loaded"
  /\ enums' = [o \in {o \in DOMAIN types : types[o].kind = "enum"} \cap DOMAIN schema.types |->
                 schema.types[o].labels]
  /\ UNCHANGED <<dbVars, wanted, tables, types, pending, round>>

Loads == LoadTables \/ LoadColumns \/ LoadTypes \/ TooDeep \/ LoadEnums

\* The catalog by itself, asked for anything.
CatalogNext ==
  \/ \E ts \in SUBSET TypeIds, bs \in SUBSET TableIds : Asks(ts, bs)
  \/ Loads
  \/ Change

CatalogSpec == InitCatalog /\ [][CatalogNext]_catalogVars

-----------------------------------------------------------------------------
(* Safety. *)

\* A catalog that loads has every type that was asked for, the type of every
\* column of its tables, and whatever those refer to, however the schema
\* changed between the queries: nothing the code generator follows leads out
\* of it ("unresolved type oid").
Closed ==
  load = "loaded" =>
    /\ wanted.types \cup ColumnTypes(tables) \subseteq DOMAIN types
    /\ Unloaded(types) = {}
    /\ DOMAIN tables = wanted.tables
=============================================================================
