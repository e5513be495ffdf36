---------------------------- MODULE SettingsTables ----------------------------
(***************************************************************************)
(* The settings that are lists: colors, grab_filters and debug.  Lua gives *)
(* the readers a table, which may have holes, foreign keys and values that *)
(* are no rule; of a table with holes, lua_objlen answers any border.  An  *)
(* assignment takes all of a table or nothing.                             *)
(***************************************************************************)
EXTENDS Integers, SequencesExt

CONSTANTS
  Values,      \* values that all the readers accept, as colors, rules and flags
  MaxIndex,    \* bound: the largest integer key of a table
  MaxColors    \* kMaxShaderColors: 16 in the code

Fields == {"colors", "grab_filters", "debug"}
Bad == "bad"                               \* of the wrong type, or an unknown name

ASSUME TableAssumption ==
  /\ MaxIndex \in Nat /\ MaxColors \in Nat \ {0} /\ MaxColors < MaxIndex
  /\ Values # {} /\ Bad \notin Values

Index == 1..MaxIndex
Quoted == -1                               \* stands for the string "1", a key of its own
Foreign == 0                               \* stands for any other key
Keys == Index \cup {Quoted, Foreign}
Tables == UNION {[keys -> Values \cup {Bad}] : keys \in SUBSET Keys}

VARIABLES
  lists,     \* the three settings: sequences, and for debug a set of flags
  assigned   \* history: the last assignment, [field, table, accepted]

tablesVars == <<lists, assigned>>

IntKeys(table) == {k \in Index : k \in DOMAIN table}
OtherKeys(table) == DOMAIN table \ Index

\* lua_objlen
Borders(table) == {n \in 0..MaxIndex : (n = 0 \/ n \in IntKeys(table)) /\ n + 1 \notin IntKeys(table)}

-------------------------------------------------------------------------------
\* ReadPalette goes over all keys first, then looks for holes.
PaletteAccepts(table) ==
  /\ OtherKeys(table) = {} /\ IntKeys(table) # {}
  /\ \A k \in IntKeys(table) : k <= MaxColors /\ table[k] # Bad
  /\ \A i \in 1..Max(IntKeys(table)) : i \in IntKeys(table)

\* The loop up to lua_objlen, which both of the other readers have
Listed(table, border) == \A i \in 1..border : i \in IntKeys(table) /\ table[i] # Bad

\* Mutant: the loop over the other keys is left out.
FiltersUpToBorder(table, border) == Listed(table, border)

\* ReadGrabFilters: lua_isnumber takes the string "1" for a number.
FiltersAccept(table, border) ==
  /\ Listed(table, border)
  /\ IntKeys(table) \subseteq 1..border
  /\ OtherKeys(table) \subseteq {Quoted} /\ (OtherKeys(table) # {} => border >= 1)

\* ReadDebugSettings
DebugAccepts(table, border) ==
  Listed(table, border) /\ IntKeys(table) \subseteq 1..border /\ OtherKeys(table) = {}

Accepts(field, table, border) ==
  CASE field = "colors"       -> PaletteAccepts(table)
    [] field = "grab_filters" -> FiltersAccept(table, border)
    [] field = "debug"        -> DebugAccepts(table, border)

\* The value of a table that was accepted; flags are a set.
ListOf(field, table, border) ==
  IF field = "debug" THEN {table[i] : i \in 1..border} ELSE [i \in 1..border |-> table[i]]

\* PushPalette, PushGrabFilters, PushDebugSettings: flags in the order of their names
Push(field, list) == IF field = "debug" THEN SetToSeq(list) ELSE list

\* ApplySettingFromLua
Assign(field, table) ==
  \E border \in Borders(table) :
    LET accepted == Accepts(field, table, border) IN
      /\ lists' = IF accepted THEN [lists EXCEPT ![field] = ListOf(field, table, border)] ELSE lists
      /\ assigned' = [field |-> field, table |-> table, accepted |-> accepted]

TablesInit ==
  /\ lists = [field \in Fields |-> CASE field = "colors" -> <<CHOOSE v \in Values : TRUE>>
                                     [] field = "grab_filters" -> <<>>
                                     [] field = "debug" -> {}]
  /\ assigned = [field |-> "none"]

TablesNext ==
  /\ assigned.field = "none"
  /\ \E field \in Fields, table \in Tables : Assign(field, table)

-------------------------------------------------------------------------------
\* A list is accepted if its keys are 1 to n and its values are all good,
\* whatever border lua_objlen gives for a table with holes; and what is accepted is stored
\* whole and in order.  A key "1" beside 1 passes in grab_filters, and its value is lost.
TablesReadWhole ==
  assigned.field # "none" =>
    LET table == assigned.table
        ints == IntKeys(table)
        n == Len(SetToSeq(ints))
        extra == IF assigned.field = "grab_filters" /\ 1 \in ints THEN {Quoted} ELSE {}
        proper == /\ ints = 1..n
                  /\ OtherKeys(table) \subseteq extra
                  /\ \A i \in ints : table[i] # Bad
                  /\ assigned.field = "colors" => n \in 1..MaxColors
        list == [i \in 1..n |-> table[i]]
    IN  /\ assigned.accepted <=> proper
        /\ proper => Push(assigned.field, lists[assigned.field])
                       = IF assigned.field = "debug" THEN SetToSeq(ToSet(list)) ELSE list

ListsReadBack ==
  \A field \in Fields :
    LET list == lists[field]
        table == Push(field, list)
    IN  \A border \in Borders(table) :
          Accepts(field, table, border) /\ ListOf(field, table, border) = list
===============================================================================
