----------------------------- MODULE EngineeringPatterns -----------------------------
(***************************************************************************)
(* The patterns with a state of their own, the unit of work and the        *)
(* container of dependencies, the query over a table, and the loader of    *)
(* configurations.                                                         *)
(***************************************************************************)
EXTENDS Integers, Sequences, SequencesExt, FiniteSets

(***************************************************************************)
(* UnitOfWork and uow_context of unit_of_work.py: several units in a row   *)
(* on one store of users, each a list of registered changes that is        *)
(* applied when the with block ends and dropped when it raises.  What a    *)
(* closure captured is the user as registered: nobody changes it before    *)
(* the commit.                                                             *)
(***************************************************************************)

CONSTANTS UserId, UserName, MaxChanges, NoUser

VARIABLES users, pendingChanges, applied    \* applied: history of all the committed changes
uowVars == <<users, pendingChanges, applied>>

Change == [id : UserId, name : UserName \cup {NoUser}]      \* NoUser: a removal

UowInit == users = <<>> /\ pendingChanges = <<>> /\ applied = <<>>

RegisterChange(change) ==
  /\ Len(pendingChanges) + Len(applied) < MaxChanges
  /\ pendingChanges' = Append(pendingChanges, change)
  /\ UNCHANGED <<users, applied>>

\* __setitem__, or pop with a default.
Apply(store, change) ==
  LET ids == IF change.name = NoUser THEN DOMAIN store \ {change.id} ELSE DOMAIN store \cup {change.id}
  IN  [u \in ids |-> IF u = change.id THEN change.name ELSE store[u]]

InOrder(changes) == changes
Commit ==
  /\ pendingChanges # <<>>
  /\ users' = FoldLeft(Apply, users, InOrder(pendingChanges))
  /\ applied' = applied \o pendingChanges
  /\ pendingChanges' = <<>>

Rollback ==
  /\ pendingChanges # <<>> /\ pendingChanges' = <<>>
  /\ UNCHANGED <<users, applied>>

UowNext == (\E change \in Change : RegisterChange(change)) \/ Commit \/ Rollback
----------------------------------------------------------------------------
\* A user is what the last change of a committed unit says about it; what was only registered,
\* or registered in a unit that raised, is not seen.
UsersAreTheCommitted ==
  \A u \in UserId :
    LET last == SelectLastInSeq(applied, LAMBDA change : change.id = u)
    IN  IF last = 0 \/ applied[last].name = NoUser THEN u \notin DOMAIN users
        ELSE u \in DOMAIN users /\ users[u] = applied[last].name

----------------------------------------------------------------------------
(***************************************************************************)
(* DIContainer of di_container.py: resolve and _construct call each other  *)
(* down the constructor's parameters; here the calls are a stack of frames *)
(* and the objects are numbered as they are made.  Classes depend on       *)
(* classes of a higher number only: a cycle ends in RecursionError.        *)
(***************************************************************************)

CONSTANTS NumClasses, MaxResolves

VARIABLES deps,             \* class -> the parameters of its constructor, in order
          lifetime,         \* class -> how it is registered: "singleton", "transient" or "none"
          frames,           \* the stack: [class, args]
          singletons,       \* class -> its object
          objects,          \* [class, args], in the order they were made
          resolves
diVars == <<deps, lifetime, frames, singletons, objects, resolves>>

Class == 1..NumClasses
ParameterLists(c) ==
  {<<>>} \cup {<<d>> : d \in (c + 1)..NumClasses}
         \cup {<<d, e>> : d \in (c + 1)..NumClasses, e \in (c + 1)..NumClasses}

DiInit ==
  /\ deps \in {f \in [Class -> UNION {ParameterLists(c) : c \in Class}] : \A c \in Class : f[c] \in ParameterLists(c)}
  /\ lifetime \in [Class -> {"singleton", "transient", "none"}]
  /\ frames = <<>> /\ singletons = <<>> /\ objects = <<>> /\ resolves = 0

NeverShared(c) == FALSE
Shared(c) == lifetime[c] = "singleton" /\ c \in DOMAIN singletons

TopFrame == frames[Len(frames)]
Below == SubSeq(frames, 1, Len(frames) - 1)
Complete == Len(TopFrame.args) = Len(deps[TopFrame.class])
Needed == deps[TopFrame.class][Len(TopFrame.args) + 1]
WithArgument(o) == Append(Below, [TopFrame EXCEPT !.args = Append(@, o)])

\* resolve by the program; a class that is not registered is constructed itself.
Resolve(c) ==
  /\ frames = <<>> /\ resolves < MaxResolves /\ ~Shared(c)
  /\ frames' = <<[class |-> c, args |-> <<>>]>> /\ resolves' = resolves + 1
  /\ UNCHANGED <<deps, lifetime, singletons, objects>>

\* resolve of the next parameter: the singleton that is there, or a call of _construct.
ResolveParameter ==
  /\ frames # <<>> /\ ~Complete
  /\ frames' = IF Shared(Needed) THEN WithArgument(singletons[Needed])
               ELSE Append(frames, [class |-> Needed, args |-> <<>>])
  /\ UNCHANGED <<deps, lifetime, singletons, objects, resolves>>

\* cls(**kwargs), and the singleton is kept.
Construct ==
  /\ frames # <<>> /\ Complete
  /\ objects' = Append(objects, TopFrame)
  /\ LET made == Len(objects) + 1
     IN  /\ singletons' = IF lifetime[TopFrame.class] # "singleton" THEN singletons
                          ELSE [c \in DOMAIN singletons \cup {TopFrame.class} |->
                                  IF c = TopFrame.class THEN made ELSE singletons[c]]
         /\ frames' = IF Below = <<>> THEN <<>>
                      ELSE [Below EXCEPT ![Len(Below)].args = Append(@, made)]
  /\ UNCHANGED <<deps, lifetime, resolves>>

DiNext == (\E c \in Class : Resolve(c)) \/ ResolveParameter \/ Construct
----------------------------------------------------------------------------
\* A singleton is made once, even when it is needed in several places of one resolution, and
\* every object was given, in order, objects of the classes its constructor asks for.
GraphIsAsRegistered ==
  /\ \A o, p \in DOMAIN objects :
       objects[o].class = objects[p].class /\ lifetime[objects[o].class] = "singleton" => o = p
  /\ \A o \in DOMAIN objects :
       [k \in DOMAIN objects[o].args |-> objects[objects[o].args[k]].class] = deps[objects[o].class]

----------------------------------------------------------------------------
(***************************************************************************)
(* load_config of config_loader.py.  A key is a sequence of words (DB_HOST *)
(* is <<"db", "host">>), a source maps some keys to a raw string, and a    *)
(* configuration is the set of the values that were given: a field that is *)
(* not among them has its default.                                         *)
(***************************************************************************)

VARIABLES source, config, configRead
configVars == <<source, config, configRead>>

FieldsOf(class) ==
  IF class = "AppConfig" THEN {[key |-> <<"debug">>, type |-> "bool"], [key |-> <<"db">>, type |-> "DatabaseConfig"]}
  ELSE {[key |-> <<"host">>, type |-> "str"], [key |-> <<"port">>, type |-> "int"]}

Raw == {"True", "1", "text"}
Sources == UNION {[keys -> Raw] : keys \in SUBSET {<<"debug">>, <<"db">>, <<"db", "host">>, <<"db", "port">>, <<"port">>}}

\* bool: one of the words for true; int: int(raw), which raises for what is not a number.
Converted(type, raw) ==
  CASE type = "bool" -> IF raw \in {"True", "1"} THEN "yes" ELSE "no"
    [] type = "int" -> IF raw = "1" THEN raw ELSE "ValueError"
    [] OTHER -> raw

\* The nested class reads its own keys, under the name of the field; the key that is only that
\* name is looked up and dropped.
RECURSIVE LoadConfig(_, _, _)
LoadConfig(class, from, prefix) ==
  UNION {LET key == prefix \o field.key
         IN  CASE field.type = "DatabaseConfig" -> LoadConfig(field.type, from, key)
               [] key \notin DOMAIN from -> {}
               [] OTHER -> {<<key, Converted(field.type, from[key])>>} : field \in FieldsOf(class)}

ConfigInit == source \in Sources /\ config = {} /\ configRead = FALSE
ReadConfig ==
  /\ ~configRead /\ configRead' = TRUE
  /\ config' = LoadConfig("AppConfig", source, <<>>)
  /\ UNCHANGED source
----------------------------------------------------------------------------
\* Each key speaks for itself: what a source gives is what its keys give one by one, no field has
\* two values, and only a port that is no number can make loading raise.
KeysAreIndependent ==
  /\ configRead => config = UNION {LoadConfig("AppConfig", [k \in {key} |-> source[k]], <<>>) : key \in DOMAIN source}
  /\ \A v, w \in config : v[1] = w[1] => v = w
  /\ \A v \in config : v[2] = "ValueError" => v[1] = <<"db", "port">>

----------------------------------------------------------------------------
(***************************************************************************)
(* InMemoryTable and Query of mini_orm.py: one query object, whose methods *)
(* change it and return it, over a table that grows meanwhile; execute     *)
(* reads the rows as they are.  limit takes numbers from 0 on; the id of a *)
(* row is its place.                                                       *)
(***************************************************************************)

CONSTANTS ColumnValue, MaxRows, MaxFilters, NoLimit

VARIABLES rows, filters,    \* filters: <<column, value>>
          rowLimit, orderBy, desc
ormVars == <<rows, filters, rowLimit, orderBy, desc>>

Column == {"age", "team"}

OrmInit == rows = <<>> /\ filters = <<>> /\ rowLimit = NoLimit /\ orderBy = "" /\ desc = FALSE

InsertRow ==
  /\ Len(rows) < MaxRows
  /\ \E row \in [Column -> ColumnValue] : rows' = Append(rows, row)
  /\ UNCHANGED <<filters, rowLimit, orderBy, desc>>

AddFilter ==
  /\ Len(filters) < MaxFilters
  /\ \E c \in Column, v \in ColumnValue : filters' = Append(filters, <<c, v>>)
  /\ UNCHANGED <<rows, rowLimit, orderBy, desc>>

LimitTo == (\E n \in 0..MaxRows : rowLimit' = n) /\ UNCHANGED <<rows, filters, orderBy, desc>>
OrderBy == orderBy' \in Column /\ desc' \in BOOLEAN /\ UNCHANGED <<rows, filters, rowLimit>>

\* sorted() is stable, and so it is with reverse=True.
SortedRows(ids) ==
  LET Key(id) == IF desc THEN -rows[id][orderBy] ELSE rows[id][orderBy]
      \* a row goes behind the last of those that do not come after it
      Place(done, id) == InsertAt(done, Cardinality({k \in DOMAIN done : Key(done[k]) <= Key(id)}) + 1, id)
  IN  FoldLeft(Place, <<>>, ids)

\* The ids of the rows that execute returns.
Execute ==
  LET all == [id \in DOMAIN rows |-> id]
      kept == FoldLeft(LAMBDA ids, f : SelectSeq(ids, LAMBDA id : rows[id][f[1]] = f[2]), all, filters)
      ordered == IF orderBy = "" THEN kept ELSE SortedRows(kept)
  IN  IF rowLimit = NoLimit THEN ordered ELSE SubSeq(ordered, 1, IF rowLimit < Len(ordered) THEN rowLimit ELSE Len(ordered))

OrmNext == InsertRow \/ AddFilter \/ LimitTo \/ OrderBy
----------------------------------------------------------------------------
\* Whatever the order of the calls, the filters all hold of every row returned, the rows stand in
\* the order asked for with equal ones in that of their insertion, and the limit leaves out only
\* rows that would come later.
QueryMeansAll ==
  LET matching == {id \in DOMAIN rows : \A f \in DOMAIN filters : rows[id][filters[f][1]] = filters[f][2]}
      Before(a, b) == LET ka == rows[a][orderBy]  kb == rows[b][orderBy]
                      IN  IF orderBy = "" \/ ka = kb THEN a < b ELSE (ka < kb) # desc
      IsTheAnswer(ids) ==
        LET dropped == matching \ ToSet(ids)
        IN  /\ ToSet(ids) \subseteq matching
            /\ \A m, n \in DOMAIN ids : m < n => Before(ids[m], ids[n])
            /\ dropped # {} => rowLimit = Len(ids)
            /\ \A id \in ToSet(ids), other \in dropped : Before(id, other)
  IN  IsTheAnswer(Execute)

\* The patterns keep their word: a unit of work is seen as a whole or not at all, the container
\* builds the graph that was registered, a configuration is read key by key, a query means all
\* that was asked of it.
PatternsKeepTheirWord ==
  /\ UsersAreTheCommitted /\ GraphIsAsRegistered
  /\ KeysAreIndependent /\ QueryMeansAll
=============================================================================
