----------------------------- MODULE LogRouting -----------------------------
(***************************************************************************)
(* LoggingManager, Logger and LogContext: which appenders get a record,    *)
(* while the configuration changes and tasks log in contexts of their own. *)
(* The contexts of a task are those its AsyncLocalStorage holds: where     *)
(* there is no provider (browsers) no task is in any.                      *)
(*                                                                         *)
(* A pattern is the set of categories it matches, a level its threshold.   *)
(***************************************************************************)
EXTENDS Integers, Sequences, SequencesExt, FiniteSetsExt, Lists

CONSTANTS
    Categories,
    LogLevels,
    LogAppenders,
    Console,        \* the appender there is by default
    Given,          \* the appenders the configuration adds
    Throwing,       \* the appenders that throw
    Contexts,       \* [pattern, level, appenders, exclusive]; nobody reads the last
    Tasks,
    NoLevel,
    MaxSettings     \* bound: changes of the configuration

ASSUME RoutingAssumption ==
    /\ LogLevels \subseteq Nat /\ NoLevel \notin LogLevels
    /\ Console \in LogAppenders
    /\ Throwing \cup Given \subseteq LogAppenders
    /\ MaxSettings \in Nat
    /\ \A c \in Contexts : /\ c.pattern \subseteq Categories
                           /\ c.level \in LogLevels \cup {NoLevel}
                           /\ c.appenders \in Seq(LogAppenders)
                           /\ c.exclusive \in BOOLEAN

VARIABLES
    rootLevel,
    overrides,      \* thresholdOverrides
    appenders,      \* those of the manager
    loggers,        \* those there are, with their overrideLevel and overrideAppenders
    contexts,       \* the contexts a task is in, <<>> if it has not begun
    parent,         \* the task that began a task, and the context it did so in
    changes

settings == <<rootLevel, overrides, appenders, loggers>>
routing == <<settings, contexts, parent, changes>>

Main == CHOOSE t \in Tasks : TRUE

RoutingInit ==
    /\ rootLevel \in LogLevels
    /\ overrides = <<>>
    /\ appenders = <<>>
    /\ loggers = <<>>
    /\ contexts = [t \in Tasks |-> <<>>]
    /\ parent = [t \in Tasks |-> <<>>]
    /\ changes = 0

---------------------------------------------------------------------------
(* Configuration.                                                          *)

Changed ==
    /\ changes < MaxSettings
    /\ changes' = changes + 1
    /\ UNCHANGED <<contexts, parent>>

SetRootLevel(level) == Changed /\ rootLevel' = level /\ UNCHANGED <<overrides, appenders, loggers>>

\* The array is cleared in place before the new appenders are looked at: given
\* the manager's own array, none is left.
SetAppenders(new, own) ==
    /\ Changed
    /\ appenders' = IF own THEN <<>> ELSE new
    /\ UNCHANGED <<rootLevel, overrides, loggers>>

AddAppenders(new) ==
    /\ Changed
    /\ appenders' = appenders \o new
    /\ UNCHANGED <<rootLevel, overrides, loggers>>

\* configure adds overrides to those there are.
AddThresholdOverrides(pattern, level) ==
    /\ Changed
    /\ overrides' = Append(overrides, [pattern |-> pattern, level |-> level])
    /\ UNCHANGED <<rootLevel, appenders, loggers>>

SetThresholdOverrides(pattern, level) ==
    /\ Changed
    /\ overrides' = <<[pattern |-> pattern, level |-> level]>>
    /\ UNCHANGED <<rootLevel, appenders, loggers>>

ClearThresholdOverrides ==
    /\ overrides # <<>>
    /\ Changed
    /\ overrides' = <<>>
    /\ UNCHANGED <<rootLevel, appenders, loggers>>

\* A category has one logger: the options of the first call stay.
GetLogger(category, own) ==
    /\ category \notin DOMAIN loggers
    /\ loggers' = [k \in DOMAIN loggers \cup {category} |->
                      IF k = category THEN [level |-> NoLevel, own |-> own] ELSE loggers[k]]
    /\ UNCHANGED <<rootLevel, overrides, appenders, contexts, parent, changes>>

SetOverrideLevel(category, level) ==
    /\ Changed
    /\ loggers' = [loggers EXCEPT ![category].level = level]
    /\ UNCHANGED <<rootLevel, overrides, appenders>>

Running(t) == t = Main \/ contexts[t] # <<>>

\* Mutant: the contexts of the caller are left out.
RunInContextAlone(t, child, context) ==
    /\ Running(t)
    /\ child # Main /\ contexts[child] = <<>>
    /\ contexts' = [contexts EXCEPT ![child] = <<context>>]
    /\ parent' = [parent EXCEPT ![child] = <<t, context>>]
    /\ UNCHANGED <<settings, changes>>

\* use: the function runs, and what it awaits, in the contexts of its caller and
\* one more; the caller goes on in its own.
RunInContext(t, child, context) ==
    /\ Running(t)
    /\ child # Main /\ contexts[child] = <<>>
    /\ contexts' = [contexts EXCEPT ![child] =
           IF context \in ToSet(contexts[t]) THEN contexts[t] ELSE Append(contexts[t], context)]
    /\ parent' = [parent EXCEPT ![child] = <<t, context>>]
    /\ UNCHANGED <<settings, changes>>

---------------------------------------------------------------------------
(* Logging.                                                                *)

GetApplicableCurrentContexts(t, category) ==
    Selected(contexts[t], {c \in Contexts : category \in c.pattern})

\* Of the overrides the first that matches counts, of the contexts all do, and
\* of these thresholds and the root's the lowest.
DetermineThresholdOverride(t, category) ==
    LET matching == Selected(overrides, {o \in ToSet(overrides) : category \in o.pattern})
    IN  {matching[n].level : n \in DOMAIN matching \cap {1}}
            \cup ({c.level : c \in ToSet(GetApplicableCurrentContexts(t, category))} \ {NoLevel})

IsEnabled(t, category, level) ==
    LET own == loggers[category].level
    IN  level >= (IF own # NoLevel THEN own
                  ELSE Min({rootLevel} \cup DetermineThresholdOverride(t, category)))

\* appenders: where there is none, a console appender is added for good.
WithConsole == IF appenders = <<>> THEN <<Console>> ELSE appenders

ContextAppenders(t, category) ==
    FlattenSeq([n \in DOMAIN GetApplicableCurrentContexts(t, category) |->
                   GetApplicableCurrentContexts(t, category)[n].appenders])

\* One after the other, until one throws.
Reached(seq) ==
    LET threw == {n \in DOMAIN seq : seq[n] \in Throwing}
    IN  SubSeq(seq, 1, IF threw = {} THEN Len(seq) ELSE Min(threw) - 1)

\* Who gets a record; log does not test the level, the functions named for one do.
Delivered(t, category, level, direct) ==
    LET own == loggers[category].own
    IN  IF ~direct /\ ~IsEnabled(t, category, level) THEN <<>>
        ELSE Reached(IF own # <<>> THEN own ELSE WithConsole \o ContextAppenders(t, category))

Log(t, category, level, direct) ==
    /\ Running(t)
    /\ category \in DOMAIN loggers
    /\ direct \/ IsEnabled(t, category, level)
    /\ loggers[category].own = <<>>
    /\ appenders' = WithConsole
    /\ UNCHANGED <<rootLevel, overrides, loggers, contexts, parent, changes>>

RoutingNext ==
    \/ \E level \in LogLevels : SetRootLevel(level)
    \/ \E a \in Given, own \in BOOLEAN : SetAppenders(<<a>>, own)
    \/ \E a \in Given : AddAppenders(<<a>>)
    \/ \E pattern \in SUBSET Categories \ {{}}, level \in LogLevels :
           AddThresholdOverrides(pattern, level) \/ SetThresholdOverrides(pattern, level)
    \/ ClearThresholdOverrides
    \/ \E k \in Categories, own \in {<<>>} \cup {<<a>> : a \in Given} : GetLogger(k, own)
    \/ \E k \in DOMAIN loggers, level \in LogLevels \cup {NoLevel} : SetOverrideLevel(k, level)
    \/ \E t, child \in Tasks, c \in Contexts : RunInContext(t, child, c)
    \/ \E t \in Tasks, k \in Categories, level \in LogLevels, direct \in BOOLEAN :
           Log(t, k, level, direct)

RoutingSpec == RoutingInit /\ [][RoutingNext]_routing

---------------------------------------------------------------------------
(* Properties.                                                             *)

\* A task, who began it, who began that one, and so on.
Forebears(t, began) ==
    {v \in Tasks :
        \A S \in SUBSET Tasks :
            t \in S /\ (\A u \in S : began[u] # <<>> => began[u][1] \in S) => v \in S}

\* The contexts a task was begun in, and those of who began it.
Entered(t) == {parent[u][2] : u \in {v \in Forebears(t, parent) : parent[v] # <<>>}}

(***************************************************************************)
(* "Additional appenders for the context": contexts and overrides only     *)
(* add to what is logged, and a context does so although it is exclusive   *)
(* (ExclusiveIsExclusive).  A record the root level admits reaches the     *)
(* manager's appenders, up to one that throws, unless the logger has a     *)
(* level or appenders of its own; and beyond them it reaches those of the  *)
(* contexts its own task was begun in, whatever other tasks are in.        *)
(***************************************************************************)
RecordsAreRouted ==
    \A t \in {u \in Tasks : Running(u)}, k \in DOMAIN loggers, level \in LogLevels, direct \in BOOLEAN :
        LET logger == loggers[k]
            mine == {c \in Entered(t) : k \in c.pattern}
            delivered == Delivered(t, k, level, direct)
            reached == ToSet(delivered)
        IN  /\ reached \cap Throwing = {}
            /\ logger.own # <<>> => reached \subseteq ToSet(logger.own)
            /\ logger.own = <<>> =>
                   /\ reached \subseteq
                          ToSet(WithConsole) \cup UNION {ToSet(c.appenders) : c \in mine}
                   /\ logger.level = NoLevel /\ level >= rootLevel =>
                          IsPrefix(Reached(appenders), delivered)
                   /\ (ToSet(WithConsole) \cup UNION {ToSet(c.appenders) : c \in mine})
                          \cap Throwing = {} /\ logger.level = NoLevel =>
                          \A c \in mine : c.level # NoLevel /\ level >= c.level =>
                              ToSet(c.appenders) \subseteq reached
            /\ logger.level # NoLevel /\ ~direct /\ level < logger.level => reached = {}

(***************************************************************************)
(* "Exclusive, only use this config in context": a record of a task in an  *)
(* exclusive context for its category reaches the appenders of such        *)
(* contexts only, and none of the manager's.                               *)
(***************************************************************************)
ExclusiveIsExclusive ==
    \A t \in {u \in Tasks : Running(u)}, k \in DOMAIN loggers, level \in LogLevels, direct \in BOOLEAN :
        LET mine == {c \in Entered(t) : k \in c.pattern}
        IN  loggers[k].own = <<>> /\ (\E c \in mine : c.exclusive) =>
                ToSet(Delivered(t, k, level, direct)) \subseteq UNION {ToSet(c.appenders) : c \in mine}
=============================================================================
