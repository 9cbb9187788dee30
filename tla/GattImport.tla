------------------------------ MODULE GattImport ------------------------------
(***************************************************************************)
(* parse_GATTPRINT_2db.py: the lines of GATTprint.log, sorted and without  *)
(* duplicates, become rows of four tables. An old-style line has no        *)
(* address type: it is looked up in the tables of the HCI import. A script *)
(* that is killed or meets a line it cannot convert leaves what it has     *)
(* committed, and is run again.                                            *)
(*                                                                         *)
(* A line is the table it is for, the device, the style, and what is wrong *)
(* with it; handles, UUIDs and values are left out. The unique keys of the *)
(* tables comprise all the columns, so a table is a set.                   *)
(***************************************************************************)
EXTENDS Integers, FiniteSets

CONSTANTS
    Devices,
    Lines,          \* the lines that are ever logged
    Order,          \* where sort(1) puts each of them; depends on the locale
    MaxImports,     \* bound on the runs of the script
    MaxChanges      \* bound on the changes of the looked-up types

\* Numbered, in the order of their characters.
Kinds == <<"CHARACTERISTIC", "CHAR_VALUE", "DESCRIPTORS", "SERVICE">>
Styles == <<"old", "odd", "public", "random">>
\* Unfinished, so that a quote is left open: in the address, behind it, in the last field.
\* Too few fields to look at; a wrong number of them; a number that is none; nothing wrong.
Shapes == <<"cut", "torn", "tail", "short", "count", "num", "good">>

LineType == [kind : DOMAIN Kinds, style : DOMAIN Styles, dev : Devices, shape : DOMAIN Shapes]

ASSUME GattImportAssumption ==
    /\ IsFiniteSet(Devices) /\ Lines \subseteq LineType
    /\ Order \in [Lines -> Nat]
    /\ \A l, m \in Lines : Order[l] = Order[m] => l = m
    /\ \A l \in Lines : Shapes[l.shape] = "cut" => Styles[l.style] # "old"
    /\ MaxImports \in Nat /\ MaxChanges \in Nat

Unknown == 9        \* the code's value for a type nobody knows
NotYet == -1        \* not in the cache, or in no table
Types == {0, 1, Unknown}

VARIABLES
    log,            \* the lines logged so far
    le,             \* the type the HCI tables have for each device
    tables,         \* the rows of the four tables
    state,          \* the script
    todo,           \* the lines of GATTprint_dedup.log that it has not read yet
    cache,          \* type_cache
    given,          \* history: the lines of this run
    made,           \* history: the line and the type of each insert of this run
    runs, changes,  \* counters of the bounds
    settled         \* history: a whole import has been made, and nothing changed since it began

script == <<state, todo, cache, given, made>>
vars == <<log, le, tables, script, runs, changes, settled>>

Init ==
    /\ log = {} /\ le = [d \in Devices |-> NotYet] /\ tables = {}
    /\ state = "none" /\ todo = {} /\ cache = [d \in Devices |-> NotYet]
    /\ given = {} /\ made = {}
    /\ runs = 0 /\ changes = 0 /\ settled = FALSE

-----------------------------------------------------------------------------
(* What happens besides. *)

\* gatttool logs, or the log of another host is added; the script works on its own copy.
Logged(l) ==
    /\ state = "none" /\ l \in Lines \ log
    /\ log' = log \cup {l} /\ settled' = FALSE
    /\ UNCHANGED <<le, tables, script, runs, changes>>

\* An HCI log is imported: the look-up finds a type, or another one before it.
HciImport(d, t) ==
    /\ changes < MaxChanges /\ le[d] # t
    /\ le' = [le EXCEPT ![d] = t] /\ changes' = changes + 1 /\ settled' = FALSE
    /\ state' = IF state = "run" THEN "changed" ELSE state
    /\ UNCHANGED <<log, tables, todo, cache, given, made, runs>>

-----------------------------------------------------------------------------
(* The script. *)

Start ==
    /\ state = "none" /\ runs < MaxImports
    /\ state' = "run" /\ runs' = runs + 1
    /\ todo' = log /\ given' = log /\ made' = {}
    /\ cache' = [d \in Devices |-> NotYet]
    /\ UNCHANGED <<log, le, tables, changes, settled>>

Running == state \in {"run", "changed"}

Rank(l) == Order[l]

\* (mutant) The lines are not sorted.
Unsorted(l, S) == l \in S
IsNext(l, S) == l \in S /\ \A m \in S : Rank(l) <= Rank(m)

Is(l, shape) == Shapes[l.shape] = shape
Old(l) == Styles[l.style] = "old"
OwnType(l) ==
    CASE Styles[l.style] = "public" -> 0 [] Styles[l.style] = "random" -> 1 [] OTHER -> Unknown

\* (mutant) A line that has a type of its own is believed.
BelievesLine(l) ==
    CASE Old(l) /\ cache[l.dev] # NotYet -> cache[l.dev]
      [] Old(l) /\ cache[l.dev] = NotYet /\ le[l.dev] # NotYet -> le[l.dev]
      [] OTHER -> OwnType(l)

\* (mutant) The tables are asked for every line.
AsksTables(l) ==
    CASE cache[l.dev] # NotYet -> cache[l.dev]
      [] cache[l.dev] = NotYet /\ le[l.dev] # NotYet -> le[l.dev]
      [] OTHER -> OwnType(l)
\* (mutant) What the tables do not have is not made unknown.
AsFound(l) ==
    CASE cache[l.dev] # NotYet -> cache[l.dev]
      [] cache[l.dev] = NotYet /\ Old(l) -> le[l.dev]
      [] OTHER -> OwnType(l)

\* lookup_device_bdaddr_type: the cache is asked first, whatever the line itself says.
Lookup(l) ==
    CASE cache[l.dev] # NotYet -> cache[l.dev]
      [] cache[l.dev] = NotYet /\ Old(l) /\ le[l.dev] # NotYet -> le[l.dev]
      [] OTHER -> OwnType(l)

\* The address of a line that was cut off in it is another one's, or nobody's.
LooksUp(l) == ~Is(l, "short") /\ ~Is(l, "cut")

Open(l) == Shapes[l.shape] \in {"cut", "torn", "tail"}

\* The reader goes on in the next line for the quote that is open, up to the first line
\* that leaves none open: all of them are one record.
Swallowed(l, S) ==
    {m \in S : /\ Rank(l) < Rank(m)
               /\ \A x \in S : Rank(l) <= Rank(x) /\ Rank(x) < Rank(m) => Open(x)}

\* A line that ends in its last field has all its fields if nothing follows: sort ends it.
EndsFile(l, S) == Is(l, "tail") /\ Swallowed(l, S) = {}

\* func_CHAR_VALUE and func_DESCRIPTORS convert outside of a try; the end of the line is
\* not a part of a value.
Raises(l, S) ==
    \/ Is(l, "num") /\ Kinds[l.kind] \in {"CHAR_VALUE", "DESCRIPTORS"}
    \/ EndsFile(l, S) /\ Kinds[l.kind] = "CHAR_VALUE"

\* What comes to an insert.
Kept(l, S) == Is(l, "good") \/ (EndsFile(l, S) /\ Kinds[l.kind] # "CHAR_VALUE")

Row(l, t) == [kind |-> l.kind, dev |-> l.dev, type |-> t]

\* (mutant) The insert is not committed.
NoCommit(l) ==
    /\ Running /\ IsNext(l, todo) /\ ~Raises(l, todo)
    /\ todo' = todo \ ({l} \cup Swallowed(l, todo))
    /\ cache' = IF LooksUp(l) THEN [cache EXCEPT ![l.dev] = Lookup(l)] ELSE cache
    /\ made' = made \cup (IF Kept(l, todo) THEN {[line |-> l, type |-> Lookup(l)]} ELSE {})
    /\ given' = given \ Swallowed(l, todo)
    /\ UNCHANGED <<log, le, tables, state, runs, changes, settled>>

\* One record: one of the four functions, up to its commit, or its return before the insert.
ImportLine(l) ==
    /\ Running /\ IsNext(l, todo) /\ ~Raises(l, todo)
    /\ todo' = todo \ ({l} \cup Swallowed(l, todo))
    /\ cache' = IF LooksUp(l) THEN [cache EXCEPT ![l.dev] = Lookup(l)] ELSE cache
    /\ tables' = tables \cup (IF Kept(l, todo) THEN {Row(l, Lookup(l))} ELSE {})
    /\ made' = made \cup (IF Kept(l, todo) THEN {[line |-> l, type |-> Lookup(l)]} ELSE {})
    /\ given' = given \ Swallowed(l, todo)
    /\ UNCHANGED <<log, le, state, runs, changes, settled>>

\* The cache goes with the process.
End ==
    /\ state' = "none"
    /\ todo' = {} /\ given' = {} /\ made' = {}
    /\ cache' = [d \in Devices |-> NotYet]

\* The handler around the loop prints the exception, and the script ends.
LineRaises(l) ==
    /\ Running /\ IsNext(l, todo) /\ Raises(l, todo)
    /\ End
    /\ UNCHANGED <<log, le, tables, runs, changes, settled>>

\* The script is interrupted, or loses the database.
Killed ==
    /\ Running /\ todo # {}
    /\ End
    /\ UNCHANGED <<log, le, tables, runs, changes, settled>>

Finish ==
    /\ Running /\ todo = {}
    /\ End
    /\ settled' = (settled \/ state = "run")
    /\ UNCHANGED <<log, le, tables, runs, changes>>

Next ==
    \/ \E l \in Lines : Logged(l) \/ ImportLine(l) \/ LineRaises(l)
    \/ \E d \in Devices, t \in {0, 1} : HciImport(d, t)
    \/ Start \/ Killed \/ Finish

Spec == Init /\ [][Next]_vars

-----------------------------------------------------------------------------
(* Correctness. *)

\* The type of every variable.
TypeOK ==
    /\ log \subseteq Lines /\ todo \subseteq Lines /\ given \subseteq Lines
    /\ le \in [Devices -> {NotYet, 0, 1}]
    /\ tables \subseteq [kind : DOMAIN Kinds, dev : Devices, type : Types]
    /\ state \in {"none", "run", "changed"}
    /\ cache \in [Devices -> Types \cup {NotYet}]
    /\ made \subseteq [line : Lines, type : Types]
    /\ runs \in 0..MaxImports /\ changes \in 0..MaxChanges
    /\ settled \in BOOLEAN

\* One run stores everything of a device under one type, also while the HCI import is at
\* work (243-289): services, characteristics and values of a device belong together.
OneTypePerRun == \A m, n \in made : m.line.dev = n.line.dev => m.type = n.type

\* Wherever a run is interrupted, every proper line up to there is stored (296-330), unless
\* unfinished lines come directly before it in the sorted log (298): the only lines an
\* import loses are those it has to lose.
ReadIsStored ==
    Running => \A l \in log \ todo :
       Is(l, "good") /\ (\A r \in log : l \notin Swallowed(r, log)) =>
          \E m \in made : m.line = l /\ Row(l, m.type) \in tables

\* A line with a type of its own is stored under another one only when a line of the device
\* with no type or with the other comes before it (253-289): a log of new lines that agree
\* is imported as it says.
OwnTypeUnlessMixed ==
    \A m \in made :
       OwnType(m.line) \in {0, 1} /\ m.type # OwnType(m.line) =>
          \E l \in log : /\ l.dev = m.line.dev /\ Rank(l) < Rank(m.line)
                         /\ LooksUp(l) /\ OwnType(l) # OwnType(m.line)

\* Once a whole import has been made, another run over the same log and the same HCI tables
\* adds no row, wherever runs before or after it were interrupted (INSERT IGNORE, 21-24).
RepeatAddsNothing == [][settled => tables' = tables]_vars
=============================================================================
