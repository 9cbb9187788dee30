--------------------------- MODULE GattImport_proofs ---------------------------
(***************************************************************************)
(* Proofs about the import of GATTprint.log, for any log, order of its     *)
(* lines, devices, HCI tables and number of runs, wherever the runs are    *)
(* interrupted.                                                            *)
(***************************************************************************)
EXTENDS GattImport, TLAPS

-----------------------------------------------------------------------------
(* The inductive invariant. *)

\* Of the lines in S, r is the first to look up the type of d.
First(r, S, d) ==
    /\ r \in S /\ r.dev = d /\ LooksUp(r)
    /\ \A q \in S : q.dev = d /\ LooksUp(q) => Rank(r) <= Rank(q)

\* What the first line puts into the cache (the lookup with an empty cache).
FirstType(r) == IF Old(r) /\ le[r.dev] # NotYet THEN le[r.dev] ELSE OwnType(r)

\* The lines that the run has read as lines of their own.
Read == given \ todo

\* The file is read in order: what is behind the reader comes before what is
\* in front of it.
Ordered ==
    /\ todo \subseteq given /\ given \subseteq log
    /\ \A x \in log \ todo, y \in todo : Rank(x) < Rank(y)

\* Exactly the lines that an unfinished line which was read takes with it are missing.
Swallows ==
    /\ \A x \in log \ given : \E r \in Read : x \in Swallowed(r, log)
    /\ \A r \in Read : Swallowed(r, log) \cap given = {}

\* A device is in the cache exactly when one of its lines was read, and then
\* with what its first line said or the HCI tables had.
Cached ==
    \A d \in Devices :
       IF cache[d] = NotYet
       THEN \A r \in Read : ~(r.dev = d /\ LooksUp(r))
       ELSE \E r \in Read : /\ First(r, Read, d)
                            /\ cache[d] = OwnType(r) \/ Old(r)
                            /\ state = "run" => cache[d] = FirstType(r)

\* The inserts of the run are those of the proper lines it has read, each under
\* the type in the cache, and they are committed.
Made ==
    /\ \A m \in made : m.line \in Read /\ LooksUp(m.line) /\ m.type = cache[m.line.dev]
                       /\ m.type # NotYet
    /\ \A l \in Read : Kept(l, log) => /\ [line |-> l, type |-> cache[l.dev]] \in made
                                       /\ Row(l, cache[l.dev]) \in tables

RunInv == Running => Ordered /\ Swallows /\ Cached /\ Made

RestInv == ~Running => todo = {} /\ given = {} /\ made = {}

\* R and c are the lines read and the types found by an import of the whole log
\* with the HCI tables as they are, and its rows are in the tables.
Whole(R, c) ==
    /\ R \subseteq log
    /\ \A x \in log \ R : \E r \in R : x \in Swallowed(r, log)
    /\ \A r \in R : Swallowed(r, log) \cap R = {}
    /\ \A r \in R : First(r, R, r.dev) => c[r.dev] = FirstType(r)
    /\ \A l \in R : Kept(l, log) => Row(l, c[l.dev]) \in tables

\* The run that is under way reads the same lines and finds the same types.
Follows(R, c) ==
    Running => /\ R \ todo = Read
               /\ \A d \in Devices : cache[d] # NotYet => cache[d] = c[d]

\* Once settled, there is such an import, and every run follows it.
SettledInv ==
    settled => /\ state # "changed"
               /\ \E R \in SUBSET Lines, c \in [Devices -> Types \cup {NotYet}] :
                     Whole(R, c) /\ Follows(R, c)

IndInv == TypeOK /\ RunInv /\ RestInv /\ SettledInv

-----------------------------------------------------------------------------
(* Facts about the operators. *)

\* What is known of a line.
LEMMA LineFields ==
    ASSUME NEW l \in Lines
    PROVE  /\ l \in LineType
           /\ l.kind \in 1..4 /\ l.style \in 1..4 /\ l.dev \in Devices
           /\ l.shape \in 1..7
           /\ l = [kind |-> l.kind, style |-> l.style, dev |-> l.dev, shape |-> l.shape]
<1>1. l \in LineType
  BY GattImportAssumption
<1>2. DOMAIN Kinds = 1..4 /\ DOMAIN Styles = 1..4 /\ DOMAIN Shapes = 1..7
  BY DEF Kinds, Styles, Shapes
<1>3. QED
  BY <1>1, <1>2 DEF LineType

\* The place of a line in the sorted file is a number.
LEMMA RankType == \A l \in Lines : Rank(l) \in Nat
  BY GattImportAssumption DEF Rank

\* The lines are sorted and without duplicates: no two of them compare equal.
LEMMA RankInjective ==
    ASSUME NEW l \in Lines, NEW m \in Lines, Rank(l) = Rank(m)
    PROVE  l = m
  BY GattImportAssumption DEF Rank

\* The rank orders the lines.
LEMMA Trichotomy ==
    ASSUME NEW l \in Lines, NEW m \in Lines, l # m
    PROVE  Rank(l) < Rank(m) \/ Rank(m) < Rank(l)
  BY RankInjective, RankType

\* The type in a line is a type; a proper line and one that was torn are looked up.
LEMMA OwnTypeType ==
    ASSUME NEW l
    PROVE  /\ OwnType(l) \in Types
           /\ Old(l) => OwnType(l) = Unknown
           /\ \A S : Kept(l, S) => LooksUp(l)
           /\ Is(l, "good") => LooksUp(l)
  BY DEF OwnType, Old, Types, Unknown, Is, LooksUp, Kept, EndsFile

\* The lookup finds a type; with an empty cache it is what the first line finds.
LEMMA LookupType ==
    ASSUME TypeOK, NEW l \in Lines
    PROVE  /\ Lookup(l) \in Types /\ Lookup(l) # NotYet
           /\ cache[l.dev] # NotYet => Lookup(l) = cache[l.dev]
           /\ cache[l.dev] = NotYet => /\ Lookup(l) = FirstType(l)
                                       /\ Lookup(l) = OwnType(l) \/ Old(l)
<1>1. /\ cache[l.dev] \in Types \cup {NotYet}
      /\ le[l.dev] \in {NotYet, 0, 1}
  BY LineFields DEF TypeOK
<1>2. QED
  BY <1>1, OwnTypeType DEF Lookup, FirstType, Types, Unknown, NotYet

\* The next line takes with it what it would take in the whole log: what the reader has
\* left behind it comes before the line. Those it takes are the next in the file.
LEMMA SwallowedAhead ==
    ASSUME TypeOK, Ordered, NEW l \in Lines, IsNext(l, todo)
    PROVE  /\ Swallowed(l, todo) = Swallowed(l, log)
           /\ Swallowed(l, todo) \subseteq todo \ {l}
           /\ \A m \in Swallowed(l, todo), y \in todo \ {l} :
                 y \notin Swallowed(l, todo) => Rank(m) < Rank(y)
<1>1. l \in todo /\ todo \subseteq log /\ log \subseteq Lines
  BY DEF IsNext, Ordered, TypeOK
<1>2. \A y \in log : Rank(l) <= Rank(y) <=> y \in todo
  BY <1>1, RankType DEF Ordered, IsNext
<1>3. \A y \in todo \ {l} : Rank(l) < Rank(y)
  BY <1>1, Trichotomy, RankType DEF IsNext
<1>4. Swallowed(l, todo) = Swallowed(l, log)
  <2>1. ASSUME NEW m \in Swallowed(l, todo) PROVE m \in Swallowed(l, log)
    BY <1>1, <1>2, <2>1 DEF Swallowed
  <2>2. ASSUME NEW m \in Swallowed(l, log) PROVE m \in Swallowed(l, todo)
    <3>1. m \in log /\ Rank(l) < Rank(m)
      BY <2>2 DEF Swallowed
    <3>2. m \in todo
      BY <1>1, <1>2, <3>1, RankType
    <3>3. QED
      BY <1>1, <2>2, <3>1, <3>2 DEF Swallowed
  <2>3. QED
    BY <2>1, <2>2
<1>5. Swallowed(l, todo) \subseteq todo \ {l}
  BY <1>1, RankType DEF Swallowed
<1>6. ASSUME NEW m \in Swallowed(l, todo), NEW y \in todo \ {l}, y \notin Swallowed(l, todo)
      PROVE  Rank(m) < Rank(y)
  <2>1. m \in Lines /\ y \in Lines /\ m # y
    BY <1>1, <1>5, <1>6
  <2>2. ASSUME Rank(y) < Rank(m) PROVE FALSE
    <3>1. ASSUME NEW x \in todo, Rank(l) <= Rank(x), Rank(x) < Rank(y) PROVE Open(x)
      <4>1. Rank(x) < Rank(m)
        BY <1>1, <2>1, <2>2, <3>1, RankType
      <4>2. QED
        BY <3>1, <4>1 DEF Swallowed
    <3>2. y \in Swallowed(l, todo)
      BY <1>3, <3>1 DEF Swallowed
    <3>3. QED
      BY <1>6, <3>2
  <2>3. QED
    BY <2>1, <2>2, Trichotomy
<1>7. QED
  BY <1>4, <1>5, <1>6

\* So it is kept, or raises, as it would be in the whole log.
LEMMA SameInLog ==
    ASSUME TypeOK, Ordered, NEW l \in Lines, IsNext(l, todo)
    PROVE  Kept(l, todo) <=> Kept(l, log)
  BY SwallowedAhead DEF Kept, EndsFile

-----------------------------------------------------------------------------
(* Type correctness. *)

\* The script has not run, nothing is logged or stored.
LEMMA TypeInit == Init => TypeOK
<1> SUFFICES ASSUME Init PROVE TypeOK
  OBVIOUS
<1>1. settled \in BOOLEAN
  BY DEF Init
<1>2. /\ log \subseteq Lines /\ todo \subseteq Lines /\ given \subseteq Lines
      /\ tables \subseteq [kind : DOMAIN Kinds, dev : Devices, type : Types]
      /\ made \subseteq [line : Lines, type : Types]
  BY DEF Init
<1>3. le \in [Devices -> {NotYet, 0, 1}] /\ cache \in [Devices -> Types \cup {NotYet}]
  BY DEF Init
<1>4. runs \in 0..MaxImports /\ changes \in 0..MaxChanges
  BY GattImportAssumption DEF Init
<1>5. QED
  BY <1>1, <1>2, <1>3, <1>4 DEF Init, TypeOK

\* Every step of the script, the loggers and the HCI import keeps the types.
LEMMA TypeNext == TypeOK /\ [Next]_vars => TypeOK'
<1> SUFFICES ASSUME TypeOK, [Next]_vars PROVE TypeOK'
  OBVIOUS
<1>1. ASSUME NEW l \in Lines, Logged(l) PROVE TypeOK'
  BY <1>1 DEF Logged, TypeOK, script
<1>2. ASSUME NEW l \in Lines, ImportLine(l) PROVE TypeOK'
  <2>1. Lookup(l) \in Types
    BY LookupType
  <2>2. l.dev \in Devices /\ l.kind \in DOMAIN Kinds
    BY LineFields DEF LineType
  <2>3. cache' \in [Devices -> Types \cup {NotYet}]
    BY <1>2, <2>1, <2>2 DEF ImportLine, TypeOK
  <2>4. tables' \subseteq [kind : DOMAIN Kinds, dev : Devices, type : Types]
    BY <1>2, <2>1, <2>2 DEF ImportLine, TypeOK, Row
  <2>5. made' \subseteq [line : Lines, type : Types]
    BY <1>2, <2>1 DEF ImportLine, TypeOK
  <2>6. QED
    BY <1>2, <2>3, <2>4, <2>5 DEF ImportLine, TypeOK
<1>3. ASSUME End, UNCHANGED <<log, le, tables, runs, changes>>, settled' \in BOOLEAN
      PROVE  TypeOK'
  BY <1>3 DEF End, TypeOK
<1>4. ASSUME NEW l \in Lines, LineRaises(l) PROVE TypeOK'
  BY <1>3, <1>4 DEF LineRaises, TypeOK
<1>5. CASE Killed
  BY <1>3, <1>5 DEF Killed, TypeOK
<1>6. CASE Finish
  <2>1. settled' \in BOOLEAN
    BY <1>6, Zenon DEF Finish, TypeOK
  <2>2. QED
    BY <1>3, <1>6, <2>1 DEF Finish
<1>7. ASSUME NEW d \in Devices, NEW t \in {0, 1}, HciImport(d, t) PROVE TypeOK'
  <2>1. le' \in [Devices -> {NotYet, 0, 1}]
    BY <1>7 DEF HciImport, TypeOK
  <2>2. changes' \in 0..MaxChanges
    BY <1>7, GattImportAssumption DEF HciImport, TypeOK
  <2>3. settled' \in BOOLEAN /\ state' \in {"none", "run", "changed"}
    BY <1>7 DEF HciImport, TypeOK
  <2>4. QED
    BY <1>7, <2>1, <2>2, <2>3 DEF HciImport, TypeOK
<1>8. CASE Start
  BY <1>8, GattImportAssumption DEF Start, TypeOK
<1>9. CASE UNCHANGED vars
  BY <1>9 DEF vars, script, TypeOK
<1>10. QED
  BY <1>1, <1>2, <1>4, <1>5, <1>6, <1>7, <1>8, <1>9 DEF Next
-----------------------------------------------------------------------------
(* One line, and what it does to the run. *)

\* The lines that are read afterwards: one more, and no other is lost.
LEMMA OneMore ==
    ASSUME TypeOK, Ordered, NEW l \in Lines, ImportLine(l)
    PROVE  /\ l \in todo /\ l \notin Read
           /\ Read' = Read \cup {l}
           /\ log' = log /\ le' = le /\ state' = state
           /\ Swallowed(l, todo) \subseteq todo \ {l}
           /\ Swallowed(l, todo) = Swallowed(l, log)
<1>1. IsNext(l, todo)
  BY DEF ImportLine
<1>2. l \in todo
  BY <1>1 DEF IsNext
<1>3. Swallowed(l, todo) \subseteq todo \ {l} /\ Swallowed(l, todo) = Swallowed(l, log)
  BY <1>1, SwallowedAhead
<1>4. QED
  BY <1>2, <1>3 DEF ImportLine, Read, Ordered

\* The reader stays between the lines it has left behind and those it has not reached.
LEMMA OrderedNext ==
    ASSUME TypeOK, Ordered, NEW l \in Lines, ImportLine(l)
    PROVE  Ordered'
<1>1. IsNext(l, todo)
  BY DEF ImportLine
<1>2. todo' \subseteq given' /\ given' \subseteq log'
  BY OneMore DEF ImportLine, Ordered
<1>3. ASSUME NEW x \in log' \ todo', NEW y \in todo' PROVE Rank(x) < Rank(y)
  <2>1. x \in log /\ y \in todo \ {l} /\ y \notin Swallowed(l, todo)
    BY <1>3 DEF ImportLine
  <2>2. x \in Lines /\ y \in Lines
    BY <2>1 DEF TypeOK
  <2>3. CASE x \notin todo
    BY <2>1, <2>3 DEF Ordered
  <2>4. CASE x = l
    BY <1>1, <2>1, <2>2, <2>4, Trichotomy, RankType DEF IsNext
  <2>5. CASE x \in Swallowed(l, todo)
    BY <1>1, <2>1, <2>5, SwallowedAhead
  <2>6. QED
    BY <1>3, <2>3, <2>4, <2>5 DEF ImportLine
<1>4. QED
  BY <1>2, <1>3 DEF Ordered

\* An unfinished line takes those behind it, and nothing else is lost.
LEMMA SwallowsNext ==
    ASSUME TypeOK, Ordered, Swallows, NEW l \in Lines, ImportLine(l)
    PROVE  Swallows'
<1>1. given' = given \ Swallowed(l, log) /\ Read' = Read \cup {l} /\ log' = log
  BY OneMore DEF ImportLine
<1>2. ASSUME NEW x \in log \ given' PROVE \E r \in Read' : x \in Swallowed(r, log)
  BY <1>1, <1>2 DEF Swallows
<1>3. ASSUME NEW r \in Read' PROVE Swallowed(r, log) \cap given' = {}
  BY <1>1, <1>3 DEF Swallows
<1>4. QED
  BY <1>1, <1>2, <1>3 DEF Swallows, Swallowed, Rank, Open

\* A line that is read later does not come first.
LEMMA FirstStays ==
    ASSUME TypeOK, Ordered, NEW l \in Lines, IsNext(l, todo), NEW d \in Devices,
           NEW r \in Read, First(r, Read, d)
    PROVE  First(r, Read \cup {l}, d)
<1>1. r \in log \ todo
  BY DEF Ordered, Read
<1>2. Rank(r) <= Rank(l)
  BY <1>1, RankType DEF Ordered, IsNext, TypeOK
<1>3. QED
  BY <1>2 DEF First

\* The first line of a device fills the cache, and none changes it after that.
LEMMA CachedNext ==
    ASSUME TypeOK, Ordered, Cached, NEW l \in Lines, ImportLine(l)
    PROVE  Cached'
<1> DEFINE A(d, c, S) ==
      IF c = NotYet
      THEN \A r \in S : ~(r.dev = d /\ LooksUp(r))
      ELSE \E r \in S : /\ First(r, S, d)
                        /\ c = OwnType(r) \/ Old(r)
                        /\ state = "run" => c = FirstType(r)
<1>1. IsNext(l, todo) /\ l.dev \in Devices
  BY LineFields DEF ImportLine
<1>2. \A d \in Devices : A(d, cache[d], Read)
  BY DEF Cached
<1>3. ASSUME NEW d \in Devices PROVE A(d, cache'[d], Read \cup {l})
  <2>1. CASE cache[d] # NotYet
    <3>1. cache'[d] = cache[d]
      BY <1>1, <2>1, LookupType DEF ImportLine, TypeOK
    <3>2. PICK r \in Read : /\ First(r, Read, d)
                            /\ cache[d] = OwnType(r) \/ Old(r)
                            /\ state = "run" => cache[d] = FirstType(r)
      BY <1>2, <2>1
    <3>3. First(r, Read \cup {l}, d)
      BY <1>1, <3>2, FirstStays
    <3>4. QED
      BY <2>1, <3>1, <3>2, <3>3
  <2>2. CASE cache[d] = NotYet /\ ~(l.dev = d /\ LooksUp(l))
    <3>1. cache'[d] = cache[d]
      BY <1>1, <2>2 DEF ImportLine, TypeOK
    <3>2. \A r \in Read : ~(r.dev = d /\ LooksUp(r))
      BY <1>2, <2>2
    <3>3. QED
      BY <2>2, <3>1, <3>2
  <2>3. CASE cache[d] = NotYet /\ l.dev = d /\ LooksUp(l)
    <3>1. cache'[d] = Lookup(l)
      BY <1>1, <2>3 DEF ImportLine, TypeOK
    <3>2. \A r \in Read : ~(r.dev = d /\ LooksUp(r))
      BY <1>2, <2>3
    <3>3. First(l, Read \cup {l}, d)
      BY <2>3, <3>2, RankType DEF First
    <3>4. Lookup(l) # NotYet /\ Lookup(l) = FirstType(l) /\ (Lookup(l) = OwnType(l) \/ Old(l))
      BY <2>3, LookupType
    <3>5. QED
      BY <3>1, <3>3, <3>4
  <2>4. QED
    BY <2>1, <2>2, <2>3
<1>4. \A r : FirstType(r)' = FirstType(r)
  BY OneMore DEF FirstType, Old, OwnType
<1>5. QED
  BY <1>3, <1>4, OneMore DEF Cached, First, LooksUp, Is, OwnType, Old

\* The insert is made under the type in the cache, where it stays.
LEMMA MadeNext ==
    ASSUME TypeOK, Ordered, Cached, Made, NEW l \in Lines, ImportLine(l)
    PROVE  Made'
<1>1. IsNext(l, todo) /\ l.dev \in Devices
  BY LineFields DEF ImportLine
<1>2. ASSUME NEW d \in Devices, cache[d] # NotYet PROVE cache'[d] = cache[d]
  BY <1>1, <1>2, LookupType DEF ImportLine, TypeOK
<1>3. LooksUp(l) => cache'[l.dev] = Lookup(l)
  BY <1>1 DEF ImportLine, TypeOK
<1>4. Kept(l, todo) => LooksUp(l)
  BY OwnTypeType
<1>5. ASSUME NEW m \in made'
      PROVE  m.line \in Read' /\ LooksUp(m.line) /\ m.type = cache'[m.line.dev] /\ m.type # NotYet
  <2>1. CASE m \in made
    <3>1. m.line \in Read /\ LooksUp(m.line) /\ m.type = cache[m.line.dev] /\ m.type # NotYet
      BY <2>1 DEF Made
    <3>2. m.line.dev \in Devices
      BY <2>1, LineFields DEF TypeOK
    <3>3. QED
      BY <3>1, <3>2, <1>2, OneMore
  <2>2. CASE Kept(l, todo) /\ m = [line |-> l, type |-> Lookup(l)]
    BY <2>2, <1>3, <1>4, LookupType, OneMore
  <2>3. QED
    BY <2>1, <2>2, <1>5 DEF ImportLine
<1>6. ASSUME NEW x \in Read', Kept(x, log)
      PROVE  /\ [line |-> x, type |-> cache'[x.dev]] \in made'
             /\ Row(x, cache'[x.dev]) \in tables'
  <2>1. CASE x \in Read
    <3>1. x \in Lines /\ x.dev \in Devices
      BY <2>1, LineFields DEF Read, TypeOK
    <3>2. cache[x.dev] # NotYet
      BY <1>6, <2>1, <3>1, OwnTypeType DEF Cached
    <3>3. cache'[x.dev] = cache[x.dev]
      BY <1>2, <3>1, <3>2
    <3>4. QED
      BY <1>6, <2>1, <3>3 DEF Made, ImportLine
  <2>2. CASE x = l
    BY <1>1, <1>3, <1>4, <1>6, <2>2, SameInLog DEF ImportLine
  <2>3. QED
    BY <1>6, <2>1, <2>2, OneMore
<1>7. \A x : Kept(x, log)' <=> Kept(x, log)
  BY OneMore DEF Kept, EndsFile, Is, Swallowed, Open, Rank
<1>8. QED
  BY <1>5, <1>6, <1>7 DEF Made, LooksUp, Is, Row
-----------------------------------------------------------------------------
(* The invariant holds. *)

\* Nothing is under way and nothing is settled.
LEMMA IndInit == Init => IndInv
<1> SUFFICES ASSUME Init PROVE IndInv
  OBVIOUS
<1>1. TypeOK
  BY TypeInit
<1>2. ~Running /\ ~settled
  BY DEF Init, Running
<1>3. RestInv
  BY DEF Init, RestInv
<1>4. QED
  BY <1>1, <1>2, <1>3 DEF IndInv, RunInv, SettledInv

\* The steps keep what is known of the run that is under way.
LEMMA RunNext == IndInv /\ [Next]_vars => RunInv' /\ RestInv'
<1> SUFFICES ASSUME IndInv, [Next]_vars PROVE RunInv' /\ RestInv'
  OBVIOUS
<1> USE DEF IndInv
<1>1. ASSUME NEW l \in Lines, Logged(l) PROVE RunInv' /\ RestInv'
  BY <1>1 DEF Logged, script, RunInv, RestInv, Running
<1>2. ASSUME NEW l \in Lines, ImportLine(l) PROVE RunInv' /\ RestInv'
  <2>1. Running /\ Running'
    BY <1>2 DEF ImportLine, Running
  <2>2. Ordered /\ Swallows /\ Cached /\ Made
    BY <2>1 DEF RunInv
  <2>3. Ordered' /\ Swallows' /\ Cached' /\ Made'
    BY <1>2, <2>2, OrderedNext, SwallowsNext, CachedNext, MadeNext
  <2>4. QED
    BY <2>1, <2>3 DEF RunInv, RestInv
<1>3. ASSUME End PROVE RunInv' /\ RestInv'
  BY <1>3 DEF End, RunInv, RestInv, Running
<1>4. ASSUME NEW d \in Devices, NEW t \in {0, 1}, HciImport(d, t) PROVE RunInv' /\ RestInv'
  <2>1. CASE Running
    <3>1. Running' /\ state' = "changed"
      BY <1>4, <2>1 DEF HciImport, Running
    <3>2. Ordered /\ Swallows /\ Cached /\ Made
      BY <2>1 DEF RunInv
    <3>3. Ordered' /\ Swallows' /\ Made'
      BY <1>4, <3>2 DEF HciImport, Ordered, Swallows, Made, Read, Swallowed, Open, Rank, Kept, EndsFile, Is, LooksUp, Row
    <3>4. Cached'
      BY <1>4, <3>1, <3>2 DEF HciImport, Cached, Read, First, LooksUp, Is, OwnType, Old
    <3>5. QED
      BY <3>1, <3>3, <3>4 DEF RunInv, RestInv
  <2>2. CASE ~Running
    BY <1>4, <2>2 DEF HciImport, RunInv, RestInv, Running
  <2>3. QED
    BY <2>1, <2>2
<1>5. CASE Start
  <2>1. Running' /\ todo' = log' /\ given' = log' /\ made' = {} /\ Read' = {}
    BY <1>5 DEF Start, Running, Read
  <2>2. \A d \in Devices : cache'[d] = NotYet
    BY <1>5 DEF Start
  <2>3. Ordered' /\ Swallows' /\ Cached' /\ Made'
    BY <2>1, <2>2 DEF Ordered, Swallows, Cached, Made
  <2>4. QED
    BY <2>1, <2>3 DEF RunInv, RestInv
<1>6. CASE UNCHANGED vars
  BY <1>6 DEF vars, script, RunInv, RestInv, Running, Ordered, Swallows, Cached, Made, Read,
              First, FirstType, Swallowed, Open, Rank, Kept, EndsFile, Is, LooksUp, OwnType, Old, Row
<1>7. QED
  BY <1>1, <1>2, <1>3, <1>4, <1>5, <1>6 DEF Next, LineRaises, Killed, Finish

\* The run reads the next line as the whole import did, under the type that it found: this
\* is why a row it adds was there.
LEMMA NextIsFollowed ==
    ASSUME TypeOK, Ordered, Swallows, Cached, NEW l \in Lines, IsNext(l, todo), Running,
           NEW R \in SUBSET Lines, NEW c, Whole(R, c), Follows(R, c), state = "run"
    PROVE  /\ l \in R
           /\ Swallowed(l, todo) \cap R = {}
           /\ LooksUp(l) => Lookup(l) = c[l.dev]
<1>1. l \in todo /\ l \in given /\ l \in log
  BY DEF IsNext, Ordered
<1>2. R \ todo = Read
  BY DEF Follows
<1>3. l \in R
  <2> SUFFICES ASSUME l \notin R PROVE FALSE
    OBVIOUS
  <2>1. PICK r \in R : l \in Swallowed(r, log)
    BY <1>1 DEF Whole
  <2>2. r \notin todo
    BY <2>1, RankType DEF Swallowed, IsNext, TypeOK
  <2>3. r \in Read
    BY <1>2, <2>1, <2>2
  <2>4. QED
    BY <1>1, <2>1, <2>3 DEF Swallows
<1>4. Swallowed(l, todo) \cap R = {}
  BY <1>3, SwallowedAhead DEF Whole
<1>5. ASSUME LooksUp(l) PROVE Lookup(l) = c[l.dev]
  <2>1. l.dev \in Devices
    BY LineFields
  <2>2. CASE cache[l.dev] # NotYet
    BY <2>1, <2>2, LookupType DEF Follows
  <2>3. CASE cache[l.dev] = NotYet
    <3>1. \A r \in Read : ~(r.dev = l.dev /\ LooksUp(r))
      BY <2>1, <2>3 DEF Cached
    <3>2. ASSUME NEW q \in R, q.dev = l.dev, LooksUp(q) PROVE Rank(l) <= Rank(q)
      <4>1. q \in todo
        BY <1>2, <3>1, <3>2
      <4>2. QED
        BY <4>1 DEF IsNext
    <3>3. First(l, R, l.dev)
      BY <1>3, <1>5, <3>2 DEF First
    <3>4. QED
      BY <1>3, <2>3, <3>3, LookupType DEF Whole
  <2>4. QED
    BY <2>2, <2>3
<1>6. QED
  BY <1>3, <1>4, <1>5

\* The first line of a device is one line.
LEMMA FirstUnique ==
    ASSUME NEW S \in SUBSET Lines, NEW d, NEW r \in S, NEW q \in S, First(r, S, d), First(q, S, d)
    PROVE  r = q
  BY RankInjective, RankType DEF First

\* A run that reads the log to its end, with the HCI tables as they were, is whole.
LEMMA FinishedIsWhole ==
    ASSUME TypeOK, Ordered, Swallows, Cached, Made, state = "run", todo = {}
    PROVE  Whole(given, cache)
<1>1. Read = given /\ given \in SUBSET Lines
  BY DEF Read, TypeOK
<1>2. ASSUME NEW r \in given, First(r, given, r.dev) PROVE cache[r.dev] = FirstType(r)
  <2>1. r.dev \in Devices /\ LooksUp(r)
    BY <1>1, <1>2, LineFields DEF First
  <2>2. PICK q \in given : First(q, given, r.dev) /\ cache[r.dev] = FirstType(q)
    BY <1>1, <2>1 DEF Cached
  <2>3. r = q
    BY <1>1, <1>2, <2>2, FirstUnique
  <2>4. QED
    BY <2>2, <2>3
<1>3. QED
  BY <1>1, <1>2 DEF Whole, Ordered, Swallows, Made

\* The steps keep the whole import that settled the tables.
LEMMA SettledNext == IndInv /\ [Next]_vars => SettledInv' /\ (settled => tables' = tables)
<1> SUFFICES ASSUME IndInv, [Next]_vars
             PROVE  SettledInv' /\ (settled => tables' = tables)
  OBVIOUS
<1> USE DEF IndInv
<1> DEFINE C == [Devices -> Types \cup {NotYet}]
<1>1. ASSUME settled' = FALSE, tables' = tables PROVE SettledInv' /\ (settled => tables' = tables)
  BY <1>1 DEF SettledInv
<1>2. ASSUME NEW l \in Lines, ImportLine(l)
      PROVE  SettledInv' /\ (settled => tables' = tables)
  <2> SUFFICES ASSUME settled PROVE SettledInv' /\ tables' = tables
    BY <1>2 DEF ImportLine, SettledInv
  <2>1. /\ Running /\ state = "run" /\ Running' /\ state' = "run"
        /\ IsNext(l, todo) /\ l.dev \in Devices
    BY <1>2, LineFields DEF ImportLine, Running, SettledInv
  <2>2. Ordered /\ Swallows /\ Cached
    BY <2>1 DEF RunInv
  <2>3. PICK R \in SUBSET Lines, c \in C : Whole(R, c) /\ Follows(R, c)
    BY DEF SettledInv
  <2>4. /\ l \in R /\ Swallowed(l, todo) \cap R = {}
        /\ LooksUp(l) => Lookup(l) = c[l.dev]
    BY <2>1, <2>2, <2>3, NextIsFollowed
  <2>5. tables' = tables
    <3>1. Kept(l, todo) => Row(l, Lookup(l)) \in tables
      BY <2>1, <2>2, <2>3, <2>4, OwnTypeType, SameInLog DEF Whole
    <3>2. QED
      BY <1>2, <3>1 DEF ImportLine
  <2>6. Whole(R, c)'
    BY <2>3, <2>5, <2>2, <1>2, OneMore DEF Whole, Swallowed, Open, Rank, Kept, EndsFile,
          First, FirstType, LooksUp, Is, OwnType, Old, Row
  <2>7. Follows(R, c)'
    <3>1. R \ todo' = Read'
      BY <1>2, <2>1, <2>2, <2>3, <2>4, OneMore DEF Follows, ImportLine
    <3>2. ASSUME NEW d \in Devices, cache'[d] # NotYet PROVE cache'[d] = c[d]
      <4>1. CASE LooksUp(l) /\ d = l.dev
        BY <1>2, <2>1, <2>4, <4>1 DEF ImportLine, TypeOK
      <4>2. CASE ~(LooksUp(l) /\ d = l.dev)
        BY <1>2, <2>1, <2>3, <3>2, <4>2 DEF ImportLine, TypeOK, Follows
      <4>3. QED
        BY <4>1, <4>2
    <3>3. QED
      BY <3>1, <3>2 DEF Follows
  <2>8. QED
    BY <2>1, <2>3, <2>5, <2>6, <2>7 DEF SettledInv
<1>3. ASSUME NEW R, NEW c, Whole(R, c), UNCHANGED <<log, le, tables>>
      PROVE  Whole(R, c)'
  BY <1>3 DEF Whole, Swallowed, Open, Rank, Kept, EndsFile, First, FirstType, LooksUp, Is,
              OwnType, Old, Row
<1>4. ASSUME End, UNCHANGED <<log, le, tables, settled>>
      PROVE  SettledInv' /\ (settled => tables' = tables)
  <2> SUFFICES ASSUME settled PROVE SettledInv'
    BY <1>4 DEF SettledInv
  <2>1. PICK R \in SUBSET Lines, c \in C : Whole(R, c)
    BY DEF SettledInv
  <2>2. Whole(R, c)'
    BY <1>3, <1>4, <2>1
  <2>3. ~Running' /\ state' # "changed"
    BY <1>4 DEF End, Running
  <2>4. QED
    BY <2>2, <2>3 DEF SettledInv, Follows
<1>5. CASE Start
  <2> SUFFICES ASSUME settled PROVE SettledInv' /\ tables' = tables
    BY <1>5 DEF Start, SettledInv
  <2>1. PICK R \in SUBSET Lines, c \in C : Whole(R, c)
    BY DEF SettledInv
  <2>2. Whole(R, c)' /\ tables' = tables /\ state' # "changed"
    BY <1>3, <1>5, <2>1 DEF Start
  <2>3. R \ todo' = Read' /\ \A d \in Devices : cache'[d] = NotYet
    BY <1>5, <2>1 DEF Start, Read, Whole
  <2>4. QED
    BY <2>2, <2>3 DEF SettledInv, Follows
<1>6. CASE Finish
  <2>1. CASE settled' = settled
    BY <1>4, <1>6, <2>1 DEF Finish
  <2>2. CASE settled' # settled
    <3>1. ~settled /\ Running /\ state = "run" /\ todo = {} /\ End /\ UNCHANGED <<log, le, tables>>
      BY <1>6, <2>2, Zenon DEF Finish, TypeOK
    <3>2. Whole(given, cache)
      BY <3>1, FinishedIsWhole DEF RunInv
    <3>3. \E R \in SUBSET Lines, c \in C : Whole(R, c)'
      BY <1>3, <3>1, <3>2 DEF TypeOK
    <3>4. ~Running' /\ state' # "changed"
      BY <3>1 DEF End, Running
    <3>5. QED
      BY <3>1, <3>3, <3>4 DEF SettledInv, Follows
  <2>3. QED
    BY <2>1, <2>2
<1>7. CASE UNCHANGED vars
  <2> SUFFICES ASSUME settled PROVE SettledInv' /\ tables' = tables
    BY <1>7 DEF vars, SettledInv
  <2>1. PICK R \in SUBSET Lines, c \in C : Whole(R, c) /\ Follows(R, c)
    BY DEF SettledInv
  <2>2. Whole(R, c)' /\ Follows(R, c)'
    BY <1>3, <1>7, <2>1 DEF vars, script, Follows, Running, Read
  <2>3. QED
    BY <1>7, <2>2 DEF vars, script, SettledInv
<1>8. QED
  BY <1>1, <1>2, <1>4, <1>5, <1>6, <1>7
     DEF Next, Logged, HciImport, LineRaises, Killed

\* The invariant is inductive.
THEOREM Inductive == Spec => []IndInv
<1>1. Init => IndInv
  BY IndInit
<1>2. IndInv /\ [Next]_vars => IndInv'
  BY TypeNext, RunNext, SettledNext DEF IndInv
<1>3. QED
  BY <1>1, <1>2, PTL DEF Spec

\* Every variable keeps its type.
THEOREM TypeCorrect == Spec => []TypeOK
<1>1. IndInv => TypeOK
  BY DEF IndInv
<1>2. QED
  BY <1>1, Inductive, PTL

\* One run stores everything of a device under one type (parse_GATTPRINT_2db.py:243-289).
THEOREM OneType == Spec => []OneTypePerRun
<1>1. IndInv => OneTypePerRun
  BY DEF IndInv, RunInv, RestInv, Made, OneTypePerRun
<1>2. QED
  BY <1>1, Inductive, PTL

\* Wherever the script is interrupted, each proper line up to there is stored, unless it
\* is in the record of an unfinished one (parse_GATTPRINT_2db.py:296-330).
THEOREM Stored == Spec => []ReadIsStored
<1>1. IndInv => ReadIsStored
  <2> SUFFICES ASSUME IndInv, Running, NEW l \in log \ todo, Is(l, "good"),
                      \A r \in log : l \notin Swallowed(r, log)
               PROVE  \E m \in made : m.line = l /\ Row(l, m.type) \in tables
    BY DEF ReadIsStored
  <2>1. Read \subseteq log /\ Swallows /\ Made
    BY DEF IndInv, RunInv, Ordered, Read
  <2>2. l \in Read
    BY <2>1 DEF Swallows, Read
  <2>3. [line |-> l, type |-> cache[l.dev]] \in made /\ Row(l, cache[l.dev]) \in tables
    BY <2>1, <2>2 DEF Made, Kept
  <2>4. QED
    BY <2>3
<1>2. QED
  BY <1>1, Inductive, PTL

\* A line with a type of its own is stored under another only when the log mixes types
\* (parse_GATTPRINT_2db.py:253-289): the first line of the device is the one to blame.
THEOREM OwnTypeKept == Spec => []OwnTypeUnlessMixed
<1>1. IndInv => OwnTypeUnlessMixed
  <2> SUFFICES ASSUME IndInv, NEW m \in made, OwnType(m.line) \in {0, 1},
                      m.type # OwnType(m.line)
               PROVE  \E l \in log : /\ l.dev = m.line.dev /\ Rank(l) < Rank(m.line)
                                     /\ LooksUp(l) /\ OwnType(l) # OwnType(m.line)
    BY DEF OwnTypeUnlessMixed
  <2> DEFINE d == m.line.dev
  <2>1. Running /\ Ordered /\ Cached /\ Made /\ TypeOK
    BY DEF IndInv, RestInv, RunInv
  <2>2. m.line \in Read /\ LooksUp(m.line) /\ cache[d] = m.type /\ m.type # NotYet
    BY <2>1 DEF Made
  <2>3. m.line \in Lines /\ d \in Devices
    BY <2>1, <2>2, LineFields DEF Read, TypeOK
  <2>4. PICK r \in Read : First(r, Read, d) /\ (cache[d] = OwnType(r) \/ Old(r))
    BY <2>1, <2>2, <2>3 DEF Cached
  <2>5. r \in log /\ r \in Lines /\ Rank(r) <= Rank(m.line) /\ LooksUp(r) /\ r.dev = d
    BY <2>1, <2>2, <2>4 DEF First, Read, Ordered, TypeOK
  <2>6. OwnType(r) # OwnType(m.line)
    BY <2>2, <2>4, OwnTypeType DEF Unknown
  <2>7. Rank(r) < Rank(m.line)
    BY <2>3, <2>5, <2>6, Trichotomy, RankType
  <2>8. QED
    BY <2>5, <2>6, <2>7
<1>2. QED
  BY <1>1, Inductive, PTL

\* Importing the same log again adds nothing, wherever runs were interrupted
\* (parse_GATTPRINT_2db.py:21-24).
THEOREM RepeatIsIdle == Spec => RepeatAddsNothing
<1>1. IndInv /\ [Next]_vars => [settled => tables' = tables]_vars
  BY SettledNext
<1>2. QED
  BY <1>1, Inductive, PTL DEF Spec, RepeatAddsNothing
=============================================================================
