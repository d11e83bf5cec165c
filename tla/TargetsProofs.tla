---------------------------- MODULE TargetsProofs -----------------------------
(***************************************************************************)
(* Theorems about Targets.                                                 *)
(***************************************************************************)
EXTENDS Targets, FoldProofs

(* The subsets of 1..n, and the prefixes among them. *)
LEMMA MaxOfIntegers ==
    ASSUME NEW n \in Nat, NEW s \in SUBSET (1..n), s # {}
    PROVE  Max(s) \in s /\ \A y \in s : Max(s) >= y
<1> DEFINE T == {k \in Nat : \E x \in s : k = n - x}
<1>1. PICK x \in s : TRUE
  OBVIOUS
<1>2. n - x \in T
  BY <1>1
<1>3. PICK k \in T : \A l \in T : k <= l
  BY <1>2, LeastElement
<1>4. PICK z \in s : k = n - z
  BY <1>3
<1>5. ASSUME NEW y \in s PROVE z >= y
  <2>1. n - y \in Nat /\ \E w \in s : n - y = n - w
    OBVIOUS
  <2> QED
    BY <1>3, <1>4, <2>1
<1> QED
  BY <1>5 DEF Max

LEMMA Prefix ==
    ASSUME NEW n \in Nat, NEW k \in 1..n
    PROVE  /\ 1..k \in SUBSET (1..n) /\ 1..(k - 1) \in SUBSET (1..n)
           /\ 1..k # {} /\ Max(1..k) = k /\ (1..k) \ {k} = 1..(k - 1)
<1>1. 1..k \in SUBSET (1..n) /\ 1..(k - 1) \in SUBSET (1..n) /\ k \in 1..k
  OBVIOUS
<1>2. Max(1..k) \in 1..k /\ \A y \in 1..k : Max(1..k) >= y
  BY <1>1, MaxOfIntegers
<1>3. Max(1..k) = k
  BY <1>1, <1>2
<1> QED
  BY <1>1, <1>3

-----------------------------------------------------------------------------
(* load_settings. *)

Entry == Names \cup {Blank, Malformed}

Nothing == [ok |-> TRUE, names |-> <<>>]

(* The function ParseTargets(entries) is defined by. *)
Parsing(entries) ==
    CHOOSE iter : iter = [s \in SUBSET (DOMAIN entries) |->
        IF s = {} THEN Nothing ELSE AddEntry(iter[s \ {Max(s)}], entries[Max(s)])]

Parses(iter, entries) ==
    iter = [s \in SUBSET (DOMAIN entries) |->
        IF s = {} THEN Nothing ELSE AddEntry(iter[s \ {Max(s)}], entries[Max(s)])]

LEMMA ParseIsParsing ==
    ASSUME NEW entries
    PROVE  ParseTargets(entries) = Parsing(entries)[DOMAIN entries]
BY DEF ParseTargets, FoldLeft, MapThenFoldSet, Parsing, Nothing

LEMMA AddEntryType ==
    ASSUME NEW parsed \in Parsed, NEW entry \in Entry
    PROVE  AddEntry(parsed, entry) \in Parsed
<1>1. CASE ~parsed.ok \/ entry = Blank
  BY <1>1 DEF AddEntry
<1>2. CASE /\ ~(~parsed.ok \/ entry = Blank)
           /\ entry = Malformed \/ entry \in ToSet(parsed.names)
  <2>1. AddEntry(parsed, entry) = [parsed EXCEPT !.ok = FALSE]
    BY <1>2 DEF AddEntry
  <2> QED
    BY <2>1 DEF Parsed
<1>3. CASE /\ ~(~parsed.ok \/ entry = Blank)
           /\ ~(entry = Malformed \/ entry \in ToSet(parsed.names))
  <2>1. AddEntry(parsed, entry) = [parsed EXCEPT !.names = Append(@, entry)]
    BY <1>3 DEF AddEntry
  <2>2. entry \in Names
    BY <1>3 DEF Entry
  <2>3. parsed.ok \in BOOLEAN /\ Append(parsed.names, entry) \in Seq(Names)
    BY <2>2 DEF Parsed
  <2>4. [parsed EXCEPT !.names = Append(@, entry)]
            = [ok |-> parsed.ok, names |-> Append(parsed.names, entry)]
    BY DEF Parsed
  <2> QED
    BY <2>1, <2>3, <2>4 DEF Parsed
<1> QED
  BY <1>1, <1>2, <1>3

LEMMA ParsingExists ==
    ASSUME NEW entries \in Seq(Entry)
    PROVE  Parses(Parsing(entries), entries)
<1> DEFINE D == DOMAIN entries
           pick == [s \in SUBSET D |-> Max(s)]
           G == [p \in D \X Parsed |-> AddEntry(p[2], entries[p[1]])]
<1>1. D = 1..Len(entries) /\ Len(entries) \in Nat /\ IsFiniteSet(D)
  BY FS_Interval
<1>2. Picks(pick, D)
  BY <1>1, MaxOfIntegers DEF Picks
<1>3. G \in [D \X Parsed -> Parsed]
  BY AddEntryType
<1>4. Nothing \in Parsed
  BY DEF Nothing, Parsed
<1> HIDE DEF G, D
<1>5. PICK it \in [SUBSET D -> Parsed] : Solves(it, D, Nothing, pick, G)
  <2> HIDE DEF pick
  <2> QED
    BY <1>1, <1>2, <1>3, <1>4, SetRecursion
<1>6. ASSUME NEW s \in SUBSET D, s # {}
      PROVE  it[s] = AddEntry(it[s \ {Max(s)}], entries[Max(s)])
  <2>1. Max(s) \in D /\ it[s \ {Max(s)}] \in Parsed /\ pick[s] = Max(s)
    BY <1>2, <1>6 DEF Picks
  <2>2. it[s] = G[<<Max(s), it[s \ {Max(s)}]>>]
    BY <1>5, <1>6, <2>1 DEF Solves
  <2>3. <<Max(s), it[s \ {Max(s)}]>> \in D \X Parsed
    BY <2>1
  <2> QED
    BY <2>2, <2>3 DEF G
<1>7. it = [s \in SUBSET D |->
               IF s = {} THEN Nothing ELSE AddEntry(it[s \ {Max(s)}], entries[Max(s)])]
  BY <1>5, <1>6 DEF Solves
<1> QED
  BY <1>7 DEF Parsing, Parses, D
(* The function Named is defined by. *)
Naming(entries) ==
    CHOOSE iter : iter = [s \in SUBSET (DOMAIN entries) |->
        IF s = {} THEN <<>> ELSE AddName(iter[s \ {Max(s)}], entries[Max(s)])]

NamesOf(iter, entries) ==
    iter = [s \in SUBSET (DOMAIN entries) |->
        IF s = {} THEN <<>> ELSE AddName(iter[s \ {Max(s)}], entries[Max(s)])]

NamedIn(entries) == FoldLeft(AddName, <<>>, entries)

LEMMA NamedIsNaming ==
    ASSUME NEW entries
    PROVE  NamedIn(entries) = Naming(entries)[DOMAIN entries]
BY DEF NamedIn, FoldLeft, MapThenFoldSet, Naming

LEMMA NamingExists ==
    ASSUME NEW entries \in Seq(Entry)
    PROVE  NamesOf(Naming(entries), entries)
<1> DEFINE D == DOMAIN entries
           V == Seq(Names)
           pick == [s \in SUBSET D |-> Max(s)]
           G == [p \in D \X V |-> AddName(p[2], entries[p[1]])]
<1>1. D = 1..Len(entries) /\ Len(entries) \in Nat /\ IsFiniteSet(D)
  BY FS_Interval
<1>2. Picks(pick, D)
  BY <1>1, MaxOfIntegers DEF Picks
<1>3. G \in [D \X V -> V]
  BY DEF AddName
<1>4. <<>> \in V
  OBVIOUS
<1> HIDE DEF G, D, V
<1>5. PICK it \in [SUBSET D -> V] : Solves(it, D, <<>>, pick, G)
  <2> HIDE DEF pick
  <2> QED
    BY <1>1, <1>2, <1>3, <1>4, SetRecursion
<1>6. ASSUME NEW s \in SUBSET D, s # {}
      PROVE  it[s] = AddName(it[s \ {Max(s)}], entries[Max(s)])
  <2>1. Max(s) \in D /\ it[s \ {Max(s)}] \in V /\ pick[s] = Max(s)
    BY <1>2, <1>6 DEF Picks
  <2>2. it[s] = G[<<Max(s), it[s \ {Max(s)}]>>]
    BY <1>5, <1>6, <2>1 DEF Solves
  <2>3. <<Max(s), it[s \ {Max(s)}]>> \in D \X V
    BY <2>1
  <2> QED
    BY <2>2, <2>3 DEF G
<1>7. it = [s \in SUBSET D |->
               IF s = {} THEN <<>> ELSE AddName(it[s \ {Max(s)}], entries[Max(s)])]
  BY <1>5, <1>6 DEF Solves
<1> QED
  BY <1>7 DEF Naming, NamesOf, D

(* One entry after the other. *)
LEMMA EntryByEntry ==
    ASSUME NEW entries \in Seq(Entry)
    PROVE  /\ Parsing(entries)[1..0] = Nothing
           /\ Naming(entries)[1..0] = <<>>
           /\ \A k \in 1..Len(entries) :
                 /\ Parsing(entries)[1..k]
                        = AddEntry(Parsing(entries)[1..(k - 1)], entries[k])
                 /\ Naming(entries)[1..k]
                        = AddName(Naming(entries)[1..(k - 1)], entries[k])
<1>1. PICK p, m : p = Parsing(entries) /\ m = Naming(entries)
  OBVIOUS
<1>2. Parses(p, entries) /\ NamesOf(m, entries)
  BY <1>1, ParsingExists, NamingExists
<1>3. DOMAIN entries = 1..Len(entries) /\ Len(entries) \in Nat /\ 1..0 = {}
  OBVIOUS
<1>4. p[1..0] = Nothing /\ m[1..0] = <<>>
  BY <1>2, <1>3 DEF Parses, NamesOf
<1>5. ASSUME NEW k \in 1..Len(entries)
      PROVE  /\ p[1..k] = AddEntry(p[1..(k - 1)], entries[k])
             /\ m[1..k] = AddName(m[1..(k - 1)], entries[k])
  <2>1. /\ 1..k \in SUBSET (DOMAIN entries) /\ 1..k # {}
        /\ Max(1..k) = k /\ (1..k) \ {k} = 1..(k - 1)
    BY <1>3, Prefix
  <2>2. /\ p[1..k] = AddEntry(p[(1..k) \ {Max(1..k)}], entries[Max(1..k)])
        /\ m[1..k] = AddName(m[(1..k) \ {Max(1..k)}], entries[Max(1..k)])
    BY <1>2, <2>1 DEF Parses, NamesOf
  <2> QED
    BY <2>1, <2>2
<1> QED
  BY <1>1, <1>4, <1>5
(* What is known after the first k entries. *)
SoFar(entries, k) ==
    LET parsed == Parsing(entries)[1..k]
        names == Naming(entries)[1..k] IN
    /\ parsed \in Parsed /\ names \in Seq(Names)
    /\ parsed.ok => /\ parsed.names = names
                    /\ IsInjective(names)
                    /\ \A i \in 1..k : entries[i] # Malformed
    /\ (names = <<>>) <=> \A i \in 1..k : entries[i] \notin Names

LEMMA NextEntry ==
    ASSUME NEW parsed \in Parsed, NEW names \in Seq(Names), NEW entry \in Entry,
           parsed.ok => parsed.names = names /\ IsInjective(names)
    PROVE  /\ AddEntry(parsed, entry) \in Parsed
           /\ AddName(names, entry) \in Seq(Names)
           /\ AddEntry(parsed, entry).ok =>
                 /\ parsed.ok /\ entry # Malformed
                 /\ AddEntry(parsed, entry).names = AddName(names, entry)
                 /\ IsInjective(AddName(names, entry))
           /\ AddName(names, entry) = <<>> <=> names = <<>> /\ entry \notin Names
<1>1. AddEntry(parsed, entry) \in Parsed
  BY AddEntryType
<1>2. AddName(names, entry) \in Seq(Names)
  BY DEF AddName
<1>3. AddName(names, entry) = <<>> <=> names = <<>> /\ entry \notin Names
  BY DEF AddName
<1>4. ASSUME AddEntry(parsed, entry).ok
      PROVE  /\ parsed.ok /\ entry # Malformed
             /\ AddEntry(parsed, entry).names = AddName(names, entry)
             /\ IsInjective(AddName(names, entry))
  <2>1. parsed.ok
    BY <1>4 DEF AddEntry
  <2>2. CASE entry = Blank
    BY <2>1, <2>2, TargetsAssumption DEF AddEntry, AddName
  <2>3. CASE entry # Blank
    <3>1. entry # Malformed /\ entry \notin ToSet(names)
      <4>1. (entry = Malformed \/ entry \in ToSet(parsed.names)) =>
                AddEntry(parsed, entry) = [parsed EXCEPT !.ok = FALSE]
        BY <2>1, <2>3 DEF AddEntry
      <4> QED
        BY <1>4, <2>1, <4>1 DEF Parsed
    <3>2. entry \in Names
      BY <2>3, <3>1 DEF Entry
    <3>3. AddEntry(parsed, entry) = [parsed EXCEPT !.names = Append(@, entry)]
      BY <2>1, <2>3, <3>1 DEF AddEntry
    <3>4. AddName(names, entry) = Append(names, entry)
      BY <3>2 DEF AddName
    <3>5. IsInjective(Append(names, entry))
      BY <2>1, <3>1, <3>2 DEF IsInjective, ToSet
    <3> QED
      BY <2>1, <3>1, <3>3, <3>4, <3>5 DEF Parsed
  <2> QED
    BY <2>2, <2>3
<1> QED
  BY <1>1, <1>2, <1>3, <1>4

(* _parse_targets: what it returns is the names listed, in their order and *)
(* each once, and nothing was malformed.                                   *)
LEMMA ParseIsSound ==
    ASSUME NEW entries \in Seq(Entry)
    PROVE  /\ ParseTargets(entries) \in Parsed
           /\ NamedIn(entries) \in Seq(Names)
           /\ ParseTargets(entries).ok =>
                 /\ ParseTargets(entries).names = NamedIn(entries)
                 /\ IsInjective(NamedIn(entries))
                 /\ Malformed \notin ToSet(entries)
           /\ NamedIn(entries) = <<>> <=> ToSet(entries) \cap Names = {}
<1> DEFINE S == {k \in Nat : k <= Len(entries) => SoFar(entries, k)}
<1>1. Len(entries) \in Nat /\ DOMAIN entries = 1..Len(entries) /\ 1..0 = {}
  OBVIOUS
<1>2. 0 \in S
  <2>1. Parsing(entries)[1..0] = Nothing /\ Naming(entries)[1..0] = <<>>
    BY EntryByEntry
  <2>2. Nothing \in Parsed /\ Nothing.names = <<>> /\ IsInjective(<<>>)
    BY DEF Nothing, Parsed, IsInjective
  <2>3. \A i \in 1..0 : FALSE
    OBVIOUS
  <2>4. PICK parsed, names : /\ parsed = Parsing(entries)[1..0]
                             /\ names = Naming(entries)[1..0]
    OBVIOUS
  <2>5. parsed \in Parsed /\ names = <<>> /\ parsed.names = names /\ IsInjective(names)
    BY <2>1, <2>2, <2>4
  <2>6. SoFar(entries, 0)
    BY <2>3, <2>4, <2>5 DEF SoFar
  <2> QED
    BY <2>6
<1>3. ASSUME NEW k \in Nat, k \in S PROVE k + 1 \in S
  <2> SUFFICES ASSUME k + 1 <= Len(entries) PROVE SoFar(entries, k + 1)
    OBVIOUS
  <2>1. PICK parsed, names : /\ parsed = Parsing(entries)[1..k]
                             /\ names = Naming(entries)[1..k]
    OBVIOUS
  <2>2. /\ parsed \in Parsed /\ names \in Seq(Names)
        /\ parsed.ok => /\ parsed.names = names
                        /\ IsInjective(names)
                        /\ \A i \in 1..k : entries[i] # Malformed
        /\ (names = <<>>) <=> \A i \in 1..k : entries[i] \notin Names
    BY <1>3, <2>1 DEF SoFar
  <2>3. PICK entry \in Entry : entry = entries[k + 1]
    BY <1>1
  <2>4. k + 1 \in 1..Len(entries) /\ (k + 1) - 1 = k
    BY <1>1
  <2>5. /\ Parsing(entries)[1..(k + 1)] = AddEntry(parsed, entry)
        /\ Naming(entries)[1..(k + 1)] = AddName(names, entry)
    BY <2>1, <2>3, <2>4, EntryByEntry
  <2>6. \A i \in 1..(k + 1) : i \in 1..k \/ i = k + 1
    OBVIOUS
  <2>7. k + 1 \in 1..(k + 1) /\ 1..k \subseteq 1..(k + 1)
    OBVIOUS
  <2>8. /\ AddEntry(parsed, entry) \in Parsed
        /\ AddName(names, entry) \in Seq(Names)
        /\ AddEntry(parsed, entry).ok =>
              /\ parsed.ok /\ entry # Malformed
              /\ AddEntry(parsed, entry).names = AddName(names, entry)
              /\ IsInjective(AddName(names, entry))
        /\ AddName(names, entry) = <<>> <=> names = <<>> /\ entry \notin Names
    BY <2>2, NextEntry
  <2>9. AddEntry(parsed, entry).ok => \A i \in 1..(k + 1) : entries[i] # Malformed
    BY <2>2, <2>3, <2>6, <2>8
  <2>10. AddName(names, entry) = <<>> <=> \A i \in 1..(k + 1) : entries[i] \notin Names
    BY <2>2, <2>3, <2>6, <2>7, <2>8
  <2> QED
    BY <2>5, <2>8, <2>9, <2>10 DEF SoFar
<1> HIDE DEF S
<1>4. \A k \in Nat : k \in S
  BY <1>2, <1>3, NatSetInduction
<1>5. SoFar(entries, Len(entries))
  BY <1>1, <1>4 DEF S
<1>6. /\ ParseTargets(entries) = Parsing(entries)[1..Len(entries)]
      /\ NamedIn(entries) = Naming(entries)[1..Len(entries)]
  BY <1>1, ParseIsParsing, NamedIsNaming
<1> QED
  BY <1>1, <1>5, <1>6 DEF SoFar, ToSet
LEMMA LoadIsSound ==
    ASSUME NEW e \in Environments, LoadSettings(e).ok
    PROVE  LET names == LoadSettings(e).names IN
           /\ names \in Seq(Names) /\ names # <<>> /\ IsInjective(names)
           /\ names = IF NamedIn(e.entries) = <<>> THEN <<Local>> ELSE NamedIn(e.entries)
           /\ Malformed \notin ToSet(e.entries)
<1>1. e.entries \in Seq(Entry)
  BY TargetsAssumption DEF Entry
<1>2. /\ NamedIn(e.entries) \in Seq(Names)
      /\ NamedIn(e.entries) = <<>> <=> ToSet(e.entries) \cap Names = {}
  BY <1>1, ParseIsSound
<1>3. CASE ToSet(e.entries) \subseteq {Blank}
  <2>1. LoadSettings(e).names = <<Local>>
    BY <1>3 DEF LoadSettings
  <2>2. NamedIn(e.entries) = <<>> /\ Malformed \notin ToSet(e.entries)
    BY <1>2, <1>3, TargetsAssumption
  <2>3. <<Local>> \in Seq(Names) /\ IsInjective(<<Local>>)
    BY TargetsAssumption DEF IsInjective
  <2> QED
    BY <2>1, <2>2, <2>3
<1>4. CASE ~(ToSet(e.entries) \subseteq {Blank})
  <2>1. LoadSettings(e) = ParseTargets(e.entries)
    BY <1>4 DEF LoadSettings
  <2>2. /\ ParseTargets(e.entries).names = NamedIn(e.entries)
        /\ IsInjective(NamedIn(e.entries))
        /\ Malformed \notin ToSet(e.entries)
    BY <1>1, <2>1, ParseIsSound
  <2>3. PICK entry \in ToSet(e.entries) : entry # Blank
    BY <1>4
  <2>4. ToSet(e.entries) \subseteq Entry
    BY <1>1 DEF ToSet
  <2>5. entry \in Names
    BY <2>2, <2>3, <2>4 DEF Entry
  <2>6. NamedIn(e.entries) # <<>>
    BY <1>2, <2>3, <2>5
  <2> QED
    BY <1>2, <2>1, <2>2, <2>6
<1> QED
  BY <1>3, <1>4

-----------------------------------------------------------------------------
(* The inductive invariant. *)

Row == [status : Statuses, target : Names \cup {NoTarget}]
Steps == {"none", "begin", "check", "download", "verify", "hash", "delete", "remove"}

(* The settings of a process are the ones its environment gives. *)
Settled ==
    /\ settings \in Seq(Names)
    /\ SettingsAreSound

(* The columns added so far. *)
Migrates ==
    /\ phase \in {"off", "migrating", "up"}
    /\ columns \subseteq Columns
    /\ phase = "off" => missing = {}
    /\ phase # "off" => missing = Columns \ columns
    /\ phase = "up" => columns = Columns

(* A row has a target if the table has the column. *)
Placed(r) ==
    /\ r.status = "absent" => r.target = NoTarget
    /\ r.status # "absent" => r.target \in Names

RowsArePlaced ==
    /\ row \in [Jobs -> Row]
    /\ "target" \in columns => \A j \in Jobs : Placed(row[j])
    /\ "target" \notin columns => \A j \in Jobs : row[j].target = NoTarget

(* A row and the thread that works on it. *)
Attended(r, step) ==
    /\ r.status = "running" <=> step \in {"begin", "check", "download"}
    /\ r.status = "running" => Configured(r.target)
    /\ step \in {"verify", "hash"} => r.status = "verifying"
    /\ step \in {"delete", "remove"} => r.status = "deleting"
    /\ r.status \in {"verifying", "deleting"} /\ step = "none" => ~Configured(r.target)

RowsAreAttended ==
    /\ at \in [Jobs -> Steps]
    /\ phase # "up" => at = [j \in Jobs |-> "none"]
    /\ phase = "up" => \A j \in Jobs : Attended(row[j], at[j])

Outside ==
    /\ env \in Environments
    /\ mounted \subseteq Names
    /\ online \subseteq ToSet(settings)
    /\ phase # "up" => online = {}

Inv == Settled /\ Migrates /\ RowsArePlaced /\ RowsAreAttended /\ Outside

LEMMA ColumnsAre ==
    Columns = {"retry_count", "next_retry_at", "verify_status", "verify_detail", "target"}
BY DEF Columns, Schema, ToSet

LEMMA NoRowIsARow == NoRow \in Row /\ NoRow.target = NoTarget /\ NoRow.status = "absent"
BY DEF NoRow, Row, Statuses

LEMMA InvInit == Init => Inv
<1> SUFFICES ASSUME Init PROVE Inv
  OBVIOUS
<1>1. Settled
  BY DEF Init, Settled, SettingsAreSound
<1>2. Migrates
  BY ColumnsAre DEF Init, Migrates, Versions
<1>3. RowsArePlaced
  <2>1. PICK legacy \in SUBSET Jobs :
            /\ legacy = {} \/ "target" \notin columns
            /\ row = [j \in Jobs |-> IF j \in legacy
                                     THEN [NoRow EXCEPT !.status = "completed"] ELSE NoRow]
    BY DEF Init
  <2>2. [NoRow EXCEPT !.status = "completed"] \in Row
        /\ [NoRow EXCEPT !.status = "completed"].target = NoTarget
    BY DEF NoRow, Row, Statuses
  <2> QED
    BY <2>1, <2>2, NoRowIsARow DEF RowsArePlaced, Placed
<1>4. RowsAreAttended
  BY DEF Init, RowsAreAttended, Steps
<1>5. Outside
  BY DEF Init, Outside
<1> QED
  BY <1>1, <1>2, <1>3, <1>4, <1>5 DEF Inv
-----------------------------------------------------------------------------
(* The steps of the process. *)

LEMMA InvLoads ==
    ASSUME Inv, NEW e \in Environments, Loads(e)
    PROVE  Inv'
<1>1. /\ phase = "off" /\ phase' = "migrating" /\ env' = e /\ LoadSettings(e).ok
      /\ settings' = LoadSettings(e).names
      /\ UNCHANGED <<columns, row, at, online, mounted>>
  BY DEF Loads
<1>2. Settled'
  <2>1. Named' = NamedIn(e.entries)
    BY <1>1 DEF Named, NamedIn
  <2> QED
    BY <1>1, <2>1, LoadIsSound DEF Settled, SettingsAreSound
<1>3. Migrates'
  <2>1. missing' = Columns \ columns
    BY DEF Loads, Lacks
  <2> QED
    BY <1>1, <2>1 DEF Inv, Migrates
<1>4. RowsArePlaced'
  BY <1>1 DEF Inv, RowsArePlaced, Placed
<1>5. RowsAreAttended'
  BY <1>1 DEF Inv, RowsAreAttended
<1>6. Outside'
  BY <1>1 DEF Inv, Outside
<1> QED
  BY <1>2, <1>3, <1>4, <1>5, <1>6 DEF Inv

LEMMA InvAddsColumn ==
    ASSUME Inv, AddsColumn
    PROVE  Inv'
<1>1. PICK c \in missing :
          /\ columns' = columns \cup {c}
          /\ missing' = missing \ {c}
          /\ row' = IF c # "target" THEN row
                    ELSE [j \in Jobs |-> IF row[j].status = "absent" THEN row[j]
                                         ELSE [row[j] EXCEPT !.target = DefaultTarget]]
  BY DEF AddsColumn
<1>2. phase = "migrating" /\ UNCHANGED <<phase, env, settings, at, online, mounted>>
  BY DEF AddsColumn
<1>3. missing = Columns \ columns
  BY <1>2 DEF Inv, Migrates
<1>4. Settled'
  BY <1>2 DEF Inv, Settled, SettingsAreSound, Named
<1>5. Migrates'
  BY <1>1, <1>2, <1>3 DEF Inv, Migrates
<1>6. RowsArePlaced'
  <2>1. CASE c # "target"
    BY <1>1, <2>1 DEF Inv, RowsArePlaced, Placed
  <2>2. CASE c = "target"
    <3>1. \A j \in Jobs : row[j] \in Row /\ row[j].target = NoTarget
      BY <1>3, <2>2 DEF Inv, RowsArePlaced
    <3>2. DefaultTarget \in Names
      BY <1>2 DEF Inv, Settled, SettingsAreSound, DefaultTarget
    <3>3. \A j \in Jobs : row'[j] = IF row[j].status = "absent" THEN row[j]
                                    ELSE [row[j] EXCEPT !.target = DefaultTarget]
      BY <1>1, <2>2
    <3>4. \A j \in Jobs : row'[j] \in Row /\ Placed(row'[j])
      BY <3>1, <3>2, <3>3 DEF Row, Placed
    <3>5. row' = [j \in Jobs |-> row'[j]] /\ "target" \in columns'
      BY <1>1, <2>2
    <3> QED
      BY <3>4, <3>5 DEF RowsArePlaced
  <2> QED
    BY <2>1, <2>2
<1>7. RowsAreAttended'
  BY <1>2 DEF Inv, RowsAreAttended
<1>8. Outside'
  BY <1>2 DEF Inv, Outside
<1> QED
  BY <1>4, <1>5, <1>6, <1>7, <1>8 DEF Inv

LEMMA InvStarts ==
    ASSUME Inv, Starts
    PROVE  Inv'
<1>1. /\ phase = "migrating" /\ missing = {} /\ phase' = "up"
      /\ row' = [j \in Jobs |-> Started(row[j])]
      /\ at' = [j \in Jobs |-> IF row[j].status = "deleting" THEN "delete" ELSE "none"]
      /\ UNCHANGED <<env, settings, columns, missing, online, mounted>>
  BY DEF Starts
<1>2. Settled'
  BY <1>1 DEF Inv, Settled, SettingsAreSound, Named
<1>3. Migrates' /\ columns = Columns
  BY <1>1 DEF Inv, Migrates
<1>4. ASSUME NEW j \in Jobs
      PROVE  /\ Started(row[j]) \in Row
             /\ Started(row[j]).target = row[j].target
             /\ Started(row[j]).status \notin {"running", "verifying"}
             /\ Started(row[j]).status = "absent" <=> row[j].status = "absent"
             /\ Started(row[j]).status = "deleting" <=> row[j].status = "deleting"
  <2>1. row[j] \in Row
    BY DEF Inv, RowsArePlaced
  <2> QED
    BY <2>1 DEF Started, Row, Statuses
<1>5. RowsArePlaced'
  <2>1. "target" \in columns /\ "target" \in columns'
    BY <1>1, <1>3, ColumnsAre
  <2>2. \A j \in Jobs : Placed(row[j])
    BY <2>1 DEF Inv, RowsArePlaced
  <2>3. \A j \in Jobs : Placed(Started(row[j]))
    BY <1>4, <2>2 DEF Placed
  <2> QED
    BY <1>1, <1>4, <2>1, <2>3 DEF RowsArePlaced
<1>6. RowsAreAttended'
  <2>1. \A j \in Jobs :
            /\ row'[j] = Started(row[j])
            /\ at'[j] = IF row[j].status = "deleting" THEN "delete" ELSE "none"
    BY <1>1
  <2>2. \A j \in Jobs : row'[j].status = "deleting" <=> at'[j] = "delete"
    BY <1>4, <2>1
  <2>3. \A j \in Jobs : /\ row'[j].status \notin {"running", "verifying"}
                        /\ at'[j] \in {"none", "delete"}
    BY <1>4, <2>1
  <2>4. \A j \in Jobs : Attended(row[j], at[j])'
    BY <2>2, <2>3 DEF Attended
  <2>5. at' \in [Jobs -> Steps]
    BY <1>1 DEF Steps
  <2> QED
    BY <1>1, <2>4, <2>5 DEF RowsAreAttended
<1>7. Outside'
  BY <1>1 DEF Inv, Outside
<1> QED
  BY <1>2, <1>3, <1>5, <1>6, <1>7 DEF Inv

LEMMA InvDies ==
    ASSUME Inv, Dies
    PROVE  Inv'
<1>1. /\ phase' = "off" /\ settings' = <<>> /\ missing' = {} /\ online' = {}
      /\ at' = [j \in Jobs |-> "none"]
      /\ UNCHANGED <<env, columns, row, mounted>>
  BY DEF Dies
<1>2. Settled' /\ Migrates' /\ RowsArePlaced' /\ RowsAreAttended' /\ Outside'
  BY <1>1 DEF Inv, Settled, SettingsAreSound, Migrates, RowsArePlaced, Placed,
              RowsAreAttended, Steps, Outside
<1> QED
  BY <1>2 DEF Inv

(* A share is mounted or goes away, and the dispatcher looks. *)
LEMMA InvSharesAndTicks ==
    ASSUME Inv, Ticks \/ \E target \in Names : Remounts(target)
    PROVE  Inv'
<1>1. UNCHANGED <<phase, env, settings, columns, missing, row, at>>
  BY DEF Ticks, Remounts, process
<1>2. Settled' /\ Migrates' /\ RowsArePlaced'
  BY <1>1 DEF Inv, Settled, SettingsAreSound, Named, Migrates, RowsArePlaced, Placed
<1>3. RowsAreAttended'
  BY <1>1 DEF Inv, RowsAreAttended, Attended, Configured
<1>4. mounted' \subseteq Names /\ online' \subseteq ToSet(settings)
      /\ (phase # "up" => online' = {})
  BY DEF Ticks, Remounts, Inv, Outside
<1> QED
  BY <1>1, <1>2, <1>3, <1>4 DEF Inv, Outside
-----------------------------------------------------------------------------
(* The steps that change one row and its thread. *)

RowStep(j) ==
    /\ phase = "up"
    /\ \E r \in Row, step \in Steps :
          /\ row' = [row EXCEPT ![j] = r]
          /\ at' = [at EXCEPT ![j] = step]
          /\ Placed(r) /\ Attended(r, step)
          /\ row[j].target # NoTarget /\ r.status # "absent" => r.target = row[j].target
    /\ UNCHANGED <<process, online, mounted>>

(* Working threads exist only while the service is up, each with its row. *)
LEMMA WhileUp ==
    ASSUME Inv, NEW j \in Jobs
    PROVE  /\ row[j] \in Row /\ at[j] \in Steps
           /\ at[j] # "none" => phase = "up"
           /\ phase = "up" => Placed(row[j]) /\ Attended(row[j], at[j])
<1>1. phase = "up" => "target" \in columns
  BY ColumnsAre DEF Inv, Migrates
<1> QED
  BY <1>1 DEF Inv, RowsArePlaced, RowsAreAttended

LEMMA InvRowStep ==
    ASSUME Inv, NEW j \in Jobs, RowStep(j)
    PROVE  Inv'
<1>1. PICK r \in Row, step \in Steps :
          /\ row' = [row EXCEPT ![j] = r]
          /\ at' = [at EXCEPT ![j] = step]
          /\ Placed(r) /\ Attended(r, step)
  BY DEF RowStep
<1>2. phase = "up" /\ UNCHANGED <<phase, env, settings, columns, missing, online, mounted>>
  BY DEF RowStep, process
<1>3. Settled' /\ Migrates' /\ Outside'
  BY <1>2 DEF Inv, Settled, SettingsAreSound, Named, Migrates, Outside
<1>4. row \in [Jobs -> Row] /\ at \in [Jobs -> Steps]
  BY DEF Inv, RowsArePlaced, RowsAreAttended
<1>5. RowsArePlaced'
  <2>1. "target" \in columns /\ "target" \in columns'
    BY <1>2, ColumnsAre DEF Inv, Migrates
  <2>2. \A i \in Jobs : Placed(row[i])
    BY <2>1 DEF Inv, RowsArePlaced
  <2>3. \A i \in Jobs : row'[i] \in Row /\ Placed(row'[i])
    BY <1>1, <1>4, <2>2
  <2> QED
    BY <1>1, <1>4, <2>1, <2>3 DEF RowsArePlaced
<1>6. RowsAreAttended'
  <2>1. \A i \in Jobs : Attended(row[i], at[i])
    BY <1>2 DEF Inv, RowsAreAttended
  <2>2. ASSUME NEW i \in Jobs PROVE Attended(row'[i], at'[i])
    BY <1>1, <1>4, <2>1
  <2>3. \A i \in Jobs : Attended(row[i], at[i])'
    BY <1>2, <2>2 DEF Attended, Configured
  <2>4. at' \in [Jobs -> Steps]
    BY <1>1, <1>4
  <2> QED
    BY <1>2, <2>3, <2>4 DEF RowsAreAttended
<1> QED
  BY <1>3, <1>5, <1>6 DEF Inv

(* A step that leaves the row's target alone. *)
LEMMA StatusStep ==
    ASSUME Inv, NEW j \in Jobs, phase = "up", NEW status \in Statuses, NEW step \in Steps,
           row[j].status # "absent", status # "absent",
           row' = [row EXCEPT ![j].status = status],
           at' = [at EXCEPT ![j] = step],
           UNCHANGED <<process, online, mounted>>,
           status = "running" <=> step \in {"begin", "check", "download"},
           status = "running" => Configured(row[j].target),
           step \in {"verify", "hash"} => status = "verifying",
           step \in {"delete", "remove"} => status = "deleting",
           status \in {"verifying", "deleting"} /\ step = "none"
               => ~Configured(row[j].target)
    PROVE  RowStep(j)
<1> DEFINE r == [row[j] EXCEPT !.status = status]
<1>1. row[j] \in Row /\ Placed(row[j])
  BY WhileUp
<1>2. r \in Row /\ r.status = status /\ r.target = row[j].target
  BY <1>1 DEF Row
<1>3. row' = [row EXCEPT ![j] = r]
  OBVIOUS
<1> HIDE DEF r
<1>4. Placed(r) /\ Attended(r, step)
  BY <1>1, <1>2 DEF Placed, Attended
<1> QED
  BY <1>2, <1>3, <1>4 DEF RowStep

LEMMA RequestsAreRowSteps ==
    ASSUME Inv, NEW j \in Jobs, NEW target \in Names,
           Adds(j, target) \/ Verifies(j) \/ Deletes(j)
    PROVE  RowStep(j)
<1>1. phase = "up" /\ UNCHANGED <<process, online, mounted>>
  BY DEF Adds, Verifies, Deletes
<1>2. row[j] \in Row /\ at[j] \in Steps /\ Attended(row[j], at[j]) /\ Placed(row[j])
  BY <1>1, WhileUp
<1>3. row \in [Jobs -> Row] /\ at \in [Jobs -> Steps]
  BY DEF Inv, RowsArePlaced, RowsAreAttended
<1>4. CASE Adds(j, target) /\ row[j].status = "absent"
  <2> DEFINE r == [status |-> "queued", target |-> target]
  <2>1. row' = [row EXCEPT ![j] = r] /\ at' = [at EXCEPT ![j] = "none"] /\ at[j] = "none"
    BY <1>3, <1>4 DEF Adds
  <2>2. r \in Row /\ Placed(r) /\ Attended(r, "none")
    BY DEF Row, Statuses, Placed, Attended
  <2>3. row[j].target = NoTarget
    BY <1>2, <1>4 DEF Placed
  <2> QED
    BY <1>1, <2>1, <2>2, <2>3 DEF RowStep, Steps
<1>5. CASE Adds(j, target) /\ row[j].status # "absent"
  <2>1. row' = [row EXCEPT ![j].status = "queued"] /\ at' = [at EXCEPT ![j] = "none"]
    BY <1>3, <1>5 DEF Adds, Status
  <2> QED
    BY <1>1, <1>5, <2>1, StatusStep DEF Statuses, Steps
<1>6. CASE Verifies(j)
  BY <1>1, <1>6, StatusStep DEF Verifies, Status, GoTo, Statuses, Steps
<1>7. CASE Deletes(j)
  BY <1>1, <1>7, StatusStep DEF Deletes, Status, GoTo, Statuses, Steps
<1> QED
  BY <1>4, <1>5, <1>6, <1>7

LEMMA ClaimsIsRowStep ==
    ASSUME Inv, NEW j \in Jobs, Claims(j)
    PROVE  RowStep(j)
<1>1. Configured(row[j].target) /\ row[j].status = "queued"
  BY DEF Claims, Runnable, Inv, Outside, Configured
<1> QED
  BY <1>1, StatusStep DEF Claims, Status, GoTo, Statuses, Steps

LEMMA WorksIsRowStep ==
    ASSUME Inv, NEW j \in Jobs, Works(j)
    PROVE  RowStep(j)
<1>1. at[j] # "none" /\ UNCHANGED <<process, online, mounted>>
  BY DEF Works, BeginsRun, BeginsVerify, BeginsDelete, ResolvesTarget, ChecksTarget,
         Ends, Lands, Removes
<1>2. phase = "up" /\ row[j] \in Row /\ at[j] \in Steps /\ Attended(row[j], at[j])
  BY <1>1, WhileUp
<1>3. row \in [Jobs -> Row] /\ at \in [Jobs -> Steps]
  BY DEF Inv, RowsArePlaced, RowsAreAttended
<1>4. row[j].status # "absent"
  BY <1>1, <1>2 DEF Attended, Steps
<1>5. ASSUME UNCHANGED row PROVE row' = [row EXCEPT ![j].status = row[j].status]
  BY <1>3, <1>5 DEF Row
<1>6. row[j].status \in Statuses
  BY <1>2 DEF Row
<1>7. ASSUME NEW step \in Steps, ResolvesTarget(j, step) /\ at[j] \in {"begin", "verify", "delete"}
      PROVE  /\ UNCHANGED row
             /\ at' = [at EXCEPT ![j] = IF Configured(row[j].target) THEN step ELSE "none"]
  BY <1>7 DEF ResolvesTarget, GoTo
<1>8. CASE BeginsRun(j)
  BY <1>1, <1>2, <1>4, <1>5, <1>6, <1>7, <1>8, StatusStep DEF BeginsRun, Steps, Attended
<1>9. CASE BeginsVerify(j)
  BY <1>1, <1>2, <1>4, <1>5, <1>6, <1>7, <1>9, StatusStep DEF BeginsVerify, Steps, Attended
<1>10. CASE BeginsDelete(j)
  BY <1>1, <1>2, <1>4, <1>5, <1>6, <1>7, <1>10, StatusStep DEF BeginsDelete, Steps, Attended
<1>11. CASE ChecksTarget(j)
  BY <1>1, <1>2, <1>4, <1>5, <1>6, <1>11, StatusStep
     DEF ChecksTarget, GoTo, Status, Steps, Statuses, Attended
<1>12. CASE Ends(j)
  BY <1>1, <1>2, <1>4, <1>12, StatusStep DEF Ends, GoTo, Status, Steps, Statuses
<1>13. CASE Lands(j)
  BY <1>1, <1>2, <1>4, <1>13, StatusStep DEF Lands, GoTo, Status, Steps, Statuses
<1>14. CASE Removes(j)
  <2>1. at' = [at EXCEPT ![j] = "none"]
    BY <1>14 DEF Removes, GoTo
  <2>2. CASE row' = [row EXCEPT ![j] = NoRow]
    <3>1. Placed(NoRow) /\ Attended(NoRow, "none")
      BY NoRowIsARow DEF Placed, Attended
    <3> QED
      BY <1>1, <1>2, <2>1, <2>2, <3>1, NoRowIsARow DEF RowStep, Steps
  <2>3. CASE Status(j, "failed")
    BY <1>1, <1>2, <1>4, <2>1, <2>3, StatusStep DEF Status, Steps, Statuses
  <2> QED
    BY <1>14, <2>2, <2>3 DEF Removes
<1> QED
  BY <1>8, <1>9, <1>10, <1>11, <1>12, <1>13, <1>14 DEF Works
-----------------------------------------------------------------------------
(* The theorems. *)

LEMMA InvNext == Inv /\ [Next]_vars => Inv'
<1> SUFFICES ASSUME Inv, [Next]_vars PROVE Inv'
  OBVIOUS
<1>1. CASE UNCHANGED vars
  BY <1>1 DEF vars, Inv, Settled, SettingsAreSound, Named, Migrates, RowsArePlaced, Placed,
              RowsAreAttended, Attended, Configured, Outside
<1>2. CASE (\E e \in Environments : Loads(e)) \/ AddsColumn \/ Starts \/ Dies
  BY <1>2, InvLoads, InvAddsColumn, InvStarts, InvDies
<1>3. CASE Ticks \/ \E target \in Names : Remounts(target)
  BY <1>3, InvSharesAndTicks
<1>4. ASSUME NEW j \in Jobs, NEW target \in Names, Adds(j, target)
      PROVE  Inv'
  BY <1>4, RequestsAreRowSteps, InvRowStep
<1>5. ASSUME NEW j \in Jobs, Verifies(j) \/ Deletes(j) \/ Claims(j) \/ Works(j)
      PROVE  Inv'
  <2>1. PICK target \in Names : TRUE
    BY TargetsAssumption
  <2>2. RowStep(j)
    BY <1>5, <2>1, RequestsAreRowSteps, ClaimsIsRowStep, WorksIsRowStep
  <2> QED
    BY <2>2, InvRowStep
<1> QED
  BY <1>1, <1>2, <1>3, <1>4, <1>5 DEF Next

LEMMA InvAlways == Spec => []Inv
<1>1. Init => Inv
  BY InvInit
<1>2. Inv /\ [Next]_vars => Inv'
  BY InvNext
<1> QED
  BY <1>1, <1>2, PTL DEF Spec

(* Every variable of the settings, the table and the threads stays in its  *)
(* type, and a row has a target once its table has that column             *)
(* (config.py, db.py:78-93).                                               *)
THEOREM TypeCorrect == Spec => []TypeOK
<1>1. Inv => TypeOK
  <2> SUFFICES ASSUME Inv PROVE TypeOK
    OBVIOUS
  <2>1. phase \in {"off", "migrating", "up"} /\ columns \subseteq Columns
        /\ missing \subseteq Columns \ columns
    BY DEF Inv, Migrates
  <2>2. env \in Environments /\ settings \in Seq(Names) /\ mounted \subseteq Names
        /\ online \subseteq Names
    BY DEF Inv, Outside, Settled, ToSet
  <2>3. row \in [Jobs -> Row] /\ at \in [Jobs -> Steps]
    BY DEF Inv, RowsArePlaced, RowsAreAttended
  <2>4. ASSUME NEW j \in Jobs, row[j].target = NoTarget
        PROVE  row[j].status = "absent" \/ "target" \notin columns
    BY <2>4, TargetsAssumption DEF Inv, RowsArePlaced, Placed
  <2> QED
    BY <2>1, <2>2, <2>3, <2>4 DEF TypeOK, Row, Steps
<1> QED
  BY <1>1, InvAlways, PTL

(* A process that gets past load_settings has the targets its environment  *)
(* lists, in their order and each once, whatever the list                  *)
(* (config.py:60-75,112-125).                                              *)
THEOREM SettingsSound == Spec => []SettingsAreSound
<1>1. Inv => SettingsAreSound
  BY DEF Inv, Settled
<1> QED
  BY <1>1, InvAlways, PTL

(* A table of any earlier version is complete, and each of its rows has a  *)
(* target, when the service is up, wherever earlier starts were            *)
(* interrupted (db.py:78-93).                                              *)
THEOREM SchemaWhole == Spec => []SchemaIsWhole
<1>1. Inv => SchemaIsWhole
  BY ColumnsAre DEF Inv, Migrates, RowsArePlaced, Placed, SchemaIsWhole
<1> QED
  BY <1>1, InvAlways, PTL

(* No download of a target that is not in the settings is ever started,    *)
(* and a verification or a delete is only left without its thread for that *)
(* reason (backup.py:132,425,515-518).                                     *)
THEOREM OnlyDroppedAreAbandoned == Spec => []AbandonedOnlyIfDropped
<1>1. Inv => AbandonedOnlyIfDropped
  <2> SUFFICES ASSUME Inv, phase = "up", NEW j \in Jobs, at[j] = "none",
                      row[j].status \in {"running", "verifying", "deleting"}
               PROVE  row[j].status # "running" /\ ~Configured(row[j].target)
    BY DEF AbandonedOnlyIfDropped
  <2>1. Attended(row[j], at[j])
    BY WhileUp
  <2> QED
    BY <2>1 DEF Attended
<1> QED
  BY <1>1, InvAlways, PTL

(* No step moves a row to another target: not a request, not a restart in  *)
(* another environment, and the migration only where there was none        *)
(* (db.py:88-93, main.py:102-109).                                         *)
THEOREM TargetsAreKept == Spec => RowsKeepTheirTarget
<1> DEFINE Kept == \A j \in Jobs : row[j].target # NoTarget /\ row'[j].status # "absent"
                       => row'[j].target = row[j].target
<1>1. ASSUME Inv, [Next]_vars PROVE [Kept]_row
  <2> SUFFICES ASSUME row' # row PROVE Kept
    OBVIOUS
  <2>1. ASSUME NEW j \in Jobs, RowStep(j) PROVE Kept
    <3>1. PICK r \in Row :
              /\ row' = [row EXCEPT ![j] = r]
              /\ row[j].target # NoTarget /\ r.status # "absent" => r.target = row[j].target
      BY <2>1 DEF RowStep
    <3>2. row \in [Jobs -> Row]
      BY <1>1 DEF Inv, RowsArePlaced
    <3> QED
      BY <3>1, <3>2
  <2>2. CASE AddsColumn
    <3>1. PICK c \in missing : row' = IF c # "target" THEN row
                    ELSE [j \in Jobs |-> IF row[j].status = "absent" THEN row[j]
                                         ELSE [row[j] EXCEPT !.target = DefaultTarget]]
      BY <2>2 DEF AddsColumn
    <3>2. c = "target" /\ c \notin columns
      BY <1>1, <2>2, <3>1 DEF AddsColumn, Inv, Migrates
    <3> QED
      BY <1>1, <3>2 DEF Inv, RowsArePlaced
  <2>3. CASE Starts
    <3>1. \A j \in Jobs : row'[j] = Started(row[j]) /\ row[j] \in Row
      BY <1>1, <2>3 DEF Starts, Inv, RowsArePlaced
    <3>2. \A j \in Jobs : row'[j].target = row[j].target
      BY <3>1 DEF Started, Row
    <3> QED
      BY <3>2
  <2>4. ASSUME NEW j \in Jobs, NEW target \in Names, Adds(j, target) PROVE Kept
    BY <1>1, <2>1, <2>4, RequestsAreRowSteps
  <2>5. ASSUME NEW j \in Jobs, Verifies(j) \/ Deletes(j) \/ Claims(j) \/ Works(j)
        PROVE  Kept
    <3>1. PICK target \in Names : TRUE
      BY TargetsAssumption
    <3>2. RowStep(j)
      BY <1>1, <2>5, <3>1, RequestsAreRowSteps, ClaimsIsRowStep, WorksIsRowStep
    <3> QED
      BY <2>1, <3>2
  <2>6. ~Ticks /\ ~Dies /\ ~(UNCHANGED vars) /\ (\A e : ~Loads(e))
        /\ (\A target : ~Remounts(target))
    BY DEF Ticks, Dies, vars, Loads, Remounts
  <2>7. Next
    BY <1>1, <2>6
  <2> HIDE DEF Kept
  <2> QED
    BY <2>2, <2>3, <2>4, <2>5, <2>6, <2>7 DEF Next
<1> QED
  BY <1>1, InvAlways, PTL DEF Spec, RowsKeepTheirTarget
=============================================================================
